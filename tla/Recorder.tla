------------------------------- MODULE Recorder ------------------------------
(***************************************************************************)
(* HiRecorderImpl, its state machine and the filters it drives: capture,   *)
(* encoder, muxer and output sink.                                         *)
(*                                                                         *)
(* The client's call posts an intent and sleeps until the machine's thread *)
(* has answered it; Prepare and Stop then sleep until the state they wait  *)
(* for is announced.  The machine's thread runs one job at a time: the     *)
(* calls the state makes (steps), the transition and what entering the new *)
(* state does, the answer, and one job that had been put off.              *)
(*                                                                         *)
(* The threads that record: the audio capture's Task encodes and muxes in  *)
(* its own thread; the video capture's Task feeds the encoder's queue, and *)
(* the encoder's push Task the muxer.  The muxer ends the file from        *)
(* whatever thread pushed the last EOS.                                    *)
(*                                                                         *)
(* The client is one thread.  The plug-ins are external; a frame has no    *)
(* content, and each frame captured is one frame encoded.                  *)
(***************************************************************************)
EXTENDS Integers, Sequences, FiniteSets, SequencesExt

CONSTANTS RecStreams,       \* the sources the client may set
          RecApi,           \* the calls it makes
          RecFaults,        \* what may fail: a subset of {"prepare", "start", "read", "timeout"}
          MaxRecCalls, MaxFrames,
          EncoderDepth      \* capacity of the video encoder's queue

ASSUME RecorderAssumption ==
    /\ RecStreams \subseteq {"audio", "video"} /\ MaxRecCalls \in Nat /\ MaxFrames \in Nat
    /\ RecApi \subseteq {"SetAudio", "SetVideo", "Configure", "Prepare", "Start", "Pause", "Resume", "Stop",
                    "StopNow", "Reset"}
    /\ RecFaults \subseteq {"prepare", "start", "read", "timeout"} /\ EncoderDepth \in Nat \ {0}

VARIABLES
    recState,       \* curState_ of the machine
    seenState,      \* curFsmState_ of the engine
    recJobs,        \* jobs_: intents
    pendingJobs,    \* pendingJobs_
    job,            \* the job being run
    client,         \* what the client's call has left to do
    sent, answer,   \* whether it sleeps in SendEvent, and what it was told
    recCalls,       \* calls made
    sources,        \* audioCount_, videoCount_: sources set for this recording
    built, linked,  \* chains whose filters are in the pipeline; those with a port of the muxer
    chosen,         \* captures that were given their input type
    fst,            \* state_ of the output sink, the muxer and the encoders
    pipe,           \* state_ of the pipeline
    readyEvents,    \* readyEventCnt_
    mux,            \* the muxer: eos_, hasWriteHeader_, metaCache_, trackInfos_, eosTrackCnt
    acap,           \* audio capture: its Task, the place of its handler, eos_
    vcap,           \* video capture: likewise, isEos_
    venc,           \* video encoder: its Tasks, its queue, the place of FinishFrame, its plug-in
    frames,         \* frames captured
    headers, lost   \* headers written since the pipeline started; a file left without trailer (history)

recVars == <<recState, seenState, recJobs, pendingJobs, job, client, sent, answer, recCalls,
             sources, built, linked, chosen, fst, pipe, readyEvents, mux, acap, vcap, venc,
             frames, headers, lost>>
fileVars == <<mux, recJobs, headers>>
fsmVars == <<recState, seenState, pendingJobs, job>>
clientVars == <<client, sent, answer, recCalls, sources, built, linked, chosen>>
recPipeVars == <<fst, pipe, readyEvents>>

RecStates == {"INIT", "RECORDING_SETTING", "READY", "RECORDING", "PAUSE", "ERROR"}
Intents == {"SET_AUDIO_SOURCE", "SET_VIDEO_SOURCE", "CONFIGURE", "PREPARE", "START", "PAUSE", "RESUME",
            "STOP", "STOP_NOW", "RESET", "NOTIFY_READY", "NOTIFY_COMPLETE", "NOTIFY_ERROR"}
RecFilters == {"sink", "muxer", "aenc", "venc"}
RecFilterStates == {"CREATED", "INITIALIZED", "PREPARING", "READY", "RUNNING", "PAUSED"}
NoJob == [phase |-> "none", intent |-> "START", steps |-> <<>>, ok |-> TRUE, late |-> FALSE]

RecTypeOK ==
    /\ recState \in RecStates /\ seenState \in RecStates
    /\ recJobs \in Seq(Intents) /\ pendingJobs \in Seq({"START"})
    /\ job.phase \in {"none", "execute", "enter", "late"} /\ job.intent \in Intents
    /\ job.ok \in BOOLEAN /\ job.late \in BOOLEAN
    /\ client \in Seq(Intents \union {"ready?", "init?"})
    /\ sent \in BOOLEAN /\ answer \in {"none", "ok", "bad"}
    /\ recCalls \in 0 .. MaxRecCalls /\ frames \in 0 .. MaxFrames
    /\ sources \subseteq built /\ linked \subseteq built /\ chosen \subseteq built
    /\ built \subseteq RecStreams
    /\ fst \in [RecFilters -> RecFilterStates] /\ pipe \in RecFilterStates
    /\ readyEvents \in 0 .. 5
    /\ mux.eos \in BOOLEAN /\ mux.header \in BOOLEAN /\ mux.meta \in Seq(RecStreams)
    /\ mux.tracks \in Seq([port : RecStreams, eos : BOOLEAN]) /\ mux.cnt \in 0 .. Len(mux.tracks)
    /\ acap \in [run : BOOLEAN, at : {"idle", "frame", "eos", "last", "check", "done"}, eos : BOOLEAN]
    /\ vcap \in [run : BOOLEAN, at : {"idle", "frame"}, eos : BOOLEAN]
    /\ venc.on \in BOOLEAN /\ venc.queue \in Seq({"frame", "eos"}) /\ Len(venc.queue) <= EncoderDepth
    /\ venc.at \in {"idle", "check"} /\ venc.made \in BOOLEAN
    /\ headers \in Nat /\ lost \in BOOLEAN

RecInit ==
    /\ recState = "INIT" /\ seenState = "INIT"
    /\ recJobs = <<>> /\ pendingJobs = <<>> /\ job = NoJob
    /\ client = <<>> /\ sent = FALSE /\ answer = "none" /\ recCalls = 0
    /\ sources = {} /\ built = {} /\ linked = {} /\ chosen = {}
    /\ fst = [f \in RecFilters |-> IF f \in {"sink", "muxer"} THEN "INITIALIZED" ELSE "CREATED"]
    /\ pipe = "INITIALIZED" /\ readyEvents = 0
    /\ mux = [eos |-> FALSE, header |-> FALSE, meta |-> <<>>, tracks |-> <<>>, cnt |-> 0]
    /\ acap = [run |-> FALSE, at |-> "idle", eos |-> FALSE]
    /\ vcap = acap
    /\ venc = [on |-> FALSE, queue |-> <<>>, at |-> "idle", made |-> FALSE]
    /\ frames = 0 /\ headers = 0 /\ lost = FALSE

Encoder(s) == IF s = "audio" THEN "aenc" ELSE "venc"
Works(f) == fst[f] \in {"READY", "PAUSED", "RUNNING"}

-----------------------------------------------------------------------------
(* The muxer and the output sink behind it.                                *)

MuxerTakes == Works("muxer") /\ ~mux.eos

\* UpdateEosState: every track of the port, those of earlier recordings included.
Ended(port) == [i \in DOMAIN mux.tracks |->
                  [mux.tracks[i] EXCEPT !.eos = @ \/ mux.tracks[i].port = port]]
EosCount(tracks) == Len(SelectSeq(tracks, LAMBDA t : t.eos))

\* MuxerFilter::PushData, up to its unlock.
MuxerPush(port, kind) ==
    /\ IF ~MuxerTakes THEN UNCHANGED <<mux, headers>>
       ELSE LET tracks == IF kind = "eos" THEN Ended(port) ELSE mux.tracks IN
            /\ mux' = [mux EXCEPT !.header = TRUE, !.tracks = tracks,
                                  !.cnt = IF kind = "eos" THEN EosCount(tracks) ELSE @]
            /\ headers' = headers + (IF mux.header THEN 0 ELSE 1)
    /\ UNCHANGED recJobs

AllTracksEos(m) == m.cnt = Len(m.tracks)

MuxerEndsQuietly ==
    /\ mux' = [mux EXCEPT !.header = FALSE, !.meta = <<>>]
    /\ recJobs' = Append(recJobs, "NOTIFY_COMPLETE")
    /\ UNCHANGED headers

\* MuxerFilter::SendEos: the trailer, and the EOS that makes the sink report its
\* completion.  No filter is in mediaStats_, so one report is all of them.
MuxerSendEos ==
    /\ mux' = [mux EXCEPT !.eos = TRUE, !.header = FALSE, !.meta = <<>>]
    /\ recJobs' = Append(recJobs, "NOTIFY_COMPLETE")
    /\ UNCHANGED headers

MuxerChecks == IF AllTracksEos(mux) THEN MuxerSendEos ELSE UNCHANGED fileVars

\* A push that was taken goes on to AllTracksEos.
Checks == MuxerTakes /\ AllTracksEos(mux')

-----------------------------------------------------------------------------
(* The capture threads.  pushDataMutex_ of the audio capture is held from  *)
(* the push of a buffer until the muxer has checked its tracks, by the     *)
(* Task's thread or by the machine's in SendEos.                           *)

Step == IF job.steps = <<>> THEN "none" ELSE Head(job.steps)
CaptureLocked == acap.at \in {"last", "check"} \/ Step = "checkAudio"

ReadAudio ==
    /\ acap.run /\ acap.at = "idle" /\ ~acap.eos /\ frames < MaxFrames
    /\ frames' = frames + 1
    /\ \E to \in {"frame"} \union (IF "read" \in RecFaults THEN {"eos"} ELSE {}) :
          acap' = [acap EXCEPT !.at = to]
    /\ UNCHANGED <<fsmVars, clientVars, recPipeVars, fileVars, vcap, venc, lost>>

PushAudio ==
    /\ acap.at \in {"frame", "eos"} /\ ~CaptureLocked
    /\ IF acap.eos \/ ~Works("aenc") THEN UNCHANGED fileVars
       ELSE MuxerPush("audio", acap.at)
    /\ acap' = [acap EXCEPT !.at = IF ~acap.eos /\ Works("aenc") /\ Checks
                                   THEN (IF @ = "eos" THEN "last" ELSE "check")
                                   ELSE (IF @ = "eos" THEN "done" ELSE "idle")]
    /\ UNCHANGED <<fsmVars, clientVars, recPipeVars, vcap, venc, frames, lost>>

CheckAudio ==
    /\ acap.at \in {"last", "check"}
    /\ MuxerChecks
    /\ acap' = [acap EXCEPT !.at = IF @ = "last" THEN "done" ELSE "idle"]
    /\ UNCHANGED <<fsmVars, clientVars, recPipeVars, vcap, venc, frames, lost>>

\* SendEos sets eos_ once it has released the lock.
EndAudio ==
    /\ acap.at = "done"
    /\ acap' = [acap EXCEPT !.at = "idle", !.eos = TRUE]
    /\ UNCHANGED <<fsmVars, clientVars, recPipeVars, fileVars, vcap, venc, frames, lost>>

ReadVideo ==
    /\ vcap.run /\ vcap.at = "idle" /\ ~vcap.eos /\ frames < MaxFrames
    /\ frames' = frames + 1
    /\ vcap' = [vcap EXCEPT !.at = "frame"]
    /\ UNCHANGED <<fsmVars, clientVars, recPipeVars, fileVars, acap, venc, lost>>

\* VideoEncoderFilter::PushData waits for room, and gives up when it is stopped.
EncoderTakes == ~Works("venc") \/ Len(venc.queue) < EncoderDepth
EncoderGets(kind) ==
    venc' = IF Works("venc") THEN [venc EXCEPT !.queue = Append(@, kind)] ELSE venc

PushVideo ==
    /\ vcap.at = "frame" /\ EncoderTakes
    /\ EncoderGets("frame")
    /\ vcap' = [vcap EXCEPT !.at = "idle"]
    /\ UNCHANGED <<fsmVars, clientVars, recPipeVars, fileVars, acap, frames, lost>>

FinishFrame ==
    /\ venc.on /\ venc.at = "idle" /\ venc.queue # <<>>
    /\ MuxerPush("video", Head(venc.queue))
    /\ venc' = [venc EXCEPT !.queue = Tail(@), !.at = IF Checks THEN "check" ELSE "idle"]
    /\ UNCHANGED <<fsmVars, clientVars, recPipeVars, acap, vcap, frames, lost>>

FinishCheck ==
    /\ venc.at = "check"
    /\ MuxerChecks
    /\ venc' = [venc EXCEPT !.at = "idle"]
    /\ UNCHANGED <<fsmVars, clientVars, recPipeVars, acap, vcap, frames, lost>>

-----------------------------------------------------------------------------
(* The client.                                                             *)

NewChain(s) == s \notin built

\* SetAudioSource, SetVideoSource: the chain is built by the first call; its
\* track is refused once the muxer has left INITIALIZED.
SetSource(s) ==
    /\ s \in RecStreams \ sources
    /\ s = "video" => NewChain(s)           \* a second chain of the same name is not modelled
    /\ built' = built \union {s}
    /\ linked' = IF NewChain(s) /\ fst["muxer"] = "INITIALIZED" THEN linked \union {s} ELSE linked
    /\ fst' = IF NewChain(s) THEN [fst EXCEPT ![Encoder(s)] = "INITIALIZED"] ELSE fst
    /\ client' = IF NewChain(s) /\ fst["muxer"] # "INITIALIZED" THEN <<>>
                 ELSE <<IF s = "audio" THEN "SET_AUDIO_SOURCE" ELSE "SET_VIDEO_SOURCE">>

StopCall(drain) == <<IF drain THEN "STOP" ELSE "STOP_NOW", "init?">>

OwnSteps(c) ==
    CASE c = "Configure" -> <<"CONFIGURE">>
      [] c = "Prepare" -> <<"PREPARE", "ready?">>
      [] c = "Start" -> <<IF seenState = "PAUSE" THEN "RESUME" ELSE "START">>
      [] c = "Pause" -> <<"PAUSE">>
      [] c = "Resume" -> <<"RESUME">>
      [] c = "Stop" -> StopCall(TRUE)
      [] c = "StopNow" -> StopCall(FALSE)
      [] c = "Reset" -> (IF seenState = "RECORDING" THEN StopCall(FALSE) ELSE <<>>) \o <<"RESET">>

RecCall(c) ==
    /\ client = <<>> /\ recCalls < MaxRecCalls
    /\ recCalls' = recCalls + 1
    /\ IF c \in {"SetAudio", "SetVideo"}
       THEN SetSource(IF c = "SetAudio" THEN "audio" ELSE "video")
       ELSE /\ c = "Configure" => sources # {}
            \* the sink has no plug-in to end before the first Prepare
            /\ c = "StopNow" => fst["sink"] # "INITIALIZED"
            /\ client' = OwnSteps(c)
            /\ UNCHANGED <<built, linked, fst>>
    /\ UNCHANGED <<fsmVars, fileVars, sent, answer, sources, chosen, pipe, readyEvents,
                   acap, vcap, venc, frames, lost>>

\* SendEvent: the intent is posted and its answer waited for.
SendEvent ==
    /\ client # <<>> /\ ~sent /\ Head(client) \in Intents
    /\ recJobs' = Append(recJobs, Head(client))
    /\ sent' = TRUE /\ answer' = "none"
    /\ UNCHANGED <<fsmVars, recPipeVars, client, recCalls, sources, built, linked, chosen,
                   mux, headers, acap, vcap, venc, frames, lost>>

\* After an intent that failed the call does not wait for the state.
Answered ==
    /\ sent /\ answer # "none"
    /\ sent' = FALSE /\ answer' = "none"
    /\ client' = IF answer = "bad" /\ Len(client) > 1 /\ client[2] \notin Intents
                 THEN Tail(Tail(client)) ELSE Tail(client)
    /\ sources' = IF answer = "bad" THEN sources
                  ELSE sources \union (CASE Head(client) = "SET_AUDIO_SOURCE" -> {"audio"}
                                         [] Head(client) = "SET_VIDEO_SOURCE" -> {"video"}
                                         [] OTHER -> {})
    /\ UNCHANGED <<fsmVars, recPipeVars, fileVars, recCalls, built, linked, chosen, acap, vcap, venc, frames, lost>>

\* Thirty seconds pass only for a job that was put off.
SendTimesOut ==
    /\ "timeout" \in RecFaults
    /\ sent /\ answer = "none" /\ Head(client) = "START"
    /\ recJobs = <<>> /\ job = NoJob
    /\ sent' = FALSE /\ client' = Tail(client)
    /\ UNCHANGED <<fsmVars, recPipeVars, fileVars, answer, recCalls, sources, built, linked, chosen,
                   acap, vcap, venc, frames, lost>>

StateReached ==
    /\ client # <<>>
    /\ \/ Head(client) = "ready?" /\ seenState # "RECORDING_SETTING"
       \/ Head(client) = "init?" /\ (seenState \in {"ERROR", "INIT"} \/ "timeout" \in RecFaults)
    /\ client' = Tail(client)
    /\ UNCHANGED <<fsmVars, recPipeVars, fileVars, sent, answer, recCalls, sources, built, linked, chosen,
                   acap, vcap, venc, frames, lost>>

-----------------------------------------------------------------------------
(* What a state does with an intent.                                       *)

PipeStopSteps ==
    <<"stopFile">> \o (IF "audio" \in built THEN <<"stopEncoder", "stopCapture">> ELSE <<>>)
                   \o (IF "video" \in built THEN <<"stopVideo", "stopCamera">> ELSE <<>>)

\* DoStop(isDrainAll).
LeaveSteps(i) ==
    IF i = "STOP_NOW" THEN <<"endFile", "forget">>
    ELSE (IF "audio" \in built THEN <<"eosAudio", "checkAudio", "endAudio">> ELSE <<>>)
         \o (IF "video" \in built THEN <<"stopCamera", "eosVideo">> ELSE <<>>) \o <<"forget">>

PrepareSteps == <<"prepareFile">> \o (IF "audio" \in built THEN <<"prepareAudio">> ELSE <<>>)
                                  \o (IF "video" \in built THEN <<"prepareVideo">> ELSE <<>>)

Stops == {"STOP", "STOP_NOW"}
Executes(i) ==
    CASE i = "PREPARE" /\ recState = "RECORDING_SETTING" -> PrepareSteps
      [] i \in Stops /\ recState \in {"RECORDING_SETTING", "RECORDING", "PAUSE"} -> LeaveSteps(i)
      [] i = "RESET" -> PipeStopSteps \o <<"forget">>
      [] i = "NOTIFY_COMPLETE" /\ recState \in {"INIT", "RECORDING"} -> PipeStopSteps
      [] OTHER -> <<>>

\* The intents a state takes, and where they lead; what is not listed is refused.
Accepts(i) ==
    /\ i \in {"SET_AUDIO_SOURCE", "SET_VIDEO_SOURCE"} => recState \in {"INIT", "RECORDING_SETTING"}
    /\ i \in {"CONFIGURE", "PREPARE", "NOTIFY_READY"} => recState = "RECORDING_SETTING"
    /\ i = "START" => recState \in {"RECORDING_SETTING", "READY", "RECORDING", "PAUSE"}
    /\ i \in {"PAUSE", "RESUME"} => recState \in {"RECORDING", "PAUSE"}
    /\ i \in Stops => recState \in {"RECORDING_SETTING", "RECORDING", "PAUSE"}

\* Whether the job is put off, and the state its action leads to.
PutOff(i) == i = "START" /\ recState = "RECORDING_SETTING"
Target(i, ok) ==
    CASE i \in {"SET_AUDIO_SOURCE", "SET_VIDEO_SOURCE", "CONFIGURE"} /\ ok -> "RECORDING_SETTING"
      [] i = "NOTIFY_READY" /\ ok -> "READY"
      [] i = "PREPARE" /\ ~ok /\ recState = "RECORDING_SETTING" -> "ERROR"
      [] i = "START" /\ ok /\ recState \in {"READY", "PAUSE"} -> "RECORDING"
      [] i = "RESUME" /\ ok /\ recState = "PAUSE" -> "RECORDING"
      [] i = "PAUSE" /\ ok /\ recState = "RECORDING" -> "PAUSE"
      [] i \in Stops /\ ok /\ recState \in {"RECORDING_SETTING", "PAUSE"} -> "INIT"
      [] i \in Stops /\ ~ok /\ recState # "ERROR" -> "ERROR"
      [] i = "RESET" \/ (i = "NOTIFY_COMPLETE" /\ ok /\ recState = "RECORDING") -> "INIT"
      [] i = "NOTIFY_ERROR" -> "ERROR"
      [] OTHER -> "none"

EntrySteps(to, i) ==
    CASE to = "RECORDING" /\ i # "RESUME" ->
           <<"startFile">> \o (IF "audio" \in built THEN <<"startAudio">> ELSE <<>>)
                           \o (IF "video" \in built THEN <<"startVideo">> ELSE <<>>)
      [] to = "RECORDING" /\ i = "RESUME" ->
           (IF "audio" \in built THEN <<"resumeAudio">> ELSE <<>>)
           \o (IF "video" \in built THEN <<"resumeVideo">> ELSE <<>>) \o <<"resumed">>
      [] to = "PAUSE" ->
           IF seenState = "READY" THEN <<>>
           ELSE <<"pauseFile">> \o (IF "audio" \in built THEN <<"pauseAudio">> ELSE <<>>)
                                \o (IF "video" \in built THEN <<"pauseVideo">> ELSE <<>>)
      [] OTHER -> <<>>

Runs(i, late) == [phase |-> "execute", intent |-> i, steps |-> Executes(i), ok |-> Accepts(i), late |-> late]
OthersSame == UNCHANGED <<recPipeVars, acap, vcap, venc, frames, headers, lost, mux,
                          client, sent, recCalls, sources, built, linked>>

\* DoTask and the first half of ProcessIntent.
TakeJob ==
    /\ job = NoJob /\ recJobs # <<>>
    /\ recJobs' = Tail(recJobs)
    /\ job' = Runs(Head(recJobs), FALSE)
    /\ chosen' = IF Accepts(Head(recJobs))
                 THEN chosen \union (CASE Head(recJobs) = "SET_AUDIO_SOURCE" -> {"audio"}
                                       [] Head(recJobs) = "SET_VIDEO_SOURCE" -> {"video"}
                                       [] OTHER -> {})
                 ELSE chosen
    /\ UNCHANGED <<recState, seenState, pendingJobs, answer>>
    /\ OthersSame

\* OnIntentExecuted, and the job put off that a transition makes DoTask run.
Answers(i, ok) == answer' = IF sent /\ Head(client) = i THEN (IF ok THEN "ok" ELSE "bad") ELSE answer
GoesOn(action) ==
    IF ~job.late /\ action /\ pendingJobs # <<>>
    THEN job' = [phase |-> "late", intent |-> "START", steps |-> <<>>, ok |-> TRUE, late |-> TRUE]
         /\ pendingJobs' = Tail(pendingJobs)
    ELSE job' = NoJob /\ UNCHANGED pendingJobs
RunLate ==
    /\ job.phase = "late"
    /\ job' = Runs("START", TRUE)
    /\ UNCHANGED <<recState, seenState, pendingJobs, recJobs, answer, chosen>>
    /\ OthersSame

Result == job.ok \/ job.intent = "RESET"
Executed ==
    /\ job.phase = "execute" /\ job.steps = <<>>
    /\ LET i == job.intent
           to == Target(i, Result) IN
       IF PutOff(i)
       THEN /\ pendingJobs' = Append(pendingJobs, i) /\ job' = NoJob
            /\ UNCHANGED <<recState, answer>>
       ELSE IF to \in {"none", recState}
       THEN /\ Answers(i, Result) /\ GoesOn(to # "none" /\ to # "ERROR" /\ Result)
            /\ UNCHANGED recState
       ELSE /\ recState' = to
            /\ job' = [job EXCEPT !.phase = "enter", !.steps = EntrySteps(to, i), !.ok = Result]
            /\ UNCHANGED <<pendingJobs, answer>>
    /\ UNCHANGED <<seenState, recJobs, chosen>>
    /\ OthersSame

\* OnStateChanged: the state is announced even when entering it has failed.
Entered ==
    /\ job.phase = "enter" /\ job.steps = <<>>
    /\ seenState' = recState
    /\ Answers(job.intent, job.ok) /\ GoesOn(recState # "ERROR" /\ job.ok)
    /\ UNCHANGED <<recState, recJobs, chosen>>
    /\ OthersSame

-----------------------------------------------------------------------------
(* The steps of a job.                                                     *)

Performs(step) == job.phase \in {"execute", "enter"} /\ Step = step
Advances == job' = [job EXCEPT !.steps = Tail(@)]
Gives == job' = [job EXCEPT !.steps = IF "forget" \in ToSet(@) THEN <<"forget">> ELSE <<>>, !.ok = FALSE]
Mid == UNCHANGED <<recState, seenState, pendingJobs, client, sent, answer, recCalls, built, linked, chosen, frames>>

\* PipelineCore::OnEvent of n EVENT_READY.
AllFilters == 2 + 2 * Cardinality(built)
Readies(n, jobs) ==
    IF readyEvents < AllFilters /\ readyEvents + n >= AllFilters
    THEN /\ readyEvents' = readyEvents + n - AllFilters /\ pipe' = "READY"
         /\ recJobs' = Append(jobs, "NOTIFY_READY")
    ELSE readyEvents' = readyEvents + n /\ recJobs' = jobs /\ UNCHANGED pipe

PrepareFile ==
    /\ Performs("prepareFile")
    /\ pipe' = "PREPARING"
    /\ fst' = [f \in RecFilters |-> IF f \in {"sink", "muxer"} /\ fst[f] = "INITIALIZED"
                                    THEN "PREPARING" ELSE fst[f]]
    /\ IF fst["muxer"] = "INITIALIZED" THEN Advances ELSE Gives
    /\ UNCHANGED <<readyEvents, fileVars, acap, vcap, venc, sources, lost>> /\ Mid

\* The muxer is configured with the last of its ports; metaCache_ may hold older entries.
LastPort(meta) == Len(meta) >= Cardinality(linked)
Tracks(meta) == [i \in DOMAIN meta |-> [port |-> meta[i], eos |-> FALSE]]

\* Prepare of an encoder, and of the capture behind it, which negotiates and
\* configures the chain down to the sink.
PrepareChain(s) ==
    LET enc == Encoder(s)
        meta == Append(mux.meta, s)
        negotiable == s \in chosen \intersect linked /\ fst["muxer"] = "PREPARING" IN
    /\ Performs(IF s = "audio" THEN "prepareAudio" ELSE "prepareVideo")
    /\ \/ \* the encoder is in another state, or no plug-in fits
          /\ fst[enc] # "INITIALIZED" \/ ~negotiable \/ "prepare" \in RecFaults
          /\ fst' = IF fst[enc] = "INITIALIZED" THEN [fst EXCEPT ![enc] = "PREPARING"] ELSE fst
          /\ Gives
          /\ UNCHANGED <<mux, venc, pipe, readyEvents, recJobs>>
       \/ /\ fst[enc] = "INITIALIZED" /\ negotiable
          /\ venc' = IF s = "video" THEN [venc EXCEPT !.on = TRUE, !.queue = <<>>, !.made = TRUE] ELSE venc
          /\ mux' = [mux EXCEPT !.header = FALSE, !.meta = meta,
                                !.tracks = IF LastPort(meta) THEN @ \o Tracks(meta) ELSE @]
          /\ \/ /\ fst' = [f \in RecFilters |->
                             IF f = enc \/ (f \in {"sink", "muxer"} /\ LastPort(meta)) THEN "READY" ELSE fst[f]]
                /\ Readies(IF LastPort(meta) THEN 4 ELSE 2, recJobs)
                /\ Advances
             \/ \* the muxer's plug-in does not start
                /\ "prepare" \in RecFaults /\ LastPort(meta)
                /\ fst' = [fst EXCEPT !["sink"] = "READY", ![enc] = "PREPARING"]
                /\ Readies(1, Append(recJobs, "NOTIFY_ERROR"))
                /\ Gives
    /\ UNCHANGED <<acap, vcap, headers, sources, lost>> /\ Mid

StartFile ==
    /\ Performs("startFile")
    /\ pipe' = "RUNNING" /\ fst' = [fst EXCEPT !["sink"] = "RUNNING", !["muxer"] = "RUNNING"]
    /\ mux' = [mux EXCEPT !.eos = FALSE] /\ headers' = 0
    /\ Advances
    /\ UNCHANGED <<readyEvents, recJobs, acap, vcap, venc, sources, lost>> /\ Mid

\* The audio capture's Task starts after its plug-in, the video capture's before it.
StartChain(s) ==
    LET enc == Encoder(s) IN
    /\ Performs(IF s = "audio" THEN "startAudio" ELSE "startVideo")
    /\ IF fst[enc] \notin {"READY", "PAUSED"} THEN Gives /\ UNCHANGED <<fst, acap, vcap>>
       ELSE /\ fst' = [fst EXCEPT ![enc] = "RUNNING"]
            /\ \E started \in {TRUE} \union (IF "start" \in RecFaults THEN {FALSE} ELSE {}) :
                  /\ IF started THEN Advances ELSE Gives
                  /\ acap' = IF s = "audio" THEN [acap EXCEPT !.run = @ \/ started, !.eos = FALSE] ELSE acap
            /\ vcap' = IF s = "video" THEN [vcap EXCEPT !.run = TRUE] ELSE vcap
    /\ UNCHANGED <<pipe, readyEvents, fileVars, venc, sources, lost>> /\ Mid

\* FilterBase::Resume does nothing: the muxer and the encoders stay PAUSED, and go on.
ResumeChain(s) ==
    /\ Performs(IF s = "audio" THEN "resumeAudio" ELSE "resumeVideo")
    /\ acap' = IF s = "audio" THEN [acap EXCEPT !.run = TRUE] ELSE acap
    /\ vcap' = IF s = "video" THEN [vcap EXCEPT !.run = TRUE] ELSE vcap
    /\ Advances \/ ("start" \in RecFaults /\ Gives)
    /\ UNCHANGED <<recPipeVars, fileVars, venc, sources, lost>> /\ Mid

Resumed ==
    /\ Performs("resumed")
    /\ pipe' = "RUNNING" /\ Advances
    /\ UNCHANGED <<fst, readyEvents, fileVars, acap, vcap, venc, sources, lost>> /\ Mid

PauseFile ==
    /\ Performs("pauseFile")
    /\ IF pipe \in {"READY", "RUNNING"}
       THEN /\ pipe' = "PAUSED" /\ fst' = [fst EXCEPT !["sink"] = "PAUSED", !["muxer"] = "PAUSED"]
            /\ Advances
       ELSE /\ IF pipe = "PAUSED" THEN job' = [job EXCEPT !.steps = <<>>] ELSE Gives
            /\ UNCHANGED <<pipe, fst>>
    /\ UNCHANGED <<readyEvents, fileVars, acap, vcap, venc, sources, lost>> /\ Mid

\* The audio capture waits for its handler, the video capture does not.
PauseChain(s) ==
    /\ Performs(IF s = "audio" THEN "pauseAudio" ELSE "pauseVideo")
    /\ s = "audio" => acap.at = "idle"
    /\ fst' = [fst EXCEPT ![Encoder(s)] = "PAUSED"]
    /\ acap' = IF s = "audio" THEN [acap EXCEPT !.run = FALSE] ELSE acap
    /\ vcap' = IF s = "video" THEN [vcap EXCEPT !.run = FALSE] ELSE vcap
    /\ Advances
    /\ UNCHANGED <<pipe, readyEvents, fileVars, venc, sources, lost>> /\ Mid

StopFile ==
    /\ Performs("stopFile")
    /\ readyEvents' = 0 /\ pipe' = "INITIALIZED"
    /\ fst' = [fst EXCEPT !["sink"] = "INITIALIZED", !["muxer"] = "INITIALIZED"]
    /\ lost' = (lost \/ mux.header)
    /\ Advances
    /\ UNCHANGED <<fileVars, acap, vcap, venc, sources>> /\ Mid

StopEncoder ==
    /\ Performs("stopEncoder")
    /\ fst' = [fst EXCEPT !["aenc"] = "INITIALIZED"]
    /\ Advances
    /\ UNCHANGED <<pipe, readyEvents, fileVars, acap, vcap, venc, sources, lost>> /\ Mid

\* An encoder that never got a plug-in refuses, and the pipeline stops there.
StopVideo ==
    /\ Performs("stopVideo")
    /\ IF ~venc.made THEN Gives /\ UNCHANGED <<fst, venc>>
       ELSE /\ venc.at = "idle"
            /\ venc' = [venc EXCEPT !.on = FALSE, !.queue = <<>>]
            /\ fst' = [fst EXCEPT !["venc"] = "INITIALIZED"]
            /\ Advances
    /\ UNCHANGED <<pipe, readyEvents, fileVars, acap, vcap, sources, lost>> /\ Mid

\* Stop of a capture waits for the handler of its Task.
StopCapture ==
    /\ \/ /\ Performs("stopCapture") /\ acap.at = "idle"
          /\ acap' = [acap EXCEPT !.run = FALSE] /\ UNCHANGED vcap
       \/ /\ Performs("stopCamera") /\ vcap.at = "idle"
          /\ vcap' = [vcap EXCEPT !.run = FALSE] /\ UNCHANGED acap
    /\ Advances
    /\ UNCHANGED <<recPipeVars, fileVars, venc, sources, lost>> /\ Mid

\* AudioCaptureFilter::SendEos in the machine's thread.
EosAudio ==
    /\ Performs("eosAudio") /\ ~CaptureLocked
    /\ IF acap.eos \/ ~Works("aenc") THEN UNCHANGED fileVars ELSE MuxerPush("audio", "eos")
    /\ job' = [job EXCEPT !.steps = IF ~acap.eos /\ Works("aenc") /\ Checks THEN Tail(@) ELSE Tail(Tail(@))]
    /\ UNCHANGED <<recPipeVars, acap, vcap, venc, sources, lost>> /\ Mid

EosChecks ==
    /\ Performs("checkAudio")
    /\ MuxerChecks /\ Advances
    /\ UNCHANGED <<recPipeVars, acap, vcap, venc, sources, lost>> /\ Mid

EosSent ==
    /\ Performs("endAudio")
    /\ acap' = [acap EXCEPT !.eos = TRUE] /\ Advances
    /\ UNCHANGED <<recPipeVars, fileVars, vcap, venc, sources, lost>> /\ Mid

EosVideo ==
    /\ Performs("eosVideo") /\ (vcap.eos \/ EncoderTakes)
    /\ IF vcap.eos THEN UNCHANGED venc ELSE EncoderGets("eos")
    /\ vcap' = [vcap EXCEPT !.eos = TRUE] /\ Advances
    /\ UNCHANGED <<recPipeVars, fileVars, acap, sources, lost>> /\ Mid

EndFile ==
    /\ Performs("endFile")
    /\ MuxerSendEos /\ Advances
    /\ UNCHANGED <<recPipeVars, acap, vcap, venc, sources, lost>> /\ Mid

Forget ==
    /\ Performs("forget")
    /\ sources' = {} /\ Advances
    /\ UNCHANGED <<recPipeVars, fileVars, acap, vcap, venc, lost>> /\ Mid

RecNext ==
    \/ ReadAudio \/ PushAudio \/ CheckAudio \/ EndAudio
    \/ ReadVideo \/ PushVideo \/ FinishFrame \/ FinishCheck
    \/ \E c \in RecApi : RecCall(c)
    \/ SendEvent \/ Answered \/ SendTimesOut \/ StateReached
    \/ TakeJob \/ RunLate \/ Executed \/ Entered
    \/ PrepareFile \/ StartFile \/ Resumed \/ PauseFile \/ StopFile
    \/ \E s \in RecStreams : PrepareChain(s) \/ StartChain(s) \/ ResumeChain(s) \/ PauseChain(s)
    \/ StopEncoder \/ StopVideo \/ StopCapture
    \/ EosAudio \/ EosChecks \/ EosSent \/ EosVideo \/ EndFile \/ Forget

RecSpec == RecInit /\ [][RecNext]_recVars

-----------------------------------------------------------------------------
\* Nothing reaches the file after its trailer: whatever the capture threads and the
\* encoder still hold when the recording ends is dropped by the muxer, so that no
\* start of the pipeline gives two headers (MuxerFilter::PushData, SendEos).
RecordsOneFile == headers <= 1

\* A client that sleeps in Prepare, without a limit, has a READY or an error under way.
PrepareIsAnswered ==
    (client # <<>> /\ Head(client) = "ready?" /\ seenState = "RECORDING_SETTING")
        => job # NoJob \/ recJobs # <<>>

\* "avoid start then reset the file is not be saved" (hirecorder_impl.cpp): the file is
\* closed before the pipeline that writes it is stopped.
ResetSavesFile == ~lost

=============================================================================
