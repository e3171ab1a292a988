----------------------------- MODULE LitePlayer -----------------------------
(***************************************************************************)
(* HiPlayerImpl of the lite system: the state it shows, the volume, the    *)
(* duration, the loop and the positions a client asks for, over the        *)
(* StateMachine that executes the intents.                                 *)
(*                                                                         *)
(* A client's call is a job of the machine, as is what a thread of the     *)
(* pipeline posts; the machine's thread takes one job after another, and   *)
(* tells the player of a new state (OnStateChanged) only after Enter of    *)
(* that state is over.  SetVolume and SetLoop are no jobs: they change the *)
(* player from the client's thread.  The locks and the queue are those of  *)
(* module PlayerStateMachine.                                              *)
(***************************************************************************)
EXTENDS Integers, Sequences, FiniteSets

CONSTANTS LpMedia,      \* the media: [sinks, duration (0 when it has none), seekable]
          LpVolumes,    \* the volumes a client sets
          LpFaults,     \* what may fail: a subset of {"source", "start", "stop", "seek", "error"}
          MaxLpCalls,   \* calls of the client
          MaxLpErrors,  \* errors the pipeline posts
          MaxLpJobs     \* room the pipeline's threads find in jobs_

ASSUME LitePlayerAssumption ==
    /\ LpVolumes \subseteq Nat
    /\ LpFaults \subseteq {"source", "start", "stop", "seek", "error"}
    /\ MaxLpCalls \in Nat /\ MaxLpErrors \in Nat /\ MaxLpJobs \in Nat

VARIABLES
    lpFsm,          \* curState_ of the machine
    lpShown,        \* pipelineStates_
    lpAt,           \* the machine's thread: between jobs, or before OnStateChanged
    lpJobs,         \* jobs_
    lpPending,      \* a PLAY is in pendingJobs_
    lpCall,         \* the intent the client waits for
    lpVolume, lpSinkVolume, lpHalf, \* volume_, the sink's, and a call half done
    lpLoop,         \* singleLoop_
    lpMedium,       \* the medium of the source
    lpDuration,     \* duration_
    lpStreams,      \* what sourceMeta_ and streamMeta_ still know: the sinks of the medium prepared
    lpStats,        \* mediaStats_
    lpPipe,         \* state_ of the pipeline and of its filters: "half" when a Stop has not reached
                    \* the demuxer, "littered" when the filters to remove were left in filters_
    lpSync,         \* the MediaSyncManager
    lpEnded,        \* sinks whose stream is over (history)
    lpReplayed,     \* the medium has been begun again, or sought (history)
    lpHurt,         \* an operation has failed, an error was posted, or statistics in use were emptied (history)
    lpCalls, lpErrors

lpClientVars == <<lpCall, lpCalls>>
lpVolumeVars == <<lpVolume, lpSinkVolume, lpHalf>>
lpMediumVars == <<lpMedium, lpDuration, lpStreams>>
lpPlayVars == <<lpStats, lpPipe, lpSync, lpEnded, lpReplayed>>
lpVars == <<lpFsm, lpShown, lpAt, lpJobs, lpPending, lpClientVars, lpVolumeVars, lpLoop, lpMediumVars,
            lpPlayVars, lpHurt, lpErrors>>

LpFsmStates == {"IDLE", "INIT", "PREPARING", "READY", "PLAYING", "PAUSE", "STOPPED", "EOS"}
LpIntents == {"SET_SOURCE", "PREPARE", "PLAY", "RESUME", "PAUSE", "SEEK", "SEEK BEFORE", "STOP", "RESET"}
LpEvents == {"NOTIFY_READY", "NOTIFY_COMPLETE", "NOTIFY_ERROR"}
LpPrepared == {"READY", "PLAYING", "PAUSE", "EOS"}

\* TransStateId2PlayerState
ShownAs(s) ==
    CASE s = "IDLE" -> "idle" [] s = "INIT" -> "initialized" [] s = "PREPARING" -> "preparing"
      [] s = "READY" -> "prepared" [] s = "PLAYING" -> "started" [] s = "PAUSE" -> "paused"
      [] s = "STOPPED" -> "stopped" [] s = "EOS" -> "completed"

\* What a Stop that a filter refused leaves of the pipeline.
LpBroken == {"half", "littered"}
PipeMovesTo(s) == lpPipe' = IF lpPipe \in LpBroken THEN lpPipe ELSE s

LpNoMedium == [sinks |-> {}, duration |-> 0, seekable |-> FALSE]

LpTypeOK ==
    /\ lpFsm \in LpFsmStates /\ lpShown \in {ShownAs(s) : s \in LpFsmStates} \union {"error"}
    /\ lpAt \in {"pop", "told"}
    /\ lpJobs \in Seq(LpIntents \union LpEvents)
    /\ lpCall \in LpIntents \union {"none"}
    /\ lpPending \in BOOLEAN /\ lpHalf \in {"none", "volume", "reset"} /\ lpLoop \in BOOLEAN /\ lpHurt \in BOOLEAN
    /\ lpVolume \in LpVolumes \union {-1} /\ lpSinkVolume \in LpVolumes \union {-1}
    /\ lpMedium \in LpMedia \union {LpNoMedium}
    /\ lpStreams \subseteq UNION {m.sinks : m \in LpMedia}
    /\ lpPipe \in {"stopped", "preparing", "ready", "running", "paused"} \union LpBroken
    /\ lpSync \in {"reset", "running", "paused"}
    /\ lpCalls \in 0 .. MaxLpCalls /\ lpErrors \in 0 .. MaxLpErrors

LpInit ==
    /\ lpFsm = "IDLE" /\ lpShown = "idle" /\ lpAt = "pop" /\ lpJobs = <<>> /\ lpPending = FALSE
    /\ lpCall = "none"
    /\ lpVolume = -1 /\ lpSinkVolume = -1 /\ lpHalf = "none"
    /\ lpLoop = FALSE
    /\ lpMedium = LpNoMedium /\ lpDuration = -1 /\ lpStreams = {}
    /\ lpStats = <<>> /\ lpPipe = "stopped" /\ lpSync = "reset"
    /\ lpEnded = {} /\ lpReplayed = FALSE /\ lpHurt = FALSE
    /\ lpCalls = 0 /\ lpErrors = 0

-----------------------------------------------------------------------------
(* The operations of the player the machine executes (PlayExecutor).  Each *)
(* says whether it succeeds; a failure shows the state ERROR.              *)

Errs(ok) ==
    /\ lpShown' = IF ok THEN lpShown ELSE "error"
    /\ lpHurt' = (lpHurt \/ ~ok)

\* PipelineCore::Prepare refuses filters that are not INITIALIZED.
PreparesFilters(ok) ==
    /\ ok = (lpPipe = "stopped")
    /\ lpPipe' = IF ok THEN "preparing" ELSE lpPipe
    /\ lpEnded' = {} /\ lpReplayed' = FALSE
    /\ Errs(ok)
    /\ UNCHANGED <<lpSync, lpStats, lpMediumVars, lpVolumeVars>>

\* DoPlay and DoResume: the clock runs whether the filters do or not.
LitePlays(ok) ==
    /\ ok => lpPipe \in {"ready", "paused"}
    /\ ok \/ "start" \in LpFaults \/ lpPipe \notin {"ready", "paused"}
    /\ lpSync' = "running"
    /\ PipeMovesTo("running")
    /\ Errs(ok)
    /\ UNCHANGED <<lpStats, lpEnded, lpReplayed, lpMediumVars, lpVolumeVars>>

LitePauses(ok) ==
    /\ ok = (lpPipe \in {"ready", "running", "paused"} \union LpBroken)
    /\ IF ok THEN PipeMovesTo("paused") ELSE lpPipe' = lpPipe
    /\ lpSync' = "paused"
    /\ Errs(ok)
    /\ UNCHANGED <<lpStats, lpEnded, lpReplayed, lpMediumVars, lpVolumeVars>>

\* DoStop, DoReset: the sinks first, the source last, and nobody after the first filter that
\* refuses; the statistics and the clock are reset whoever refuses.  A sink or a decoder that
\* refuses keeps the demuxer from forgetting what the streams were, and filters that play
\* playing.  When only the source does, the filters to remove are left in filters_, for no
\* Stop to come asks for their removal again.
LiteStops(reached) ==
    /\ reached \in {"all", "demuxer", "none"}
    /\ reached # "all" => "stop" \in LpFaults
    /\ reached = "none" => lpPipe \notin {"stopped", "preparing"}
    /\ lpStats' = <<>> /\ lpSync' = "reset"
    /\ lpPipe' = CASE lpPipe = "littered" -> "littered"
                   [] reached = "none" -> "half"
                   [] reached = "demuxer" /\ lpPipe \notin {"stopped", "preparing"} -> "littered"
                   [] OTHER -> "stopped"
    /\ lpStreams' = IF reached = "none" THEN lpStreams ELSE {}
    /\ lpShown' = IF reached = "all" THEN lpShown ELSE "error"
    /\ lpHurt' = (reached # "all" \/ lpPipe = "littered")
    /\ UNCHANGED <<lpEnded, lpReplayed, lpMedium, lpDuration, lpVolumeVars>>

\* DoSeek: flushed on both sides of the demuxer's seek; a time before the beginning is only
\* refused.  The statistics of the sinks stay as they are.
LiteSeeks(ok) ==
    /\ lpEnded' = IF ok THEN {} ELSE lpEnded
    /\ lpReplayed' = TRUE
    /\ UNCHANGED <<lpShown, lpHurt, lpStats, lpPipe, lpSync, lpMediumVars, lpVolumeVars>>

\* DoOnReady: a volume set before is given to the sink; a medium that does not tell its
\* duration leaves the duration as it was.
GivenVolume == IF lpVolume > 0 THEN lpVolume ELSE lpSinkVolume
LiteReady ==
    /\ lpSinkVolume' = GivenVolume
    /\ lpDuration' = IF lpMedium.duration > 0 THEN lpMedium.duration ELSE lpDuration
    /\ lpStreams' = lpMedium.sinks
    /\ UNCHANGED <<lpShown, lpHurt, lpVolume, lpHalf, lpMedium, lpPlayVars>>

NothingDone == UNCHANGED <<lpShown, lpHurt, lpPlayVars, lpMediumVars, lpVolumeVars>>

-----------------------------------------------------------------------------
(* The machine's thread.                                                   *)

HeadJob == lpJobs[1]
TakesJob(intents) == lpAt = "pop" /\ lpJobs # <<>> /\ HeadJob \in intents /\ lpJobs' = Tail(lpJobs)

\* The client whose intent was executed goes on; Prepare waits for another state.
AnswersTo(intent) == lpCall' = IF lpCall = intent /\ intent # "PREPARE" THEN "none" ELSE lpCall

\* TransitionTo: Enter has been executed, OnStateChanged is still to come; a transition to
\* the state the machine is in does nothing.
LpEnters(s) ==
    /\ lpFsm' = s
    /\ lpAt' = IF s = lpFsm THEN "pop" ELSE "told"
    /\ UNCHANGED <<lpPending, lpLoop, lpErrors, lpCalls>>
StaysIn == UNCHANGED <<lpFsm, lpAt, lpPending, lpLoop, lpErrors, lpCalls>>

HandlesSource(medium, ok) ==
    /\ TakesJob({"SET_SOURCE"}) /\ lpFsm \in {"IDLE", "INIT"}
    /\ ~ok => "source" \in LpFaults
    /\ lpMedium' = IF ok THEN medium ELSE LpNoMedium
    /\ Errs(ok)
    /\ IF ok THEN LpEnters("INIT") ELSE StaysIn
    /\ AnswersTo("SET_SOURCE")
    /\ UNCHANGED <<lpDuration, lpStreams, lpPlayVars, lpVolumeVars>>

\* A Prepare that fails stays PREPARING: the way back to INIT is only taken on success.
HandlesPrepare ==
    /\ TakesJob({"PREPARE"}) /\ lpFsm = "INIT"
    /\ \E ok \in BOOLEAN : PreparesFilters(ok) /\ lpCall' = IF ok THEN lpCall ELSE "none"
    /\ LpEnters("PREPARING")

HandlesPlay ==
    /\ TakesJob({"PLAY", "RESUME"})
    /\ lpFsm \in {"READY", "PAUSE"} /\ (HeadJob = "RESUME" => lpFsm = "PAUSE")
    /\ \E ok \in BOOLEAN : LitePlays(ok)
    /\ LpEnters("PLAYING") /\ AnswersTo(HeadJob)

\* At the end the player first goes back to the beginning, and then plays.
ReplaysFromEos(ok, started) ==
    /\ TakesJob({"PLAY"}) /\ lpFsm = "EOS"
    /\ IF ok
       THEN /\ started => lpPipe = "paused"
            /\ started \/ "start" \in LpFaults \/ lpPipe # "paused"
            /\ lpSync' = "running" /\ PipeMovesTo("running") /\ lpEnded' = {} /\ lpReplayed' = TRUE
            /\ Errs(started)
            /\ UNCHANGED <<lpStats, lpMediumVars, lpVolumeVars>>
            /\ LpEnters("PLAYING")
       ELSE "seek" \in LpFaults /\ ~started /\ LiteSeeks(FALSE) /\ StaysIn
    /\ AnswersTo("PLAY")

HandlesPause ==
    /\ TakesJob({"PAUSE"}) /\ lpFsm = "PLAYING"
    /\ \E ok \in BOOLEAN : LitePauses(ok)
    /\ LpEnters("PAUSE") /\ AnswersTo("PAUSE")

HandlesStop ==
    /\ TakesJob({"STOP", "RESET"}) /\ (HeadJob = "STOP" => lpFsm \notin {"IDLE", "STOPPED"})
    /\ LET to == IF HeadJob = "STOP" THEN "STOPPED" ELSE "IDLE"
       IN LpEnters(to) /\ IF to = lpFsm THEN NothingDone ELSE \E reached \in {"all", "demuxer", "none"} : LiteStops(reached)
    /\ AnswersTo(HeadJob)

\* The client is told of success before the seek is done.
HandlesSeek(ok) ==
    /\ TakesJob({"SEEK", "SEEK BEFORE"}) /\ lpFsm \in {"READY", "PLAYING", "PAUSE"}
    /\ ok => HeadJob = "SEEK"
    /\ ok \/ HeadJob = "SEEK BEFORE" \/ "seek" \in LpFaults
    /\ LiteSeeks(ok)
    /\ StaysIn /\ AnswersTo(HeadJob)

\* PreparingState::Play
PostponesPlay ==
    /\ TakesJob({"PLAY"}) /\ lpFsm = "PREPARING"
    /\ lpPending' = TRUE
    /\ NothingDone
    /\ UNCHANGED <<lpFsm, lpAt, lpLoop, lpErrors, lpCalls, lpCall>>

HandlesReady ==
    /\ TakesJob({"NOTIFY_READY"}) /\ lpFsm = "PREPARING"
    /\ LiteReady
    /\ LpEnters("READY") /\ UNCHANGED lpCall

\* PlayingState::OnComplete: again from the beginning, or the end.
HandlesComplete(ok) ==
    /\ TakesJob({"NOTIFY_COMPLETE"}) /\ lpFsm = "PLAYING"
    /\ IF lpLoop
       THEN (~ok => "seek" \in LpFaults) /\ LiteSeeks(ok) /\ StaysIn
       ELSE LitePauses(ok) /\ LpEnters("EOS")
    /\ UNCHANGED lpCall

\* DoOnError, then INIT from any state: nothing stops the pipeline.
HandlesError ==
    /\ TakesJob({"NOTIFY_ERROR"})
    /\ Errs(FALSE)
    /\ LpEnters("INIT")
    /\ UNCHANGED <<lpCall, lpPlayVars, lpMediumVars, lpVolumeVars>>

Handled(s) ==
    {"NOTIFY_ERROR", "RESET"}
    \union (IF s \in {"IDLE", "INIT"} THEN {"SET_SOURCE"} ELSE {})
    \union (IF s = "INIT" THEN {"PREPARE"} ELSE {})
    \union (IF s = "PREPARING" THEN {"NOTIFY_READY"} ELSE {})
    \union (IF s \in {"READY", "PAUSE", "EOS", "PREPARING"} THEN {"PLAY"} ELSE {})
    \union (IF s = "PAUSE" THEN {"RESUME"} ELSE {})
    \union (IF s = "PLAYING" THEN {"PAUSE", "NOTIFY_COMPLETE"} ELSE {})
    \union (IF s \in {"READY", "PLAYING", "PAUSE"} THEN {"SEEK", "SEEK BEFORE"} ELSE {})
    \union (IF s \notin {"IDLE", "STOPPED"} THEN {"STOP"} ELSE {})

\* Refused, or nothing to do.
RefusesJob ==
    /\ TakesJob((LpIntents \union LpEvents) \ Handled(lpFsm))
    /\ NothingDone /\ StaysIn
    /\ lpCall' = IF lpCall = HeadJob THEN "none" ELSE lpCall

\* OnStateChanged: UpdateStateNoLock, and the client that waits in Prepare looks again.
TellsState ==
    /\ lpAt = "told"
    /\ lpShown' = ShownAs(lpFsm)
    /\ lpAt' = "pop"
    /\ lpCall' = IF lpCall = "PREPARE" /\ lpFsm # "PREPARING" THEN "none" ELSE lpCall
    \* a transition is followed by the job that was postponed
    /\ lpJobs' = IF lpPending THEN <<"PLAY">> \o lpJobs ELSE lpJobs
    /\ lpPending' = FALSE
    /\ UNCHANGED <<lpFsm, lpLoop, lpErrors, lpCalls, lpVolumeVars, lpMediumVars, lpPlayVars, lpHurt>>

-----------------------------------------------------------------------------
(* The client.                                                             *)

LpCalls1 == lpCall = "none" /\ lpHalf = "none" /\ lpCalls < MaxLpCalls /\ lpCalls' = lpCalls + 1
LpSends(intent) ==
    /\ lpCall' = intent /\ lpJobs' = Append(lpJobs, intent)
    /\ UNCHANGED <<lpFsm, lpShown, lpAt, lpPending, lpVolumeVars, lpLoop, lpMediumVars, lpPlayVars, lpHurt, lpErrors>>

ClientPrepares == LpCalls1 /\ LpSends("PREPARE")
ClientHalts(intent) == LpCalls1 /\ LpSends(intent)

\* MediaStatStub::Reset: from the client's thread, whatever the player does.
ForgetsStats ==
    /\ lpStats' = <<>>
    /\ lpHurt' = (lpHurt \/ lpStats # <<>>)

\* SetSource: Init forgets the statistics in any state.
ClientSetsSource ==
    /\ LpCalls1
    /\ ForgetsStats
    /\ lpCall' = "SET_SOURCE" /\ lpJobs' = Append(lpJobs, "SET_SOURCE")
    /\ UNCHANGED <<lpFsm, lpShown, lpAt, lpPending, lpVolumeVars, lpLoop, lpMediumVars, lpPipe, lpSync, lpEnded,
                   lpReplayed, lpErrors>>

\* Reset: no loop and no statistics at once, then the job.
ClientResets ==
    /\ LpCalls1
    /\ lpHalf' = "reset" /\ lpLoop' = FALSE
    /\ ForgetsStats
    /\ UNCHANGED <<lpFsm, lpShown, lpAt, lpJobs, lpPending, lpCall, lpVolume, lpSinkVolume, lpMediumVars, lpPipe, lpSync,
                   lpEnded, lpReplayed, lpErrors>>
SendsReset ==
    /\ lpHalf = "reset" /\ lpHalf' = "none"
    /\ lpCall' = "RESET" /\ lpJobs' = Append(lpJobs, "RESET")
    /\ UNCHANGED <<lpFsm, lpShown, lpAt, lpPending, lpCalls, lpVolume, lpSinkVolume, lpLoop, lpMediumVars, lpPlayVars,
                   lpHurt, lpErrors>>

\* Play asks the state it shows whether to resume.
ClientPlays == LpCalls1 /\ LpSends(IF lpShown = "paused" THEN "RESUME" ELSE "PLAY")

\* GetDuration: the duration known, in the states that have one.
DurationKnown == lpShown \notin {"idle", "preparing"} /\ lpDuration >= 0

\* Rewind: not without a duration, nor in a medium that cannot seek.
ClientRewinds(to) ==
    /\ DurationKnown /\ lpMedium.seekable
    /\ LpCalls1 /\ LpSends(to)

ClientLoops(b) ==
    /\ LpCalls1 /\ lpLoop # b
    /\ lpLoop' = b
    /\ UNCHANGED <<lpFsm, lpShown, lpAt, lpJobs, lpPending, lpCall, lpVolumeVars, lpMediumVars, lpPlayVars, lpHurt, lpErrors>>

\* SetVolume, not of a stopped player: volume_, and then a look at the state.
ClientSetsVolume(v) ==
    /\ LpCalls1 /\ lpShown # "stopped"
    /\ lpVolume' = v /\ lpHalf' = "volume"
    /\ UNCHANGED <<lpFsm, lpShown, lpAt, lpJobs, lpPending, lpCall, lpSinkVolume, lpLoop, lpMediumVars, lpPlayVars,
                   lpHurt, lpErrors>>

\* SetVolumeToSink, unless the volume is to be set when the player is ready; the volume 0
\* is given to nobody.
GivesVolume ==
    /\ lpHalf = "volume" /\ lpHalf' = "none"
    /\ lpSinkVolume' = IF lpShown \in {"idle", "initialized", "preparing"} THEN lpSinkVolume ELSE GivenVolume
    /\ UNCHANGED <<lpFsm, lpShown, lpAt, lpJobs, lpPending, lpClientVars, lpVolume, lpLoop, lpMediumVars, lpPlayVars,
                   lpHurt, lpErrors>>

\* Thirty seconds have passed: the job stays where it is.
LpTimesOut ==
    /\ lpPending /\ lpCall = "PLAY" /\ lpJobs = <<>>
    /\ lpCall' = "none"
    /\ UNCHANGED <<lpFsm, lpShown, lpAt, lpJobs, lpPending, lpCalls, lpVolumeVars, lpLoop, lpMediumVars, lpPlayVars,
                   lpHurt, lpErrors>>

-----------------------------------------------------------------------------
(* The threads of the pipeline (OnEvent).                                  *)

LpPosts(event) ==
    /\ Len(lpJobs) < MaxLpJobs
    /\ lpJobs' = Append(lpJobs, event)
    /\ UNCHANGED <<lpFsm, lpShown, lpAt, lpPending, lpClientVars, lpVolumeVars, lpLoop, lpMediumVars, lpSync,
                   lpReplayed, lpHurt>>

\* The streams were found: their sinks are in the statistics.
PipelineReady ==
    /\ lpPipe = "preparing" /\ lpPipe' = "ready"
    /\ lpStats' = [s \in lpMedium.sinks |-> FALSE]
    /\ LpPosts("NOTIFY_READY")
    /\ UNCHANGED <<lpEnded, lpErrors>>

\* A stream is over: ReceiveEvent, and the end when every sink in the statistics has told of
\* its own.
SinkCompletes(s) ==
    /\ lpPipe \in {"running", "half"} /\ s \notin lpEnded
    /\ lpEnded' = lpEnded \union {s}
    /\ lpStats' = [t \in DOMAIN lpStats |-> lpStats[t] \/ t = s]
    /\ IF \A t \in DOMAIN lpStats : lpStats[t] \/ t = s
       THEN LpPosts("NOTIFY_COMPLETE")
       ELSE UNCHANGED <<lpFsm, lpShown, lpAt, lpJobs, lpPending, lpClientVars, lpVolumeVars, lpLoop, lpMediumVars,
                        lpSync, lpReplayed, lpHurt>>
    /\ UNCHANGED <<lpPipe, lpErrors>>

PipelineErrs ==
    /\ "error" \in LpFaults /\ lpErrors < MaxLpErrors /\ lpPipe # "stopped"
    /\ lpErrors' = lpErrors + 1
    /\ LpPosts("NOTIFY_ERROR")
    /\ UNCHANGED <<lpEnded, lpStats, lpPipe>>

LpNext ==
    \/ \E m \in LpMedia : \E ok \in BOOLEAN : HandlesSource(m, ok)
    \/ HandlesPrepare \/ HandlesPlay \/ HandlesPause \/ HandlesStop
    \/ \E ok, started \in BOOLEAN : ReplaysFromEos(ok, started)
    \/ \E ok \in BOOLEAN : HandlesSeek(ok) \/ HandlesComplete(ok)
    \/ PostponesPlay \/ HandlesReady \/ HandlesError \/ RefusesJob \/ TellsState
    \/ ClientSetsSource \/ ClientPrepares \/ ClientPlays \/ ClientResets \/ SendsReset
    \/ \E intent \in {"PAUSE", "STOP"} : ClientHalts(intent)
    \/ \E to \in {"SEEK", "SEEK BEFORE"} : ClientRewinds(to)
    \/ \E b \in BOOLEAN : ClientLoops(b)
    \/ \E v \in LpVolumes : ClientSetsVolume(v)
    \/ GivesVolume \/ LpTimesOut
    \/ PipelineReady \/ PipelineErrs
    \/ \E s \in lpMedium.sinks : SinkCompletes(s)

LpSpec == LpInit /\ [][LpNext]_lpVars

-----------------------------------------------------------------------------
\* Between two jobs the player shows the machine's state, or that something failed.  A
\* stopped player has reset its statistics and its clock, whichever filter refused to stop;
\* and nothing is left of its medium unless a sink or a decoder has refused.  While nothing
\* has failed: the clock runs exactly while the player plays; a player that has been
\* prepared knows the streams and the duration of the medium its source is; and the end of
\* a medium played from its beginning comes when every stream is over
\* (HiPlayerImpl::OnStateChanged, DoOnReady, DoStop, OnEvent, PlayingState).
LiteFollows ==
    /\ lpAt = "pop" => lpShown \in {"error", ShownAs(lpFsm)}
    /\ lpFsm \in {"IDLE", "STOPPED"} =>
           /\ lpPipe \in {"stopped"} \union LpBroken /\ lpSync = "reset" /\ lpStats = <<>>
           /\ lpPipe # "half" => lpStreams = {}
    /\ ~lpHurt =>
           /\ (lpSync = "running") <=> (lpFsm = "PLAYING")
           /\ lpFsm \in LpPrepared =>
                  /\ lpStreams = lpMedium.sinks /\ DOMAIN lpStats = lpStreams
                  /\ lpMedium.duration > 0 => lpDuration = lpMedium.duration
           /\ lpFsm = "EOS" /\ ~lpReplayed => lpEnded = lpMedium.sinks

\* The sink plays at the volume that was set (HiPlayerImpl::SetVolume, SetVolumeToSink).
LiteVolumeIsHeard ==
    lpFsm \in LpPrepared /\ lpAt = "pop" /\ lpHalf = "none" /\ lpVolume >= 0 => lpSinkVolume = lpVolume

\* The duration told is that of the medium (HiPlayerImpl::DoOnReady).
DurationIsOfTheMedium == lpFsm \in LpPrepared /\ lpMedium.duration = 0 => lpDuration = -1

\* The end comes when every stream is over, in a replay too (MediaStatStub).
EosIsWhole == lpFsm = "EOS" /\ ~lpHurt => lpEnded = lpMedium.sinks

\* A player that was told of an error shows it until it is reset (HiPlayerImpl::DoOnError).
ErrorIsShown == lpFsm = "INIT" /\ lpHurt /\ lpAt = "pop" => lpShown = "error"

\* A player that was stopped can be prepared again (PipelineCore::Stop).
StopsForGood == lpFsm \in {"IDLE", "STOPPED"} => lpPipe = "stopped"

\* A medium whose streams are over does not play on (PauseState).
EndedIsOver ==
    lpFsm = "PLAYING" /\ ~lpHurt /\ lpAt = "pop" /\ lpJobs = <<>> /\ lpStreams # {} => lpEnded # lpStreams

\* With a medium taken by the source the player does not show an error (InitState).
SourceIsShown == lpFsm = "INIT" /\ lpAt = "pop" /\ lpPipe = "stopped" /\ lpMedium # LpNoMedium => lpShown = "initialized"

=============================================================================
