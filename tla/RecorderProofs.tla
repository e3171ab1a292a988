--------------------------- MODULE RecorderProofs ---------------------------
(***************************************************************************)
(* Proofs about Recorder, for any sources, calls, faults and bounds: every  *)
(* start of the pipeline gives the file one header.                        *)
(***************************************************************************)
EXTENDS Recorder, SequenceTheorems, FiniteSetTheorems, TLAPS

-----------------------------------------------------------------------------
(* What is in a sequence, and in what order.                               *)

In(s, x) == \E i \in DOMAIN s : s[i] = x
Precedes(s, x, y) == \E i, j \in DOMAIN s : i < j /\ s[i] = x /\ s[j] = y
Follows(s, x, y) == \A i \in DOMAIN s : s[i] = x => i + 1 \in DOMAIN s /\ s[i + 1] = y

\* The first element precedes the others, and what is left without it is in the same order.
LEMMA TailIn ==
    ASSUME NEW S, NEW s \in Seq(S), s # <<>>, NEW x
    PROVE  /\ In(Tail(s), x) => In(s, x)
           /\ In(s, x) => x = Head(s) \/ In(Tail(s), x)
           /\ In(s, Head(s))
<1> DEFINE t == Tail(s)
<1>1. /\ t \in Seq(S) /\ Len(t) = Len(s) - 1 /\ Len(s) \in Nat \ {0}
      /\ \A i \in 1 .. Len(t) : t[i] = s[i + 1]
  BY HeadTailProperties, EmptySeq
<1>2. Head(s) = s[1] /\ DOMAIN s = 1 .. Len(s) /\ DOMAIN t = 1 .. Len(t)
  BY <1>1, LenProperties
<1> HIDE DEF t
<1>3. ASSUME In(t, x) PROVE In(s, x)
  BY <1>1, <1>2, <1>3 DEF In
<1>4. ASSUME In(s, x) PROVE x = Head(s) \/ In(t, x)
  <2>1. PICK i \in 1 .. Len(s) : s[i] = x
    BY <1>2, <1>4 DEF In
  <2>2. CASE i = 1
    BY <1>2, <2>1, <2>2
  <2>3. CASE i # 1
    <3>1. i - 1 \in 1 .. Len(t) /\ t[i - 1] = s[i]
      BY <1>1, <2>1, <2>3
    <3> QED BY <1>2, <2>1, <3>1 DEF In
  <2> QED BY <2>2, <2>3
<1>5. In(s, Head(s))
  BY <1>1, <1>2 DEF In
<1> QED BY <1>3, <1>4, <1>5 DEF t

LEMMA TailOrder ==
    ASSUME NEW S, NEW s \in Seq(S), s # <<>>, NEW x, NEW y
    PROVE  /\ Precedes(Tail(s), x, y) => Precedes(s, x, y)
           /\ Follows(s, x, y) => Follows(Tail(s), x, y)
           /\ In(Tail(s), y) => Precedes(s, Head(s), y)
<1> DEFINE t == Tail(s)
<1>1. /\ t \in Seq(S) /\ Len(t) = Len(s) - 1 /\ Len(s) \in Nat \ {0}
      /\ \A i \in 1 .. Len(t) : t[i] = s[i + 1]
  BY HeadTailProperties, EmptySeq
<1>2. Head(s) = s[1] /\ DOMAIN s = 1 .. Len(s) /\ DOMAIN t = 1 .. Len(t)
  BY <1>1, LenProperties
<1> HIDE DEF t
<1>3. ASSUME Precedes(t, x, y) PROVE Precedes(s, x, y)
  <2>1. PICK i \in 1 .. Len(t), j \in 1 .. Len(t) : i < j /\ t[i] = x /\ t[j] = y
    BY <1>2, <1>3 DEF Precedes
  <2>2. /\ i + 1 \in 1 .. Len(s) /\ j + 1 \in 1 .. Len(s) /\ i + 1 < j + 1
        /\ s[i + 1] = x /\ s[j + 1] = y
    BY <1>1, <2>1
  <2> QED BY <1>2, <2>2 DEF Precedes
<1>4. ASSUME Follows(s, x, y) PROVE Follows(t, x, y)
  <2> SUFFICES ASSUME NEW i \in 1 .. Len(t), t[i] = x
               PROVE  i + 1 \in 1 .. Len(t) /\ t[i + 1] = y
    BY <1>2 DEF Follows
  <2>1. i + 1 \in 1 .. Len(s) /\ s[i + 1] = x
    BY <1>1
  <2>2. (i + 1) + 1 \in 1 .. Len(s) /\ s[(i + 1) + 1] = y
    BY <1>2, <1>4, <2>1 DEF Follows
  <2> QED BY <1>1, <2>2
<1>5. ASSUME In(t, y) PROVE Precedes(s, Head(s), y)
  <2>1. PICK j \in 1 .. Len(t) : t[j] = y
    BY <1>2, <1>5 DEF In
  <2>2. j + 1 \in 1 .. Len(s) /\ 1 \in 1 .. Len(s) /\ 1 < j + 1 /\ s[j + 1] = y
    BY <1>1, <2>1
  <2> QED BY <1>2, <2>2 DEF Precedes
<1> QED BY <1>3, <1>4, <1>5 DEF t

LEMMA ConcatIn ==
    ASSUME NEW S, NEW s \in Seq(S), NEW t \in Seq(S), NEW x, NEW y
    PROVE  /\ s \o t \in Seq(S)
           /\ In(s \o t, x) <=> In(s, x) \/ In(t, x)
           /\ Precedes(s \o t, x, y) => Precedes(s, x, y) \/ Precedes(t, x, y) \/ (In(s, x) /\ In(t, y))
           /\ Follows(s, x, y) /\ Follows(t, x, y) => Follows(s \o t, x, y)
<1> DEFINE u == s \o t
           n == Len(s)
           m == Len(t)
<1>1. /\ u \in Seq(S) /\ Len(u) = n + m /\ n \in Nat /\ m \in Nat
      /\ \A i \in 1 .. n + m : u[i] = IF i <= n THEN s[i] ELSE t[i - n]
  BY ConcatProperties, LenProperties
<1>2. DOMAIN s = 1 .. n /\ DOMAIN t = 1 .. m /\ DOMAIN u = 1 .. n + m
  BY <1>1, LenProperties
<1> HIDE DEF u, n, m
<1>3. \A i \in 1 .. n : i \in 1 .. n + m /\ u[i] = s[i]
  BY <1>1
<1>4. \A i \in 1 .. m : i + n \in 1 .. n + m /\ u[i + n] = t[i]
  BY <1>1
<1>5. \A i \in 1 .. n + m : (i \in 1 .. n /\ u[i] = s[i]) \/ (i - n \in 1 .. m /\ u[i] = t[i - n])
  BY <1>1
<1>6. In(u, x) <=> In(s, x) \/ In(t, x)
  <2>1. ASSUME In(u, x) PROVE In(s, x) \/ In(t, x)
    BY <1>2, <1>5, <2>1 DEF In
  <2>2. ASSUME In(s, x) PROVE In(u, x)
    BY <1>2, <1>3, <2>2 DEF In
  <2>3. ASSUME In(t, x) PROVE In(u, x)
    BY <1>2, <1>4, <2>3 DEF In
  <2> QED BY <2>1, <2>2, <2>3
<1>7. ASSUME Precedes(u, x, y) PROVE Precedes(s, x, y) \/ Precedes(t, x, y) \/ (In(s, x) /\ In(t, y))
  <2>1. PICK i \in 1 .. n + m, j \in 1 .. n + m : i < j /\ u[i] = x /\ u[j] = y
    BY <1>2, <1>7 DEF Precedes
  <2>2. CASE i \in 1 .. n /\ u[i] = s[i] /\ j \in 1 .. n /\ u[j] = s[j]
    BY <1>2, <2>1, <2>2 DEF Precedes
  <2>3. CASE i \in 1 .. n /\ u[i] = s[i] /\ j - n \in 1 .. m /\ u[j] = t[j - n]
    BY <1>2, <2>1, <2>3 DEF In
  <2>4. CASE i - n \in 1 .. m /\ u[i] = t[i - n] /\ j - n \in 1 .. m /\ u[j] = t[j - n]
    <3>1. i - n < j - n
      BY <1>1, <2>1
    <3> QED BY <1>2, <2>1, <2>4, <3>1 DEF Precedes
  <2>5. CASE i - n \in 1 .. m /\ j \in 1 .. n
    BY <1>1, <2>1, <2>5
  <2> QED BY <1>5, <2>1, <2>2, <2>3, <2>4, <2>5
<1>8. ASSUME Follows(s, x, y), Follows(t, x, y) PROVE Follows(u, x, y)
  <2> SUFFICES ASSUME NEW i \in 1 .. n + m, u[i] = x
               PROVE  i + 1 \in 1 .. n + m /\ u[i + 1] = y
    BY <1>2 DEF Follows
  <2>1. CASE i \in 1 .. n /\ u[i] = s[i]
    <3>1. i + 1 \in 1 .. n /\ s[i + 1] = y
      BY <1>2, <1>8, <2>1 DEF Follows
    <3> QED BY <1>3, <3>1
  <2>2. CASE i - n \in 1 .. m /\ u[i] = t[i - n]
    <3>1. (i - n) + 1 \in 1 .. m /\ t[(i - n) + 1] = y
      BY <1>2, <1>8, <2>2 DEF Follows
    <3>2. ((i - n) + 1) + n = i + 1
      BY <1>1
    <3> QED BY <1>4, <3>1, <3>2
  <2> QED BY <1>5, <2>1, <2>2
<1> QED BY <1>1, <1>6, <1>7, <1>8 DEF u

LEMMA AppendIn ==
    ASSUME NEW S, NEW s \in Seq(S), NEW e \in S, NEW x, NEW y
    PROVE  /\ Append(s, e) \in Seq(S) /\ Append(s, e) # <<>>
           /\ In(Append(s, e), x) <=> In(s, x) \/ x = e
           /\ Precedes(Append(s, e), x, y) => Precedes(s, x, y) \/ (In(s, x) /\ y = e)
<1>1. Append(s, e) = s \o <<e>> /\ <<e>> \in Seq(S) /\ Append(s, e) \in Seq(S) /\ Append(s, e) # <<>>
  BY AppendProperties, AppendIsConcat
<1>2. In(<<e>>, x) <=> x = e
  BY DEF In
<1>3. In(<<e>>, y) <=> y = e
  BY DEF In
<1>4. ~Precedes(<<e>>, x, y)
  BY DEF Precedes
<1>5. /\ In(s \o <<e>>, x) <=> In(s, x) \/ In(<<e>>, x)
      /\ Precedes(s \o <<e>>, x, y) => Precedes(s, x, y) \/ Precedes(<<e>>, x, y) \/ (In(s, x) /\ In(<<e>>, y))
  BY <1>1, ConcatIn
<1> QED BY <1>1, <1>2, <1>3, <1>4, <1>5
-----------------------------------------------------------------------------
(* The inductive invariant.                                                *)

\* The calls of the client that are never put off, as jobs.
ClientJobs == Intents \ {"START", "NOTIFY_READY", "NOTIFY_COMPLETE", "NOTIFY_ERROR"}
ClientSteps == ClientJobs \cup {"START", "ready?", "init?"}

PrepareKinds == {"prepareFile", "prepareAudio", "prepareVideo"}
DrainKinds == {"eosAudio", "checkAudio", "endAudio", "eosVideo"}
CleanKinds == {"stopFile", "stopEncoder", "stopCapture", "stopVideo"}
StartKinds == {"startFile", "startAudio", "startVideo", "resumeAudio", "resumeVideo", "resumed"}
PauseKinds == {"pauseFile", "pauseAudio", "pauseVideo"}
AudioKinds == {"prepareAudio", "eosAudio", "startAudio", "resumeAudio"}
VideoKinds == {"prepareVideo", "stopVideo", "startVideo", "resumeVideo"}
StepKinds == PrepareKinds \cup DrainKinds \cup CleanKinds \cup StartKinds \cup PauseKinds
             \cup {"stopCamera", "endFile", "forget"}

Jobs == [phase : {"none", "execute", "enter", "late"}, intent : Intents, steps : Seq(StepKinds),
         ok : BOOLEAN, late : BOOLEAN]
CaptureStates == [run : BOOLEAN, at : {"idle", "frame", "eos", "last", "check", "done"}, eos : BOOLEAN]
EncoderStates == [on : BOOLEAN, queue : Seq({"frame", "eos"}), at : {"idle", "check"}, made : BOOLEAN]

MachineTypes ==
    /\ recState \in RecStates /\ seenState \in RecStates
    /\ recJobs \in Seq(Intents) /\ pendingJobs \in Seq({"START"}) /\ job \in Jobs
CallTypes ==
    /\ client \in Seq(ClientSteps) /\ sent \in BOOLEAN
    /\ answer \in {"none", "ok", "bad"}
    /\ built \subseteq {"audio", "video"} /\ linked \subseteq built
MuxTypes == /\ DOMAIN mux = {"eos", "header", "meta", "tracks", "cnt"}
            /\ mux.eos \in BOOLEAN /\ mux.header \in BOOLEAN
FileTypes ==
    /\ fst \in [RecFilters -> RecFilterStates] /\ readyEvents \in Nat /\ headers \in Nat
    /\ MuxTypes
    /\ acap \in CaptureStates /\ vcap \in CaptureStates /\ venc \in EncoderStates
RecTypes == MachineTypes /\ CallTypes /\ FileTypes

Has(s) == In(job.steps, s)
Active == job.phase \in {"execute", "enter"}
Executing(i) == job.phase = "execute" /\ job.intent = i
Starting == job.steps # <<>> /\ Head(job.steps) = "startFile"

\* Jobs that stop the pipeline; jobs of a client's stop, from a state that takes it.
CleansUp == \/ Executing("RESET")
            \/ Executing("NOTIFY_COMPLETE") /\ recState \in {"INIT", "RECORDING"}
Leaves(i) == Executing(i) /\ recState \in {"RECORDING_SETTING", "RECORDING", "PAUSE"}
\* Those that will end in INIT.
CleansOut == \/ Executing("RESET")
             \/ Executing("NOTIFY_COMPLETE") /\ recState = "RECORDING" /\ job.ok

\* The job and the state that a step belongs to.
Belongs(s) ==
    /\ Active
    /\ s \in PrepareKinds => Executing("PREPARE") /\ recState = "RECORDING_SETTING"
    /\ s \in DrainKinds => Leaves("STOP")
    /\ s = "endFile" => Leaves("STOP_NOW")
    /\ s \in CleanKinds => CleansUp
    /\ s = "stopCamera" => CleansUp \/ Leaves("STOP")
    /\ s \in StartKinds => job.phase = "enter" /\ recState = "RECORDING"
    /\ s \in PauseKinds => job.phase = "enter" /\ recState = "PAUSE"
    /\ s \in AudioKinds => "audio" \in built
    /\ s \in VideoKinds => "video" \in built
StepsBelong == \A s \in StepKinds : Has(s) => Belongs(s)
Ordered(steps) ==
    /\ ~Precedes(steps, "stopVideo", "stopCapture")
    /\ ~Precedes(steps, "stopVideo", "stopFile")
    /\ \A x \in {"prepareFile", "prepareAudio"} : ~Precedes(steps, "prepareAudio", x)
    /\ \A x \in PrepareKinds : ~Precedes(steps, "prepareVideo", x)
    /\ Follows(steps, "eosAudio", "checkAudio")
StepsInOrder == Ordered(job.steps)

\* One call at a time: its job is in the queue, or runs, while the client waits for it.
Awaits(i) == sent /\ answer = "none" /\ client # <<>> /\ Head(client) = i
OneCall ==
    /\ sent => client # <<>> /\ Head(client) \in Intents
    /\ \A i \in ClientJobs : In(recJobs, i) => Awaits(i) /\ ~(Active /\ job.intent \in ClientJobs)
    /\ \A i, j \in ClientJobs : ~Precedes(recJobs, i, j)
    /\ Active /\ job.intent \in ClientJobs => Awaits(job.intent)
\* No NOTIFY_READY is behind a call's job or another NOTIFY_READY, but the one that
\* PREPARE posts.
OneReady ==
    /\ \A i \in ClientJobs \cup {"NOTIFY_READY"} : ~Precedes(recJobs, i, "NOTIFY_READY")
    /\ Active /\ job.intent \in (ClientJobs \cup {"NOTIFY_READY"}) \ {"PREPARE"} => ~In(recJobs, "NOTIFY_READY")
    /\ \A s \in PrepareKinds : Has(s) => ~In(recJobs, "NOTIFY_READY")
\* After PREPARE the call waits for READY.
CallFits == Follows(client, "PREPARE", "ready?") /\ ~Precedes(client, "ready?", "PREPARE")

\* A file that has its header, or needs none.
Covered == headers = 0 \/ mux.header \/ mux.eos
\* A file that could get a second header, or is about to.
Primed == fst["muxer"] = "PREPARING" \/ (~Covered /\ Works("muxer"))
AudioMoves == acap.run \/ acap.at \in {"frame", "eos"}
AudioRests == ~AudioMoves \/ acap.eos
VideoIdle == ~vcap.run /\ vcap.at = "idle"
VideoRests == VideoIdle \/ (~venc.made /\ "video" \notin linked)
QueueEmpty == ~venc.on \/ venc.queue = <<>>
VideoFits == "video" \in linked => venc.made

\* The client is in Prepare, and will stay there until the state is left.
Preparing == /\ seenState = "RECORDING_SETTING" /\ client # <<>>
             /\ \/ Head(client) = "PREPARE" /\ sent /\ answer # "bad"
                \/ Head(client) = "ready?"

ChainsGrow ==
    /\ AudioMoves => "audio" \in built
    /\ ~VideoIdle => "video" \in built
    /\ venc.on => venc.made
    /\ venc.made => "video" \in linked
    /\ ~venc.made /\ "video" \in linked => VideoIdle

\* A pipeline that was stopped, and not prepared since, has counted nothing.
Counted ==
    /\ fst["muxer"] = "INITIALIZED" => readyEvents = 0
    /\ Has("prepareAudio") => Has("prepareFile") \/ readyEvents = 0

\* The state announced is the machine's, between transitions.
SeenInTime ==
    /\ job.phase # "enter" => seenState = recState
    /\ job.phase = "enter" /\ job.intent = "PREPARE" => recState = "ERROR"
OkAccepted == job.phase = "execute" /\ job.ok => Accepts(job.intent)

GetsReady == In(recJobs, "NOTIFY_READY") \/ (Executing("NOTIFY_READY") /\ job.ok)
ReadyMeansFit ==
    GetsReady => \/ recState = "ERROR"
                 \/ /\ recState = "RECORDING_SETTING" /\ Preparing
                    /\ VideoFits /\ fst["muxer"] # "INITIALIZED"
\* What is recorded has its encoder.
RecordableFits ==
    recState \in {"READY", "RECORDING", "PAUSE"} =>
        /\ VideoFits \/ (CleansOut /\ ~Has("stopVideo"))
        /\ fst["muxer"] = "INITIALIZED" => "video" \in built \/ CleansOut

\* What a job that stops has still to do, or has done.
CleaningUp ==
    /\ CleansUp \/ Leaves("STOP") =>
        /\ Has("stopCapture") \/ Has("endAudio") \/ AudioRests
        /\ Has("stopCamera") \/ VideoRests
    /\ Leaves("STOP_NOW") => Has("endFile") \/ mux.eos
    /\ CleansUp => /\ Has("stopFile") \/ fst["muxer"] = "INITIALIZED"
                   /\ job.intent = "NOTIFY_COMPLETE" /\ (Has("stopVideo") \/ Has("stopFile")) => job.ok
    /\ Has("stopFile") /\ venc.on => Has("stopVideo")
    /\ fst["muxer"] = "INITIALIZED" /\ venc.on => Has("stopVideo")

\* What records is at rest outside of a recording, the file has its header inside of one,
\* and a muxer that could write a header gets nothing but from the recording it starts.
RestsOutOfRecording ==
    recState \in {"INIT", "RECORDING_SETTING", "READY"} => mux.eos \/ (AudioRests /\ VideoRests)
CoveredInRecording == recState \in {"RECORDING", "PAUSE"} => Covered \/ Starting
PrimedRests ==
    Primed =>
        /\ mux.eos \/ (AudioRests /\ VideoRests /\ QueueEmpty)
        /\ recState \in {"READY", "ERROR"} \/ (recState = "RECORDING_SETTING" /\ Preparing) \/ Starting

RecSafe ==
    /\ StepsBelong /\ StepsInOrder /\ OneCall /\ OneReady /\ CallFits /\ SeenInTime /\ OkAccepted
    /\ ChainsGrow /\ Counted
    /\ ReadyMeansFit /\ RecordableFits /\ CleaningUp
    /\ RestsOutOfRecording /\ CoveredInRecording /\ PrimedRests /\ RecordsOneFile
RecInv == RecTypes /\ RecSafe

-----------------------------------------------------------------------------
(* What a step does to the job.                                            *)

\* The job goes on: no step is added.
Shrinks ==
    /\ job' \in Jobs /\ job'.phase = job.phase /\ job'.intent = job.intent
    /\ \A x \in StepKinds : Has(x)' => Has(x)
    /\ job'.ok => job.ok
    /\ StepsInOrder'

\* It goes on to the step behind.
LEMMA AdvanceIs ==
    ASSUME job \in Jobs, StepsInOrder, NEW step \in StepKinds, Performs(step), Advances
    PROVE  /\ Shrinks /\ job'.ok = job.ok
           /\ Active /\ Has(step)
           /\ \A x \in StepKinds : Has(x) /\ x # step => Has(x)'
           /\ \A x \in StepKinds : Has(x)' => Precedes(job.steps, step, x)
<1> DEFINE s == job.steps
<1>1. s \in Seq(StepKinds)
  BY DEF Jobs
<1>2. s # <<>> /\ Head(s) = step
  <2>1. "none" \notin StepKinds
    BY DEF StepKinds, PrepareKinds, DrainKinds, CleanKinds, StartKinds, PauseKinds
  <2> QED BY <2>1 DEF Performs, Step
<1>3. Tail(s) \in Seq(StepKinds)
  BY <1>1, <1>2, HeadTailProperties
<1>4. /\ job' \in Jobs /\ job'.phase = job.phase /\ job'.intent = job.intent /\ job'.ok = job.ok
      /\ job'.steps = Tail(s)
  BY <1>3 DEF Advances, Jobs
<1> HIDE DEF s
<1>5. \A x : /\ In(Tail(s), x) => In(s, x)
             /\ In(s, x) => x = step \/ In(Tail(s), x)
             /\ In(s, step)
  BY <1>1, <1>2, TailIn
<1>6. \A x, y : /\ Precedes(Tail(s), x, y) => Precedes(s, x, y)
                /\ Follows(s, x, y) => Follows(Tail(s), x, y)
                /\ In(Tail(s), y) => Precedes(s, step, y)
  BY <1>1, <1>2, TailOrder
<1>7. StepsInOrder'
  BY <1>4, <1>6 DEF StepsInOrder, Ordered, s
<1>8. /\ \A x \in StepKinds : Has(x)' => Has(x)
      /\ \A x \in StepKinds : Has(x) /\ x # step => Has(x)'
      /\ \A x \in StepKinds : Has(x)' => Precedes(job.steps, step, x)
      /\ Has(step)
  BY <1>4, <1>5, <1>6 DEF Has, s
<1>9. Active
  BY DEF Active, Performs
<1> QED BY <1>4, <1>7, <1>8, <1>9 DEF Shrinks

\* It gives up: nothing is left of it but the sources to forget.
LEMMA GivesIs ==
    ASSUME job \in Jobs, NEW step \in StepKinds, Performs(step), Gives
    PROVE  /\ Shrinks /\ job'.ok = FALSE
           /\ Active /\ Has(step)
           /\ \A x \in StepKinds : Has(x)' => x = "forget"
<1> DEFINE s == job.steps
           t == IF "forget" \in ToSet(s) THEN <<"forget">> ELSE <<>>
<1>1. s \in Seq(StepKinds)
  BY DEF Jobs
<1>2. s # <<>> /\ Head(s) = step
  <2>1. "none" \notin StepKinds
    BY DEF StepKinds, PrepareKinds, DrainKinds, CleanKinds, StartKinds, PauseKinds
  <2> QED BY <2>1 DEF Performs, Step
<1>3. t \in Seq(StepKinds) /\ (t = <<>> \/ (t = <<"forget">> /\ In(s, "forget")))
  <2>1. <<"forget">> \in Seq(StepKinds) /\ <<>> \in Seq(StepKinds)
    BY DEF StepKinds
  <2>2. "forget" \in ToSet(s) => In(s, "forget")
    BY DEF ToSet, In
  <2> QED BY <2>1, <2>2
<1> HIDE DEF s
<1>4. /\ job' \in Jobs /\ job'.phase = job.phase /\ job'.intent = job.intent /\ job'.ok = FALSE
      /\ job'.steps = t
  BY <1>3 DEF Gives, Jobs, s
<1> HIDE DEF t
<1>5. \A x : In(t, x) => x = "forget" /\ In(s, x)
  BY <1>3 DEF In
<1>6. \A x, y : ~Precedes(t, x, y)
  BY <1>3 DEF Precedes
<1>7. Follows(t, "eosAudio", "checkAudio")
  BY <1>3 DEF Follows
<1>8. StepsInOrder'
  BY <1>4, <1>6, <1>7 DEF StepsInOrder, Ordered
<1>9. /\ \A x \in StepKinds : Has(x)' => Has(x) /\ x = "forget"
  BY <1>4, <1>5 DEF Has, s
<1>10. Active /\ Has(step)
  <2>1. In(s, Head(s))
    BY <1>1, <1>2, TailIn
  <2> QED BY <1>2, <2>1 DEF Active, Performs, Has, s
<1> QED BY <1>4, <1>8, <1>9, <1>10 DEF Shrinks

\* A thread of the recording leaves it as it is.
LEMMA JobStays ==
    ASSUME job \in Jobs, StepsInOrder, UNCHANGED job
    PROVE  Shrinks /\ \A x \in StepKinds : Has(x)' <=> Has(x)
<1>1. StepsInOrder'
  BY DEF StepsInOrder
<1>2. \A x \in StepKinds : Has(x)' <=> Has(x)
  BY DEF Has
<1> QED BY <1>1, <1>2 DEF Shrinks

-----------------------------------------------------------------------------
(* The steps of a job and of an entry.                                     *)

LEMMA Tuples ==
    ASSUME NEW S, NEW a \in S, NEW b \in S, NEW c \in S
    PROVE  <<>> \in Seq(S) /\ <<a>> \in Seq(S) /\ <<a, b>> \in Seq(S) /\ <<a, b, c>> \in Seq(S)
<1>1. <<>> \in Seq(S)
  OBVIOUS
<1>2. <<a>> \in Seq(S)
  OBVIOUS
<1>3. <<a, b>> \in Seq(S)
  OBVIOUS
<1>4. <<a, b, c>> \in Seq(S)
  OBVIOUS
<1> QED BY <1>1, <1>2, <1>3, <1>4

LEMMA NoneFollows ==
    ASSUME NEW s, NEW x, NEW y, ~In(s, x)
    PROVE  Follows(s, x, y)
  BY DEF In, Follows

\* What the steps of a stop of the pipeline are, and in which order.
LEMMA PipeStopIs ==
    ASSUME built \subseteq {"audio", "video"}
    PROVE  /\ PipeStopSteps \in Seq(StepKinds) /\ Ordered(PipeStopSteps)
           /\ \A x : In(PipeStopSteps, x) => x \in CleanKinds \cup {"stopCamera"}
           /\ \A x : In(PipeStopSteps, x) /\ x \in AudioKinds => "audio" \in built
           /\ \A x : In(PipeStopSteps, x) /\ x \in VideoKinds => "video" \in built
           /\ In(PipeStopSteps, "stopFile")
           /\ "audio" \in built => In(PipeStopSteps, "stopCapture")
           /\ "video" \in built => In(PipeStopSteps, "stopVideo") /\ In(PipeStopSteps, "stopCamera")
<1> DEFINE f == <<"stopFile">>
           a == IF "audio" \in built THEN <<"stopEncoder", "stopCapture">> ELSE <<>>
           v == IF "video" \in built THEN <<"stopVideo", "stopCamera">> ELSE <<>>
           fa == f \o a
           p == fa \o v
<1>1. f \in Seq(StepKinds) /\ a \in Seq(StepKinds) /\ v \in Seq(StepKinds)
  <2>1. {"stopFile", "stopEncoder", "stopCapture", "stopVideo", "stopCamera"} \subseteq StepKinds
    BY DEF StepKinds, CleanKinds
  <2> QED BY <2>1, Tuples
<1>2. \A x : /\ In(f, x) <=> x = "stopFile"
             /\ In(a, x) <=> "audio" \in built /\ (x = "stopEncoder" \/ x = "stopCapture")
             /\ In(v, x) <=> "video" \in built /\ (x = "stopVideo" \/ x = "stopCamera")
  BY DEF In
<1>3. \A x, y : /\ ~Precedes(f, x, y)
                /\ Precedes(a, x, y) => x = "stopEncoder" /\ y = "stopCapture"
                /\ Precedes(v, x, y) => x = "stopVideo" /\ y = "stopCamera"
  BY DEF Precedes
<1> HIDE DEF f, a, v
<1>5. fa \in Seq(StepKinds)
      /\ \A x : In(fa, x) <=> In(f, x) \/ In(a, x)
  BY <1>1, ConcatIn
<1>6. \A x, y : Precedes(fa, x, y) => Precedes(f, x, y) \/ Precedes(a, x, y) \/ (In(f, x) /\ In(a, y))
  BY <1>1, ConcatIn
<1> HIDE DEF fa
<1>7. p \in Seq(StepKinds)
      /\ \A x : In(p, x) <=> In(fa, x) \/ In(v, x)
  BY <1>1, <1>5, ConcatIn
<1>8. \A x, y : Precedes(p, x, y) => Precedes(fa, x, y) \/ Precedes(v, x, y) \/ (In(fa, x) /\ In(v, y))
  BY <1>1, <1>5, ConcatIn
<1>9. p = PipeStopSteps
  BY DEF PipeStopSteps, p, fa, f, a, v
<1> HIDE DEF p
<1>10. \A x : In(p, x) <=> \/ x = "stopFile"
                           \/ "audio" \in built /\ (x = "stopEncoder" \/ x = "stopCapture")
                           \/ "video" \in built /\ (x = "stopVideo" \/ x = "stopCamera")
  BY <1>2, <1>5, <1>7
<1>11. Ordered(p)
  <2>1. Follows(p, "eosAudio", "checkAudio")
    BY <1>10, NoneFollows
  <2> QED BY <1>2, <1>3, <1>5, <1>6, <1>8, <2>1 DEF Ordered
<1> QED BY <1>7, <1>9, <1>10, <1>11 DEF CleanKinds, AudioKinds, VideoKinds

\* Those of the client's stop.
LEMMA LeaveIs ==
    ASSUME NEW i, built \subseteq {"audio", "video"}
    PROVE  /\ LeaveSteps(i) \in Seq(StepKinds) /\ Ordered(LeaveSteps(i))
           /\ i = "STOP_NOW" =>
                /\ \A x : In(LeaveSteps(i), x) => x = "endFile" \/ x = "forget"
                /\ In(LeaveSteps(i), "endFile")
           /\ i # "STOP_NOW" =>
                /\ \A x : In(LeaveSteps(i), x) => x \in DrainKinds \cup {"stopCamera", "forget"}
                /\ \A x : In(LeaveSteps(i), x) /\ x \in AudioKinds => "audio" \in built
                /\ "audio" \in built => In(LeaveSteps(i), "endAudio")
                /\ "video" \in built => In(LeaveSteps(i), "stopCamera")
<1> DEFINE n == <<"endFile", "forget">>
           a == IF "audio" \in built THEN <<"eosAudio", "checkAudio", "endAudio">> ELSE <<>>
           v == IF "video" \in built THEN <<"stopCamera", "eosVideo">> ELSE <<>>
           f == <<"forget">>
           av == a \o v
           p == av \o f
<1>1. n \in Seq(StepKinds) /\ f \in Seq(StepKinds) /\ a \in Seq(StepKinds) /\ v \in Seq(StepKinds)
  <2>1. {"endFile", "forget", "eosAudio", "checkAudio", "endAudio", "stopCamera", "eosVideo"} \subseteq StepKinds
    BY DEF StepKinds, DrainKinds
  <2> QED BY <2>1, Tuples
<1>2. \A x : /\ In(n, x) <=> x = "endFile" \/ x = "forget"
             /\ In(f, x) <=> x = "forget"
  BY DEF In
<1>3. \A x : /\ In(a, x) <=> "audio" \in built /\ (x = "eosAudio" \/ x = "checkAudio" \/ x = "endAudio")
             /\ In(v, x) <=> "video" \in built /\ (x = "stopCamera" \/ x = "eosVideo")
  BY DEF In
<1>4. Follows(a, "eosAudio", "checkAudio")
  <2>1. CASE "audio" \in built
    BY <2>1 DEF Follows
  <2>2. CASE "audio" \notin built
    BY <2>2 DEF Follows
  <2> QED BY <2>1, <2>2
<1> HIDE DEF n, f, a, v
<1>5. av \in Seq(StepKinds)
      /\ \A x : In(av, x) <=> In(a, x) \/ In(v, x)
  BY <1>1, ConcatIn
<1>6. Follows(v, "eosAudio", "checkAudio") /\ Follows(f, "eosAudio", "checkAudio")
      /\ Follows(n, "eosAudio", "checkAudio")
  BY <1>2, <1>3, NoneFollows
<1>7. Follows(av, "eosAudio", "checkAudio")
  BY <1>1, <1>4, <1>6, ConcatIn
<1> HIDE DEF av
<1>8. p \in Seq(StepKinds)
      /\ \A x : In(p, x) <=> In(av, x) \/ In(f, x)
  BY <1>1, <1>5, ConcatIn
<1>9. Follows(p, "eosAudio", "checkAudio")
  BY <1>1, <1>5, <1>6, <1>7, ConcatIn
<1>10. \A s, x, y : Precedes(s, x, y) => In(s, x)
  BY DEF Precedes, In
<1>11. LeaveSteps(i) = IF i = "STOP_NOW" THEN n ELSE p
  BY DEF LeaveSteps, n, p, av, a, v, f
<1> HIDE DEF p
<1>12. \A x : In(p, x) <=> \/ "audio" \in built /\ (x = "eosAudio" \/ x = "checkAudio" \/ x = "endAudio")
                           \/ "video" \in built /\ (x = "stopCamera" \/ x = "eosVideo")
                           \/ x = "forget"
  BY <1>2, <1>3, <1>5, <1>8
<1>13. Ordered(p) /\ Ordered(n)
  BY <1>2, <1>6, <1>9, <1>10, <1>12 DEF Ordered
<1> QED BY <1>1, <1>2, <1>8, <1>11, <1>12, <1>13 DEF DrainKinds, AudioKinds

LEMMA PrepareIs ==
    ASSUME built \subseteq {"audio", "video"}
    PROVE  /\ PrepareSteps \in Seq(StepKinds) /\ Ordered(PrepareSteps)
           /\ \A x : In(PrepareSteps, x) => x \in PrepareKinds
           /\ In(PrepareSteps, "prepareFile")
           /\ \A x : In(PrepareSteps, x) /\ x \in AudioKinds => "audio" \in built
           /\ \A x : In(PrepareSteps, x) /\ x \in VideoKinds => "video" \in built
<1> DEFINE f == <<"prepareFile">>
           a == IF "audio" \in built THEN <<"prepareAudio">> ELSE <<>>
           v == IF "video" \in built THEN <<"prepareVideo">> ELSE <<>>
           fa == f \o a
           p == fa \o v
<1>1. f \in Seq(StepKinds) /\ a \in Seq(StepKinds) /\ v \in Seq(StepKinds)
  <2>1. {"prepareFile", "prepareAudio", "prepareVideo"} \subseteq StepKinds
    BY DEF StepKinds, PrepareKinds
  <2> QED BY <2>1, Tuples
<1>2. \A x : /\ In(f, x) <=> x = "prepareFile"
             /\ In(a, x) <=> "audio" \in built /\ x = "prepareAudio"
             /\ In(v, x) <=> "video" \in built /\ x = "prepareVideo"
  BY DEF In
<1>3. \A x, y : ~Precedes(f, x, y) /\ ~Precedes(a, x, y) /\ ~Precedes(v, x, y)
  BY DEF Precedes
<1> HIDE DEF f, a, v
<1>5. fa \in Seq(StepKinds)
      /\ \A x : In(fa, x) <=> In(f, x) \/ In(a, x)
  BY <1>1, ConcatIn
<1>6. \A x, y : Precedes(fa, x, y) => Precedes(f, x, y) \/ Precedes(a, x, y) \/ (In(f, x) /\ In(a, y))
  BY <1>1, ConcatIn
<1> HIDE DEF fa
<1>7. p \in Seq(StepKinds)
      /\ \A x : In(p, x) <=> In(fa, x) \/ In(v, x)
  BY <1>1, <1>5, ConcatIn
<1>8. \A x, y : Precedes(p, x, y) => Precedes(fa, x, y) \/ Precedes(v, x, y) \/ (In(fa, x) /\ In(v, y))
  BY <1>1, <1>5, ConcatIn
<1>9. p = PrepareSteps
  BY DEF PrepareSteps, p, fa, f, a, v
<1> HIDE DEF p
<1>10. \A x : In(p, x) <=> \/ x = "prepareFile"
                           \/ "audio" \in built /\ x = "prepareAudio"
                           \/ "video" \in built /\ x = "prepareVideo"
  BY <1>2, <1>5, <1>7
<1>11. Ordered(p)
  <2>1. Follows(p, "eosAudio", "checkAudio")
    BY <1>10, NoneFollows
  <2> QED BY <1>2, <1>3, <1>5, <1>6, <1>8, <2>1 DEF Ordered
<1> QED BY <1>7, <1>9, <1>10, <1>11 DEF PrepareKinds, AudioKinds, VideoKinds

LEMMA ThreeParts ==
    ASSUME NEW S, NEW s \in Seq(S), NEW t \in Seq(S), NEW u \in Seq(S)
    PROVE  /\ s \o t \o u \in Seq(S)
           /\ \A x : In(s \o t \o u, x) <=> In(s, x) \/ In(t, x) \/ In(u, x)
           /\ s # <<>> => s \o t \o u # <<>> /\ Head(s \o t \o u) = Head(s)
<1> DEFINE st == s \o t
<1>1. st \in Seq(S) /\ \A x : In(st, x) <=> In(s, x) \/ In(t, x)
  BY ConcatIn
<1> HIDE DEF st
<1>2. st \o u \in Seq(S) /\ \A x : In(st \o u, x) <=> In(st, x) \/ In(u, x)
  BY <1>1, ConcatIn
<1>3. ASSUME NEW a \in Seq(S), NEW b \in Seq(S), a # <<>>
      PROVE  a \o b # <<>> /\ Head(a \o b) = Head(a)
  <2>1. Len(a) \in Nat \ {0}
    BY <1>3, EmptySeq, LenProperties
  <2>2. a \o b \in Seq(S) /\ Len(a \o b) = Len(a) + Len(b) /\ Len(b) \in Nat
    BY ConcatProperties, LenProperties
  <2>3. (a \o b)[1] = a[1]
    BY <2>1, <2>2, ConcatProperties
  <2>4. Len(a \o b) # 0
    BY <2>1, <2>2
  <2>5. a \o b # <<>>
    BY <2>2, <2>4, EmptySeq
  <2> QED BY <1>3, <2>2, <2>3, <2>5, HeadTailProperties
<1>4. s # <<>> => s \o t \o u # <<>> /\ Head(s \o t \o u) = Head(s)
  BY <1>1, <1>3 DEF st
<1> QED BY <1>1, <1>2, <1>4 DEF st

LEMMA Unordered ==
    ASSUME NEW s, \A x \in {"stopVideo", "prepareVideo", "prepareAudio", "eosAudio"} : ~In(s, x)
    PROVE  Ordered(s)
<1>1. \A x, y : Precedes(s, x, y) => In(s, x)
  BY DEF Precedes, In
<1>2. Follows(s, "eosAudio", "checkAudio")
  BY NoneFollows
<1> QED BY <1>1, <1>2 DEF Ordered

\* What is done when a state is entered.
LEMMA EntryIs ==
    ASSUME built \subseteq {"audio", "video"}, NEW to, NEW i
    PROVE  /\ EntrySteps(to, i) \in Seq(StepKinds) /\ Ordered(EntrySteps(to, i))
           /\ \A x : In(EntrySteps(to, i), x) => \/ to = "RECORDING" /\ x \in StartKinds
                                                 \/ to = "PAUSE" /\ x \in PauseKinds
           /\ \A x : In(EntrySteps(to, i), x) /\ x \in AudioKinds => "audio" \in built
           /\ \A x : In(EntrySteps(to, i), x) /\ x \in VideoKinds => "video" \in built
           /\ to = "RECORDING" /\ i # "RESUME" =>
                EntrySteps(to, i) # <<>> /\ Head(EntrySteps(to, i)) = "startFile"
<1> DEFINE sf == <<"startFile">>
           sa == IF "audio" \in built THEN <<"startAudio">> ELSE <<>>
           sv == IF "video" \in built THEN <<"startVideo">> ELSE <<>>
           ra == IF "audio" \in built THEN <<"resumeAudio">> ELSE <<>>
           rv == IF "video" \in built THEN <<"resumeVideo">> ELSE <<>>
           rf == <<"resumed">>
           pf == <<"pauseFile">>
           pa == IF "audio" \in built THEN <<"pauseAudio">> ELSE <<>>
           pv == IF "video" \in built THEN <<"pauseVideo">> ELSE <<>>
           e == EntrySteps(to, i)
<1>1. \A x : /\ In(sf, x) <=> x = "startFile"
             /\ In(sa, x) <=> "audio" \in built /\ x = "startAudio"
             /\ In(sv, x) <=> "video" \in built /\ x = "startVideo"
  BY DEF In
<1>2. \A x : /\ In(rf, x) <=> x = "resumed"
             /\ In(ra, x) <=> "audio" \in built /\ x = "resumeAudio"
             /\ In(rv, x) <=> "video" \in built /\ x = "resumeVideo"
  BY DEF In
<1>3. \A x : /\ In(pf, x) <=> x = "pauseFile"
             /\ In(pa, x) <=> "audio" \in built /\ x = "pauseAudio"
             /\ In(pv, x) <=> "video" \in built /\ x = "pauseVideo"
  BY DEF In
<1>4. /\ sf \in Seq(StepKinds) /\ sa \in Seq(StepKinds) /\ sv \in Seq(StepKinds)
      /\ rf \in Seq(StepKinds) /\ ra \in Seq(StepKinds) /\ rv \in Seq(StepKinds)
      /\ pf \in Seq(StepKinds) /\ pa \in Seq(StepKinds) /\ pv \in Seq(StepKinds)
  <2>1. StartKinds \subseteq StepKinds /\ PauseKinds \subseteq StepKinds
    BY DEF StepKinds
  <2>2. {"startFile", "startAudio", "startVideo", "resumeAudio", "resumeVideo", "resumed",
         "pauseFile", "pauseAudio", "pauseVideo"} \subseteq StepKinds
    BY <2>1 DEF StartKinds, PauseKinds
  <2> QED BY <2>2, Tuples
<1>5. <<>> \in Seq(StepKinds) /\ \A x : ~In(<<>>, x)
  BY DEF In
<1>6. sf # <<>> /\ Head(sf) = "startFile"
  OBVIOUS
<1>7. to = "RECORDING" /\ i # "RESUME" => e = sf \o sa \o sv
  BY DEF EntrySteps
<1>8. to = "RECORDING" /\ i = "RESUME" => e = ra \o rv \o rf
  BY DEF EntrySteps
<1>9. to = "PAUSE" /\ seenState # "READY" => e = pf \o pa \o pv
  BY DEF EntrySteps
<1>10. ~(to = "RECORDING") /\ ~(to = "PAUSE" /\ seenState # "READY") => e = <<>>
  BY DEF EntrySteps
<1> HIDE DEF sf, sa, sv, ra, rv, rf, pf, pa, pv, e
<1>11. CASE to = "RECORDING" /\ i # "RESUME"
  <2>1. e = sf \o sa \o sv
    BY <1>7, <1>11
  <2>2. e \in Seq(StepKinds) /\ \A x : In(e, x) <=> In(sf, x) \/ In(sa, x) \/ In(sv, x)
    BY <1>4, <2>1, ThreeParts
  <2>3. e # <<>> /\ Head(e) = "startFile"
    BY <1>4, <1>6, <2>1, ThreeParts
  <2>4. Ordered(e)
    BY <1>1, <2>2, Unordered
  <2>5. \A x : In(e, x) => x \in StartKinds
    BY <1>1, <2>2 DEF StartKinds
  <2>6. \A x : In(e, x) => (x \in AudioKinds => "audio" \in built) /\ (x \in VideoKinds => "video" \in built)
    BY <1>1, <2>2 DEF AudioKinds, VideoKinds
  <2> QED BY <1>11, <2>2, <2>3, <2>4, <2>5, <2>6 DEF e
<1>12. CASE to = "RECORDING" /\ i = "RESUME"
  <2>1. e = ra \o rv \o rf
    BY <1>8, <1>12
  <2>2. e \in Seq(StepKinds) /\ \A x : In(e, x) <=> In(ra, x) \/ In(rv, x) \/ In(rf, x)
    BY <1>4, <2>1, ThreeParts
  <2>4. Ordered(e)
    BY <1>2, <2>2, Unordered
  <2>5. \A x : In(e, x) => x \in StartKinds
    BY <1>2, <2>2 DEF StartKinds
  <2>6. \A x : In(e, x) => (x \in AudioKinds => "audio" \in built) /\ (x \in VideoKinds => "video" \in built)
    BY <1>2, <2>2 DEF AudioKinds, VideoKinds
  <2> QED BY <1>12, <2>2, <2>4, <2>5, <2>6 DEF e
<1>13. CASE to = "PAUSE" /\ seenState # "READY"
  <2>1. e = pf \o pa \o pv
    BY <1>9, <1>13
  <2>2. e \in Seq(StepKinds) /\ \A x : In(e, x) <=> In(pf, x) \/ In(pa, x) \/ In(pv, x)
    BY <1>4, <2>1, ThreeParts
  <2>4. Ordered(e)
    BY <1>3, <2>2, Unordered
  <2>5. \A x : In(e, x) => x \in PauseKinds
    BY <1>3, <2>2 DEF PauseKinds
  <2>6. \A x : In(e, x) => (x \in AudioKinds => "audio" \in built) /\ (x \in VideoKinds => "video" \in built)
    BY <1>3, <2>2 DEF AudioKinds, VideoKinds
  <2> QED BY <1>13, <2>2, <2>4, <2>5, <2>6 DEF e
<1>14. CASE ~(to = "RECORDING") /\ ~(to = "PAUSE" /\ seenState # "READY")
  <2>1. e = <<>>
    BY <1>10, <1>14
  <2>2. Ordered(e)
    BY <1>5, <2>1, Unordered
  <2> QED BY <1>5, <1>14, <2>1, <2>2 DEF e
<1> QED BY <1>11, <1>12, <1>13, <1>14

\* A job that is taken has the steps that its state makes for it.
LEMMA RunsIs ==
    ASSUME built \subseteq {"audio", "video"}, NEW i \in Intents, NEW late \in BOOLEAN,
           job' = Runs(i, late), UNCHANGED <<recState, built>>
    PROVE  /\ job' \in Jobs /\ job'.phase = "execute" /\ job'.intent = i
           /\ StepsInOrder' /\ OkAccepted'
           /\ StepsBelong'
           /\ CleansUp' => /\ Has("stopFile")'
                           /\ "audio" \in built => Has("stopCapture")'
                           /\ "video" \in built => Has("stopCamera")' /\ Has("stopVideo")'
                           /\ i = "NOTIFY_COMPLETE" => job'.ok
           /\ Leaves("STOP")' => /\ "audio" \in built => Has("endAudio")'
                                 /\ "video" \in built => Has("stopCamera")'
           /\ Leaves("STOP_NOW")' => Has("endFile")'
           /\ Has("prepareAudio")' => Has("prepareFile")'
<1> DEFINE e == Executes(i)
<1> USE DEF Has, Executing, CleansUp, Leaves, Active, Belongs
<1>1. Accepts(i) \in BOOLEAN
  BY DEF Accepts
<1>2. job' = [phase |-> "execute", intent |-> i, steps |-> e, ok |-> Accepts(i), late |-> late]
  BY DEF Runs
<1>3. Accepts(i)' = Accepts(i)
  BY DEF Accepts, Stops
<1>4. /\ job'.phase = "execute" /\ job'.intent = i /\ job'.steps = e /\ job'.ok = Accepts(i)
  BY <1>2
<1>5. OkAccepted'
  BY <1>3, <1>4 DEF OkAccepted
<1>6. ASSUME e \in Seq(StepKinds), Ordered(e) PROVE job' \in Jobs /\ StepsInOrder'
  <2>1. job' \in Jobs
    BY <1>1, <1>2, <1>6 DEF Jobs
  <2>2. StepsInOrder'
    BY <1>4, <1>6 DEF StepsInOrder
  <2> QED BY <2>1, <2>2
<1>7. i = "NOTIFY_COMPLETE" => Accepts(i)
  BY DEF Accepts, Stops
<1>8. /\ i = "PREPARE" /\ recState = "RECORDING_SETTING" => e = PrepareSteps
      /\ i \in Stops /\ recState \in {"RECORDING_SETTING", "RECORDING", "PAUSE"} => e = LeaveSteps(i)
      /\ i = "NOTIFY_COMPLETE" /\ recState \in {"INIT", "RECORDING"} => e = PipeStopSteps
  BY DEF Executes, Stops
<1>9. i = "RESET" => e = PipeStopSteps \o <<"forget">>
  BY DEF Executes, Stops
<1>10. \/ i = "PREPARE" /\ recState = "RECORDING_SETTING"
       \/ i \in Stops /\ recState \in {"RECORDING_SETTING", "RECORDING", "PAUSE"}
       \/ i = "NOTIFY_COMPLETE" /\ recState \in {"INIT", "RECORDING"}
       \/ i = "RESET"
       \/ e = <<>>
  BY DEF Executes, Stops
<1> HIDE DEF e
<1> USE DEF PrepareKinds, DrainKinds, CleanKinds, StartKinds, PauseKinds, Stops
<1>11. CASE i = "PREPARE" /\ recState = "RECORDING_SETTING"
  <2>1. e = PrepareSteps
    BY <1>8, <1>11
  <2>2. e \in Seq(StepKinds) /\ Ordered(e)
    BY <2>1, PrepareIs
  <2>3. /\ \A x : In(e, x) => x \in PrepareKinds
        /\ In(e, "prepareFile")
        /\ \A x : In(e, x) /\ x \in AudioKinds => "audio" \in built
        /\ \A x : In(e, x) /\ x \in VideoKinds => "video" \in built
    BY <2>1, PrepareIs
  <2>4. StepsBelong'
    BY <1>4, <1>11, <2>3 DEF StepsBelong
  <2> QED BY <1>4, <1>5, <1>6, <1>11, <2>2, <2>3, <2>4
<1>12. CASE i \in Stops /\ recState \in {"RECORDING_SETTING", "RECORDING", "PAUSE"}
  <2>1. e = LeaveSteps(i)
    BY <1>8, <1>12
  <2>2. e \in Seq(StepKinds) /\ Ordered(e)
    BY <2>1, LeaveIs
  <2>3. i = "STOP_NOW" =>
           /\ \A x : In(e, x) => x = "endFile" \/ x = "forget"
           /\ In(e, "endFile")
    BY <2>1, LeaveIs
  <2>4. i # "STOP_NOW" =>
           /\ \A x : In(e, x) => x \in DrainKinds \cup {"stopCamera", "forget"}
           /\ \A x : In(e, x) /\ x \in AudioKinds => "audio" \in built
           /\ "audio" \in built => In(e, "endAudio")
           /\ "video" \in built => In(e, "stopCamera")
    BY <2>1, LeaveIs
  <2>5. StepsBelong'
    BY <1>4, <1>12, <2>3, <2>4 DEF StepsBelong, VideoKinds, AudioKinds
  <2> QED BY <1>4, <1>5, <1>6, <1>12, <2>2, <2>3, <2>4, <2>5
<1>13. ASSUME NEW f, f \in {"stop", "reset"},
              f = "stop" => i = "NOTIFY_COMPLETE" /\ recState \in {"INIT", "RECORDING"} /\ e = PipeStopSteps,
              f = "reset" => i = "RESET" /\ e = PipeStopSteps \o <<"forget">>
       PROVE  /\ job' \in Jobs /\ StepsInOrder' /\ StepsBelong'
              /\ Has("stopFile")' /\ ~Has("prepareAudio")'
              /\ "audio" \in built => Has("stopCapture")'
              /\ "video" \in built => Has("stopCamera")' /\ Has("stopVideo")'
  <2> DEFINE p == PipeStopSteps
             g == <<"forget">>
             pg == p \o g
  <2>1. /\ p \in Seq(StepKinds) /\ Ordered(p)
    BY PipeStopIs
  <2>2. /\ \A x : In(p, x) => x \in CleanKinds \cup {"stopCamera"}
        /\ \A x : In(p, x) /\ x \in AudioKinds => "audio" \in built
        /\ \A x : In(p, x) /\ x \in VideoKinds => "video" \in built
        /\ In(p, "stopFile")
        /\ "audio" \in built => In(p, "stopCapture")
        /\ "video" \in built => In(p, "stopVideo") /\ In(p, "stopCamera")
    BY PipeStopIs
  <2>3. \A x : In(g, x) <=> x = "forget"
    BY DEF In
  <2>4. \A x, y : ~Precedes(g, x, y)
    BY DEF Precedes
  <2>5. g \in Seq(StepKinds)
    <3>1. "forget" \in StepKinds
      BY DEF StepKinds
    <3> QED BY <3>1, Tuples
  <2>6. Follows(g, "eosAudio", "checkAudio")
    BY <2>3, NoneFollows
  <2> HIDE DEF p, g
  <2>7. /\ pg \in Seq(StepKinds)
        /\ \A x : In(pg, x) <=> In(p, x) \/ In(g, x)
    BY <2>1, <2>5, ConcatIn
  <2>8. \A x, y : /\ Precedes(pg, x, y) => Precedes(p, x, y) \/ Precedes(g, x, y) \/ (In(p, x) /\ In(g, y))
                  /\ Follows(p, x, y) /\ Follows(g, x, y) => Follows(pg, x, y)
    BY <2>1, <2>5, ConcatIn
  <2>9. e = p \/ e = pg
    BY <1>13 DEF p, g
  <2> HIDE DEF pg
  <2>10. Ordered(pg)
    BY <2>1, <2>3, <2>4, <2>6, <2>8 DEF Ordered
  <2>11. e \in Seq(StepKinds) /\ Ordered(e)
    BY <2>1, <2>7, <2>9, <2>10
  <2>12. /\ \A x : In(e, x) => x \in CleanKinds \cup {"stopCamera", "forget"}
         /\ In(e, "stopFile")
         /\ "audio" \in built => In(e, "stopCapture")
         /\ "video" \in built => In(e, "stopVideo") /\ In(e, "stopCamera")
    BY <2>2, <2>3, <2>7, <2>9
  <2>13. \A x : In(e, x) => (x \in AudioKinds => "audio" \in built) /\ (x \in VideoKinds => "video" \in built)
    BY <2>2, <2>3, <2>7, <2>9 DEF AudioKinds, VideoKinds
  <2>14. CleansUp'
    BY <1>4, <1>13
  <2>15. StepsBelong'
    BY <1>4, <2>12, <2>13, <2>14 DEF StepsBelong
  <2>16. job' \in Jobs /\ StepsInOrder'
    BY <1>6, <2>11
  <2> QED BY <1>4, <2>12, <2>15, <2>16
<1>14. CASE i = "NOTIFY_COMPLETE" /\ recState \in {"INIT", "RECORDING"}
  <2>1. e = PipeStopSteps
    BY <1>8, <1>14
  <2>2. /\ job' \in Jobs /\ StepsInOrder' /\ StepsBelong'
        /\ Has("stopFile")' /\ ~Has("prepareAudio")'
        /\ "audio" \in built => Has("stopCapture")'
        /\ "video" \in built => Has("stopCamera")' /\ Has("stopVideo")'
    BY <1>13, <1>14, <2>1
  <2>3. job'.phase = "execute" /\ job'.intent = i /\ job'.ok /\ OkAccepted'
    BY <1>4, <1>5, <1>7, <1>14
  <2>4. ~Leaves("STOP")' /\ ~Leaves("STOP_NOW")'
    BY <1>14, <2>3
  <2> HIDE DEF Has, CleansUp, Leaves
  <2> QED BY <2>2, <2>3, <2>4
<1>15. CASE i = "RESET"
  <2>2. /\ job' \in Jobs /\ StepsInOrder' /\ StepsBelong'
        /\ Has("stopFile")' /\ ~Has("prepareAudio")'
        /\ "audio" \in built => Has("stopCapture")'
        /\ "video" \in built => Has("stopCamera")' /\ Has("stopVideo")'
    BY <1>9, <1>13, <1>15
  <2>3. job'.phase = "execute" /\ job'.intent = i /\ OkAccepted'
    BY <1>4, <1>5
  <2>4. ~Leaves("STOP")' /\ ~Leaves("STOP_NOW")'
    BY <1>15, <2>3
  <2> HIDE DEF Has, CleansUp, Leaves
  <2> QED BY <1>15, <2>2, <2>3, <2>4
<1>16. CASE e = <<>> /\ ~(i \in Stops /\ recState \in {"RECORDING_SETTING", "RECORDING", "PAUSE"})
            /\ ~(i = "NOTIFY_COMPLETE" /\ recState \in {"INIT", "RECORDING"}) /\ i # "RESET"
  <2>1. e \in Seq(StepKinds) /\ \A x : ~In(e, x)
    BY <1>16 DEF In
  <2>2. Ordered(e)
    BY <2>1, Unordered
  <2>3. StepsBelong'
    BY <1>4, <2>1 DEF StepsBelong
  <2>4. ~CleansUp' /\ ~Leaves("STOP")' /\ ~Leaves("STOP_NOW")'
    BY <1>4, <1>16
  <2> QED BY <1>4, <1>5, <1>6, <2>1, <2>2, <2>3, <2>4
<1> QED BY <1>10, <1>11, <1>12, <1>14, <1>15, <1>16

-----------------------------------------------------------------------------
(* What most steps keep.                                                   *)

\* A step of the job, or of a thread of the recording.
Quiet == Shrinks /\ UNCHANGED <<recState, seenState, client, sent, answer, built, linked>>
\* It posts a NOTIFY_COMPLETE or a NOTIFY_ERROR, if anything.
PostsLittle ==
    /\ recJobs' \in Seq(Intents)
    /\ \A x \in Intents \ {"NOTIFY_COMPLETE", "NOTIFY_ERROR"} : In(recJobs', x) => In(recJobs, x)
    /\ \A x \in Intents, y \in Intents \ {"NOTIFY_COMPLETE", "NOTIFY_ERROR"} :
          Precedes(recJobs', x, y) => Precedes(recJobs, x, y)

LEMMA PostsIs ==
    ASSUME recJobs \in Seq(Intents),
           NEW e \in {"NOTIFY_COMPLETE", "NOTIFY_ERROR"}, recJobs' = recJobs \/ recJobs' = Append(recJobs, e)
    PROVE  PostsLittle
<1>1. CASE recJobs' = recJobs
  BY <1>1 DEF PostsLittle
<1>2. CASE recJobs' = Append(recJobs, e)
  <2>1. e \in Intents
    BY DEF Intents
  <2>2. /\ Append(recJobs, e) \in Seq(Intents)
        /\ \A x, y : /\ In(Append(recJobs, e), x) <=> In(recJobs, x) \/ x = e
                     /\ Precedes(Append(recJobs, e), x, y) => Precedes(recJobs, x, y) \/ (In(recJobs, x) /\ y = e)
    BY <2>1, AppendIn
  <2> QED BY <1>2, <2>2 DEF PostsLittle
<1> QED BY <1>1, <1>2

\* The steps left, the call and what it waits for are as they should be.
LEMMA QuietKeepsSteps ==
    ASSUME StepsBelong, StepsInOrder, SeenInTime, OkAccepted, CallFits, Quiet
    PROVE  StepsBelong' /\ StepsInOrder' /\ SeenInTime' /\ OkAccepted' /\ CallFits'
<1>1. \A x \in StepKinds : Belongs(x) => Belongs(x)'
  BY DEF Belongs, Quiet, Shrinks, Active, Executing, Leaves, CleansUp
<1>2. StepsBelong'
  BY <1>1 DEF StepsBelong, Quiet, Shrinks
<1>3. StepsInOrder'
  BY DEF Quiet, Shrinks
<1>4. SeenInTime'
  BY DEF SeenInTime, Quiet, Shrinks
<1>5. OkAccepted'
  BY DEF OkAccepted, Accepts, Stops, Quiet, Shrinks
<1>6. CallFits'
  BY DEF CallFits, Quiet
<1> QED BY <1>2, <1>3, <1>4, <1>5, <1>6

LEMMA QuietKeepsCall ==
    ASSUME OneCall, Quiet,
           \A x \in ClientJobs : In(recJobs', x) => In(recJobs, x),
           \A x, y \in ClientJobs : Precedes(recJobs', x, y) => Precedes(recJobs, x, y)
    PROVE  OneCall'
<1>1. Active' = Active /\ job'.intent = job.intent
  BY DEF Active, Quiet, Shrinks
<1>2. \A i \in ClientJobs : Awaits(i) <=> Awaits(i)'
  BY DEF Awaits, Quiet
<1>3. (sent => client # <<>> /\ Head(client) \in Intents)'
  BY DEF OneCall, Quiet
<1>4. \A i \in ClientJobs : In(recJobs', i) => Awaits(i)' /\ ~(Active' /\ job'.intent \in ClientJobs)
  BY <1>1, <1>2 DEF OneCall
<1>5. \A i, j \in ClientJobs : ~Precedes(recJobs', i, j)
  BY DEF OneCall
<1>6. (Active /\ job.intent \in ClientJobs => Awaits(job.intent))'
  BY <1>1 DEF OneCall, Awaits, Quiet
<1> QED BY <1>3, <1>4, <1>5, <1>6 DEF OneCall

LEMMA QuietKeepsReady ==
    ASSUME OneReady, Quiet, PostsLittle
    PROVE  OneReady'
<1>1. Active' = Active /\ job'.intent = job.intent
  BY DEF Active, Quiet, Shrinks
<1>2. In(recJobs', "NOTIFY_READY") => In(recJobs, "NOTIFY_READY")
  BY DEF PostsLittle, Intents
<1>3. \A i \in ClientJobs \cup {"NOTIFY_READY"} : ~Precedes(recJobs', i, "NOTIFY_READY")
  <2>1. ClientJobs \cup {"NOTIFY_READY"} \subseteq Intents
    BY DEF ClientJobs, Intents
  <2>2. "NOTIFY_READY" \in Intents \ {"NOTIFY_COMPLETE", "NOTIFY_ERROR"}
    BY DEF Intents
  <2> QED BY <2>1, <2>2 DEF OneReady, PostsLittle
<1>4. Active' /\ job'.intent \in (ClientJobs \cup {"NOTIFY_READY"}) \ {"PREPARE"} => ~In(recJobs', "NOTIFY_READY")
  BY <1>1, <1>2 DEF OneReady
<1>5. \A s \in PrepareKinds : Has(s)' => ~In(recJobs', "NOTIFY_READY")
  <2>1. \A s \in PrepareKinds : Has(s)' => Has(s)
    BY DEF Quiet, Shrinks, StepKinds
  <2> QED BY <1>2, <2>1 DEF OneReady
<1> QED BY <1>3, <1>4, <1>5 DEF OneReady

\* The file, the muxer and what is on its way to it move on, never back.
FileKeeps ==
    /\ mux.eos => mux'.eos
    /\ Covered => Covered'
    /\ headers' <= 1
    /\ AudioMoves' => AudioMoves
    /\ AudioRests => AudioRests'
    /\ VideoIdle => VideoIdle'
    /\ venc'.made = venc.made /\ (venc'.on => venc.on)
    /\ Primed' => Primed
    /\ Primed /\ ~mux.eos /\ VideoRests /\ QueueEmpty => QueueEmpty'
    /\ fst'["muxer"] = "INITIALIZED" => fst["muxer"] = "INITIALIZED"
    /\ readyEvents' = readyEvents

\* A job that stops takes a step only with what the step is for.
Stopping == CleansUp \/ Leaves("STOP") \/ Leaves("STOP_NOW")
JobKeeps ==
    /\ Stopping =>
        /\ job'.ok = job.ok
        /\ Has("stopCapture") \/ Has("endAudio") => Has("stopCapture")' \/ Has("endAudio")' \/ AudioRests'
        /\ Has("stopCamera") => Has("stopCamera")' \/ VideoIdle'
        /\ Has("endFile") => Has("endFile")' \/ mux'.eos
        /\ Has("stopFile") => Has("stopFile")'
        /\ fst["muxer"] = "INITIALIZED" => fst'["muxer"] = "INITIALIZED"
        /\ venc'.on /\ Has("stopVideo") => Has("stopVideo")'
    /\ Has("prepareFile") /\ Has("prepareAudio")' => Has("prepareFile")'
    /\ Starting => Starting'

LEMMA StopsAreKept ==
    ASSUME Quiet
    PROVE  /\ CleansUp' = CleansUp /\ Leaves("STOP")' = Leaves("STOP")
           /\ Leaves("STOP_NOW")' = Leaves("STOP_NOW")
           /\ Preparing' = Preparing
           /\ CleansOut' => CleansOut
           /\ CleansOut /\ (CleansUp => job'.ok = job.ok) => CleansOut'
<1>1. job'.phase = job.phase /\ job'.intent = job.intent /\ (job'.ok => job.ok)
      /\ UNCHANGED <<recState, seenState, client, sent, answer>>
  BY DEF Quiet, Shrinks
<1>2. /\ CleansUp' = CleansUp /\ Leaves("STOP")' = Leaves("STOP")
      /\ Leaves("STOP_NOW")' = Leaves("STOP_NOW")
  BY <1>1 DEF CleansUp, Leaves, Executing
<1>3. Preparing' = Preparing
  BY <1>1 DEF Preparing
<1>4. CleansOut' => CleansOut
  BY <1>1 DEF CleansOut, Executing
<1>5. CleansOut /\ (CleansUp => job'.ok = job.ok) => CleansOut'
  BY <1>1 DEF CleansOut, CleansUp, Executing
<1> QED BY <1>2, <1>3, <1>4, <1>5

LEMMA QuietKeepsChains ==
    ASSUME ChainsGrow, Quiet, FileKeeps
    PROVE  ChainsGrow'
  BY DEF ChainsGrow, Quiet, FileKeeps

LEMMA QuietKeepsCount ==
    ASSUME Counted, Quiet, FileKeeps, JobKeeps
    PROVE  Counted'
<1>1. Has("prepareAudio")' => Has("prepareAudio")
  BY DEF Quiet, Shrinks, StepKinds, PrepareKinds
<1> QED BY <1>1 DEF Counted, FileKeeps, JobKeeps

LEMMA QuietKeepsFit ==
    ASSUME ReadyMeansFit, Quiet, PostsLittle,
           venc.made => venc'.made,
           fst'["muxer"] = "INITIALIZED" => fst["muxer"] = "INITIALIZED"
    PROVE  ReadyMeansFit'
<1>1. GetsReady' => GetsReady
  <2>1. In(recJobs', "NOTIFY_READY") => In(recJobs, "NOTIFY_READY")
    BY DEF PostsLittle, Intents
  <2>2. (Executing("NOTIFY_READY") /\ job.ok)' => Executing("NOTIFY_READY") /\ job.ok
    BY DEF Executing, Quiet, Shrinks
  <2> QED BY <2>1, <2>2 DEF GetsReady
<1>2. VideoFits => VideoFits'
  BY DEF VideoFits, Quiet
<1>3. Preparing' = Preparing /\ recState' = recState
  BY StopsAreKept DEF Quiet
<1> QED BY <1>1, <1>2, <1>3 DEF ReadyMeansFit

LEMMA QuietKeepsRecordable ==
    ASSUME RecordableFits, Quiet,
           venc.made => venc'.made,
           CleansUp => job'.ok = job.ok,
           fst'["muxer"] = "INITIALIZED" => fst["muxer"] = "INITIALIZED"
    PROVE  RecordableFits'
<1>1. CleansOut => CleansOut'
  BY StopsAreKept
<1>2. VideoFits => VideoFits'
  BY DEF VideoFits, Quiet
<1>3. Has("stopVideo")' => Has("stopVideo")
  BY DEF Quiet, Shrinks, StepKinds, CleanKinds
<1>4. recState' = recState /\ built' = built
  BY DEF Quiet
<1> QED BY <1>1, <1>2, <1>3, <1>4 DEF RecordableFits

LEMMA QuietKeepsCleaning ==
    ASSUME CleaningUp, StepsBelong, Quiet, FileKeeps, JobKeeps
    PROVE  CleaningUp'
<1> USE StopsAreKept
<1>1. \A x \in {"stopCapture", "endAudio", "stopCamera", "endFile", "stopFile", "stopVideo"} : Has(x)' => Has(x)
  BY DEF Quiet, Shrinks, StepKinds, CleanKinds, DrainKinds
<1>2. VideoRests => VideoRests'
  BY DEF VideoRests, FileKeeps, Quiet
<1>3. VideoIdle' => VideoRests'
  BY DEF VideoRests
<1>4. AudioRests => AudioRests'
  BY DEF FileKeeps
<1>5. Has("stopFile") \/ Has("stopVideo") => CleansUp
  BY DEF StepsBelong, Belongs, StepKinds, CleanKinds
<1>6. (CleansUp \/ Leaves("STOP") =>
        /\ Has("stopCapture") \/ Has("endAudio") \/ AudioRests
        /\ Has("stopCamera") \/ VideoRests)'
  BY <1>1, <1>2, <1>3, <1>4 DEF CleaningUp, JobKeeps, Stopping
<1>7. (Leaves("STOP_NOW") => Has("endFile") \/ mux.eos)'
  BY <1>1 DEF CleaningUp, JobKeeps, FileKeeps, Stopping
<1>8. (CleansUp => /\ Has("stopFile") \/ fst["muxer"] = "INITIALIZED"
                   /\ job.intent = "NOTIFY_COMPLETE" /\ (Has("stopVideo") \/ Has("stopFile")) => job.ok)'
  <2>1. job'.intent = job.intent
    BY DEF Quiet, Shrinks
  <2> QED BY <1>1, <2>1 DEF CleaningUp, JobKeeps, Stopping
<1>9. (Has("stopFile") /\ venc.on => Has("stopVideo"))'
  BY <1>1, <1>5 DEF CleaningUp, JobKeeps, FileKeeps, Stopping
<1>10. (fst["muxer"] = "INITIALIZED" /\ venc.on => Has("stopVideo"))'
  BY <1>1, <1>5 DEF CleaningUp, JobKeeps, FileKeeps, Stopping
<1> QED BY <1>6, <1>7, <1>8, <1>9, <1>10 DEF CleaningUp

LEMMA QuietKeepsFile ==
    ASSUME RestsOutOfRecording, CoveredInRecording, PrimedRests, Quiet, FileKeeps, JobKeeps
    PROVE  RestsOutOfRecording' /\ CoveredInRecording' /\ PrimedRests' /\ RecordsOneFile'
<1> USE StopsAreKept
<1>1. recState' = recState
  BY DEF Quiet
<1>2. VideoRests => VideoRests'
  BY DEF VideoRests, FileKeeps, Quiet
<1>3. RestsOutOfRecording'
  BY <1>1, <1>2 DEF RestsOutOfRecording, FileKeeps
<1>4. CoveredInRecording'
  BY <1>1 DEF CoveredInRecording, FileKeeps, JobKeeps
<1>5. PrimedRests'
  BY <1>1, <1>2 DEF PrimedRests, FileKeeps, JobKeeps
<1> QED BY <1>3, <1>4, <1>5 DEF FileKeeps, RecordsOneFile

\* A step that only moves on keeps the invariant.
LEMMA QuietKeeps ==
    ASSUME RecSafe, Quiet, PostsLittle, FileKeeps, JobKeeps
    PROVE  RecSafe'
<1>1. StepsBelong' /\ StepsInOrder' /\ SeenInTime' /\ OkAccepted' /\ CallFits'
  BY QuietKeepsSteps DEF RecSafe
<1>2. OneCall' /\ OneReady'
  <2>1. \A x \in ClientJobs : x \in Intents \ {"NOTIFY_COMPLETE", "NOTIFY_ERROR"}
    BY DEF ClientJobs
  <2> QED BY <2>1, QuietKeepsCall, QuietKeepsReady DEF RecSafe, PostsLittle
<1>3. ChainsGrow' /\ Counted' /\ CleaningUp'
  BY QuietKeepsChains, QuietKeepsCount, QuietKeepsCleaning DEF RecSafe
<1>4. ReadyMeansFit'
  BY QuietKeepsFit DEF RecSafe, FileKeeps
<1>5. RecordableFits'
  BY QuietKeepsRecordable DEF RecSafe, FileKeeps, JobKeeps, Stopping
<1>6. RestsOutOfRecording' /\ CoveredInRecording' /\ PrimedRests' /\ RecordsOneFile'
  BY QuietKeepsFile DEF RecSafe
<1> QED BY <1>1, <1>2, <1>3, <1>4, <1>5, <1>6 DEF RecSafe

-----------------------------------------------------------------------------
(* The muxer.                                                              *)

\* What a call of the muxer keeps.
MuxKeeps ==
    /\ MuxTypes' /\ headers' \in Nat
    /\ mux.eos => mux'.eos
    /\ Covered => Covered'
    /\ headers' <= 1

\* A push writes a header to a file that has none, and ends nothing.
LEMMA PushIs ==
    ASSUME MuxTypes, headers \in Nat, RecordsOneFile, Covered \/ ~Works("muxer"),
           NEW port, NEW kind, MuxerPush(port, kind)
    PROVE  MuxKeeps /\ recJobs' = recJobs
<1>1. CASE ~MuxerTakes
  <2>1. UNCHANGED <<mux, headers, recJobs>>
    BY <1>1 DEF MuxerPush
  <2> QED BY <2>1 DEF MuxKeeps, MuxTypes, Covered, RecordsOneFile
<1>2. CASE MuxerTakes
  <2> DEFINE tracks == IF kind = "eos" THEN Ended(port) ELSE mux.tracks
             cnt == IF kind = "eos" THEN EosCount(tracks) ELSE mux.cnt
  <2>1. /\ mux' = [mux EXCEPT !.header = TRUE, !.tracks = tracks, !.cnt = cnt]
        /\ headers' = headers + (IF mux.header THEN 0 ELSE 1)
        /\ recJobs' = recJobs
    BY <1>2 DEF MuxerPush
  <2> HIDE DEF tracks, cnt
  <2>2. mux'.eos = mux.eos /\ mux'.header = TRUE /\ DOMAIN mux' = DOMAIN mux
    BY <2>1 DEF MuxTypes
  <2>3. Covered /\ ~mux.eos
    BY <1>2 DEF MuxerTakes
  <2>4. headers' \in Nat /\ headers' <= 1
    BY <2>1, <2>3 DEF Covered, RecordsOneFile, MuxTypes
  <2>5. Covered'
    BY <2>2 DEF Covered
  <2> QED BY <2>1, <2>2, <2>4, <2>5 DEF MuxKeeps, MuxTypes
<1> QED BY <1>1, <1>2

\* The end of the file is reported, and the muxer takes nothing more.
LEMMA SendEosIs ==
    ASSUME MuxTypes, headers \in Nat, RecordsOneFile, recJobs \in Seq(Intents), MuxerSendEos
    PROVE  MuxKeeps /\ mux'.eos /\ PostsLittle
<1>1. mux'.eos = TRUE /\ mux'.header = FALSE /\ DOMAIN mux' = DOMAIN mux /\ headers' = headers
  BY DEF MuxerSendEos, MuxTypes
<1>2. PostsLittle
  BY PostsIs DEF MuxerSendEos
<1> QED BY <1>1, <1>2 DEF MuxKeeps, MuxTypes, Covered, RecordsOneFile

LEMMA ChecksIs ==
    ASSUME MuxTypes, headers \in Nat, RecordsOneFile, recJobs \in Seq(Intents), MuxerChecks
    PROVE  MuxKeeps /\ PostsLittle
<1>1. CASE AllTracksEos(mux)
  BY <1>1, SendEosIs DEF MuxerChecks
<1>2. CASE ~AllTracksEos(mux)
  <2>1. UNCHANGED <<mux, recJobs, headers>>
    BY <1>2 DEF MuxerChecks, fileVars
  <2> QED BY <2>1, PostsIs DEF MuxKeeps, MuxTypes, Covered, RecordsOneFile
<1> QED BY <1>1, <1>2

LEMMA FileStays ==
    ASSUME MuxTypes, headers \in Nat, RecordsOneFile, recJobs \in Seq(Intents), UNCHANGED fileVars
    PROVE  MuxKeeps /\ PostsLittle
<1>1. UNCHANGED <<mux, recJobs, headers>>
  BY DEF fileVars
<1> QED BY <1>1, PostsIs DEF MuxKeeps, MuxTypes, Covered, RecordsOneFile

\* Who still pushes finds a file that may have its header.
LEMMA MoversAreCovered ==
    ASSUME PrimedRests
    PROVE  /\ AudioMoves /\ ~acap.eos /\ ~mux.eos => Covered \/ ~Works("muxer")
           /\ ~QueueEmpty /\ ~mux.eos => Covered \/ ~Works("muxer")
  BY DEF PrimedRests, Primed, AudioRests

-----------------------------------------------------------------------------
(* The threads of the recording.                                           *)

LEMMA ThreadKeeps ==
    ASSUME RecInv, UNCHANGED <<fsmVars, clientVars, recPipeVars>>, MuxKeeps, PostsLittle,
           acap' \in CaptureStates, vcap' \in CaptureStates, venc' \in EncoderStates,
           AudioMoves' => AudioMoves, AudioRests => AudioRests', VideoIdle => VideoIdle',
           venc'.made = venc.made, venc'.on = venc.on,
           Primed /\ ~mux.eos /\ VideoRests /\ QueueEmpty => QueueEmpty'
    PROVE  RecInv'
<1>1. UNCHANGED <<recState, seenState, pendingJobs, job, client, sent, answer, built, linked,
                  fst, pipe, readyEvents>>
  BY DEF fsmVars, clientVars, recPipeVars
<1>2. Shrinks /\ \A x \in StepKinds : Has(x)' <=> Has(x)
  BY <1>1, JobStays DEF RecInv, RecTypes, MachineTypes, RecSafe
<1>3. Quiet
  BY <1>1, <1>2 DEF Quiet
<1>4. MachineTypes' /\ CallTypes'
  BY <1>1 DEF RecInv, RecTypes, MachineTypes, CallTypes, PostsLittle
<1>5. FileTypes'
  BY <1>1 DEF RecInv, RecTypes, FileTypes, MuxKeeps
<1>6. Starting' = Starting /\ job'.ok = job.ok
  BY <1>1 DEF Starting
<1>7. JobKeeps
  BY <1>1, <1>2, <1>6 DEF JobKeeps, StepKinds, CleanKinds, DrainKinds, PrepareKinds
<1>8. Primed' => Primed
  BY <1>1 DEF Primed, MuxKeeps, Works
<1>9. FileKeeps
  BY <1>1, <1>8 DEF FileKeeps, MuxKeeps
<1>10. RecSafe'
  BY <1>3, <1>7, <1>9, QuietKeeps DEF RecInv
<1> QED BY <1>4, <1>5, <1>10 DEF RecInv, RecTypes

\* What a thread may rely on.
LEMMA ThreadTypes ==
    ASSUME RecInv
    PROVE  /\ MuxTypes /\ headers \in Nat /\ RecordsOneFile /\ recJobs \in Seq(Intents)
           /\ acap \in CaptureStates /\ vcap \in CaptureStates /\ venc \in EncoderStates
           /\ PrimedRests /\ ChainsGrow
  BY DEF RecInv, RecTypes, MachineTypes, FileTypes, RecSafe

LEMMA ReadsKeep ==
    ASSUME RecInv, ReadAudio \/ ReadVideo \/ EndAudio
    PROVE  RecInv'
<1> USE ThreadTypes
<1>1. UNCHANGED <<fsmVars, clientVars, recPipeVars, fileVars, venc>>
  BY DEF ReadAudio, ReadVideo, EndAudio
<1>2. MuxKeeps /\ PostsLittle
  BY <1>1, FileStays
<1>3. venc' = venc /\ QueueEmpty' = QueueEmpty
  BY <1>1 DEF QueueEmpty
<1>4. CASE ReadAudio
  <2>1. /\ vcap' = vcap /\ acap.run /\ acap.at = "idle" /\ ~acap.eos
        /\ acap' \in {[acap EXCEPT !.at = "frame"], [acap EXCEPT !.at = "eos"]}
    BY <1>4 DEF ReadAudio
  <2>2. acap' \in CaptureStates /\ AudioMoves /\ ~AudioRests
    BY <2>1 DEF CaptureStates, AudioMoves, AudioRests
  <2>3. VideoIdle' = VideoIdle
    BY <2>1 DEF VideoIdle
  <2> QED BY <1>1, <1>2, <1>3, <2>1, <2>2, <2>3, ThreadKeeps
<1>5. CASE ReadVideo
  <2>1. acap' = acap /\ vcap.run /\ vcap' = [vcap EXCEPT !.at = "frame"]
    BY <1>5 DEF ReadVideo
  <2>2. vcap' \in CaptureStates /\ ~VideoIdle
    BY <2>1 DEF CaptureStates, VideoIdle
  <2>3. AudioMoves' = AudioMoves /\ AudioRests' = AudioRests
    BY <2>1 DEF AudioMoves, AudioRests
  <2> QED BY <1>1, <1>2, <1>3, <2>1, <2>2, <2>3, ThreadKeeps
<1>6. CASE EndAudio
  <2>1. vcap' = vcap /\ acap' = [acap EXCEPT !.at = "idle", !.eos = TRUE] /\ acap.at = "done"
    BY <1>6 DEF EndAudio
  <2>2. acap' \in CaptureStates /\ AudioRests' /\ (AudioMoves' => AudioMoves)
    BY <2>1 DEF CaptureStates, AudioMoves, AudioRests
  <2>3. VideoIdle' = VideoIdle
    BY <2>1 DEF VideoIdle
  <2> QED BY <1>1, <1>2, <1>3, <2>1, <2>2, <2>3, ThreadKeeps
<1> QED BY <1>4, <1>5, <1>6

LEMMA PushAudioKeeps ==
    ASSUME RecInv, PushAudio
    PROVE  RecInv'
<1> USE ThreadTypes
<1>1. UNCHANGED <<fsmVars, clientVars, recPipeVars, vcap, venc>> /\ acap.at \in {"frame", "eos"}
  BY DEF PushAudio
<1>2. AudioMoves
  BY <1>1 DEF AudioMoves
<1>3. MuxKeeps /\ PostsLittle
  <2>1. CASE acap.eos \/ ~Works("aenc")
    <3>1. UNCHANGED fileVars
      BY <2>1 DEF PushAudio
    <3> QED BY <3>1, FileStays
  <2>2. CASE ~acap.eos /\ Works("aenc") /\ ~mux.eos
    <3>1. MuxerPush("audio", acap.at) /\ (Covered \/ ~Works("muxer"))
      BY <1>2, <2>2, MoversAreCovered DEF PushAudio
    <3>2. MuxKeeps /\ recJobs' = recJobs
      BY <3>1, PushIs
    <3> QED BY <3>2, PostsIs
  <2>3. CASE ~acap.eos /\ Works("aenc") /\ mux.eos
    <3>1. MuxerPush("audio", acap.at) /\ Covered
      BY <2>3 DEF PushAudio, Covered
    <3>2. MuxKeeps /\ recJobs' = recJobs
      BY <3>1, PushIs
    <3> QED BY <3>2, PostsIs
  <2> QED BY <2>1, <2>2, <2>3
<1>4. \E to \in {"idle", "last", "check", "done"} : acap' = [acap EXCEPT !.at = to]
  BY DEF PushAudio
<1>5. acap' \in CaptureStates /\ (AudioMoves' => AudioMoves) /\ (AudioRests => AudioRests')
  BY <1>4 DEF CaptureStates, AudioMoves, AudioRests
<1>6. VideoIdle' = VideoIdle /\ QueueEmpty' = QueueEmpty
  BY <1>1 DEF VideoIdle, QueueEmpty
<1> QED BY <1>1, <1>3, <1>5, <1>6, ThreadKeeps

LEMMA AudioChecksKeep ==
    ASSUME RecInv, CheckAudio
    PROVE  RecInv'
<1> USE ThreadTypes
<1>1. UNCHANGED <<fsmVars, clientVars, recPipeVars, vcap, venc>> /\ MuxerChecks
  BY DEF CheckAudio
<1>2. MuxKeeps /\ PostsLittle
  BY <1>1, ChecksIs
<1>3. \E to \in {"idle", "done"} : acap' = [acap EXCEPT !.at = to]
  BY DEF CheckAudio
<1>4. acap' \in CaptureStates /\ (AudioMoves' => AudioMoves) /\ (AudioRests => AudioRests')
  BY <1>3 DEF CaptureStates, AudioMoves, AudioRests
<1>5. VideoIdle' = VideoIdle /\ QueueEmpty' = QueueEmpty
  BY <1>1 DEF VideoIdle, QueueEmpty
<1> QED BY <1>1, <1>2, <1>4, <1>5, ThreadKeeps

LEMMA PushVideoKeeps ==
    ASSUME RecInv, PushVideo
    PROVE  RecInv'
<1> USE ThreadTypes
<1>1. UNCHANGED <<fsmVars, clientVars, recPipeVars, fileVars, acap>> /\ vcap.at = "frame"
      /\ vcap' = [vcap EXCEPT !.at = "idle"]
  BY DEF PushVideo
<1>2. MuxKeeps /\ PostsLittle
  BY <1>1, FileStays
<1>3. venc' = venc \/ venc' = [venc EXCEPT !.queue = Append(@, "frame")]
  BY DEF PushVideo, EncoderGets
<1>4. venc' \in EncoderStates /\ venc'.made = venc.made /\ venc'.on = venc.on
  <2>1. venc.queue \in Seq({"frame", "eos"})
    BY DEF EncoderStates
  <2>2. Append(venc.queue, "frame") \in Seq({"frame", "eos"})
    BY <2>1, AppendProperties
  <2> QED BY <1>3, <2>2 DEF EncoderStates
<1>5. vcap' \in CaptureStates /\ ~VideoIdle
  BY <1>1 DEF CaptureStates, VideoIdle
<1>6. VideoRests => QueueEmpty'
  BY <1>4, <1>5 DEF VideoRests, QueueEmpty, ChainsGrow
<1>7. AudioMoves' = AudioMoves /\ AudioRests' = AudioRests
  BY <1>1 DEF AudioMoves, AudioRests
<1> QED BY <1>1, <1>2, <1>4, <1>5, <1>6, <1>7, ThreadKeeps

LEMMA FinishKeeps ==
    ASSUME RecInv, FinishFrame \/ FinishCheck
    PROVE  RecInv'
<1> USE ThreadTypes
<1>1. UNCHANGED <<fsmVars, clientVars, recPipeVars, acap, vcap>>
  BY DEF FinishFrame, FinishCheck
<1>2. VideoIdle' = VideoIdle /\ AudioMoves' = AudioMoves /\ AudioRests' = AudioRests
  BY <1>1 DEF VideoIdle, AudioMoves, AudioRests
<1>3. CASE FinishFrame
  <2>1. /\ venc.on /\ venc.queue # <<>> /\ MuxerPush("video", Head(venc.queue))
        /\ venc' = [venc EXCEPT !.queue = Tail(venc.queue), !.at = IF Checks THEN "check" ELSE "idle"]
    BY <1>3 DEF FinishFrame
  <2>2. Tail(venc.queue) \in Seq({"frame", "eos"})
    BY <2>1, HeadTailProperties DEF EncoderStates
  <2>3. venc' \in EncoderStates /\ venc'.made = venc.made /\ venc'.on = venc.on
    BY <2>1, <2>2 DEF EncoderStates
  <2>4. ~QueueEmpty
    BY <2>1 DEF QueueEmpty
  <2>5. Covered \/ ~Works("muxer")
    BY <2>4, MoversAreCovered DEF Covered
  <2>6. MuxKeeps /\ recJobs' = recJobs
    BY <2>1, <2>5, PushIs
  <2>7. PostsLittle
    BY <2>6, PostsIs
  <2> QED BY <1>1, <1>2, <2>3, <2>4, <2>6, <2>7, ThreadKeeps
<1>4. CASE FinishCheck
  <2>1. MuxerChecks /\ venc' = [venc EXCEPT !.at = "idle"]
    BY <1>4 DEF FinishCheck
  <2>2. venc' \in EncoderStates /\ venc'.made = venc.made /\ venc'.on = venc.on /\ QueueEmpty' = QueueEmpty
    BY <2>1 DEF EncoderStates, QueueEmpty
  <2>3. MuxKeeps /\ PostsLittle
    BY <2>1, ChecksIs
  <2> QED BY <1>1, <1>2, <2>2, <2>3, ThreadKeeps
<1> QED BY <1>3, <1>4

-----------------------------------------------------------------------------
(* The steps of a job that only move on.                                   *)

\* A step that belongs to a job that stops, or to the entry of a state.
LEMMA StepKeeps ==
    ASSUME RecInv, Mid, NEW step \in StepKinds, Performs(step), step \notin {"startFile", "stopFile", "prepareFile"},
           Shrinks, MuxKeeps, PostsLittle,
           acap' \in CaptureStates, vcap' \in CaptureStates, venc' \in EncoderStates,
           fst' \in [RecFilters -> RecFilterStates], readyEvents' = readyEvents,
           \/ ~Stopping /\ ~Executing("PREPARE")
           \/ /\ job'.ok = job.ok
              /\ \A x \in StepKinds : Has(x) /\ x # step /\ x # "checkAudio" => Has(x)',
           AudioMoves' => AudioMoves, AudioRests => AudioRests', VideoIdle => VideoIdle',
           step \in {"stopCapture", "endAudio"} => AudioRests',
           step = "stopCamera" => VideoIdle',
           step = "endFile" => mux'.eos,
           venc'.made = venc.made, venc'.on => venc.on, step = "stopVideo" => ~venc'.on,
           Primed' => Primed,
           Primed /\ ~mux.eos /\ VideoRests /\ QueueEmpty => QueueEmpty',
           fst'["muxer"] = "INITIALIZED" => fst["muxer"] = "INITIALIZED",
           Stopping /\ fst["muxer"] = "INITIALIZED" => fst'["muxer"] = "INITIALIZED"
    PROVE  RecInv'
<1>1. UNCHANGED <<recState, seenState, pendingJobs, client, sent, answer, built, linked>>
  BY DEF Mid
<1>2. Quiet
  BY <1>1 DEF Quiet
<1>3. MachineTypes' /\ CallTypes'
  BY <1>1 DEF RecInv, RecTypes, MachineTypes, CallTypes, PostsLittle, Shrinks
<1>4. FileTypes'
  BY DEF RecInv, RecTypes, FileTypes, MuxKeeps
<1>5. ~Starting
  BY DEF Starting, Performs, Step
<1>6. Has("prepareFile") => Executing("PREPARE")
  BY DEF RecInv, RecSafe, StepsBelong, Belongs, StepKinds, PrepareKinds
<1>7. Has("prepareFile") /\ Has("prepareAudio")' => Has("prepareFile")'
  BY <1>6 DEF StepKinds, PrepareKinds, Shrinks, RecInv, RecSafe, StepsBelong, Stopping, CleansUp, Leaves, Executing
<1>8. ASSUME Stopping
      PROVE  /\ job'.ok = job.ok
             /\ Has("stopCapture") \/ Has("endAudio") => Has("stopCapture")' \/ Has("endAudio")' \/ AudioRests'
             /\ Has("stopCamera") => Has("stopCamera")' \/ VideoIdle'
             /\ Has("endFile") => Has("endFile")' \/ mux'.eos
             /\ Has("stopFile") => Has("stopFile")'
             /\ venc'.on /\ Has("stopVideo") => Has("stopVideo")'
  BY <1>8 DEF StepKinds, CleanKinds, DrainKinds
<1>9. JobKeeps
  BY <1>5, <1>7, <1>8 DEF JobKeeps
<1>10. FileKeeps
  BY DEF FileKeeps, MuxKeeps
<1>11. RecSafe'
  BY <1>2, <1>9, <1>10, QuietKeeps DEF RecInv
<1> QED BY <1>3, <1>4, <1>11 DEF RecInv, RecTypes

\* A step that advances, of a job that is well typed.
LEMMA StepAdvances ==
    ASSUME RecInv, NEW step \in StepKinds, Performs(step), Advances
    PROVE  /\ Shrinks /\ job'.ok = job.ok /\ Active /\ Has(step) /\ Belongs(step)
           /\ \A x \in StepKinds : Has(x) /\ x # step => Has(x)'
           /\ \A x \in StepKinds : Has(x)' => Precedes(job.steps, step, x)
  BY AdvanceIs DEF RecInv, RecTypes, MachineTypes, RecSafe, StepsBelong

LEMMA StepGives ==
    ASSUME RecInv, NEW step \in StepKinds, Performs(step), Gives
    PROVE  /\ Shrinks /\ job'.ok = FALSE /\ Active /\ Has(step) /\ Belongs(step)
           /\ \A x \in StepKinds : Has(x)' => x = "forget"
  BY GivesIs DEF RecInv, RecTypes, MachineTypes, RecSafe, StepsBelong

LEMMA StepTypes ==
    ASSUME RecInv
    PROVE  /\ acap \in CaptureStates /\ vcap \in CaptureStates /\ venc \in EncoderStates
           /\ fst \in [RecFilters -> RecFilterStates]
           /\ MuxTypes /\ headers \in Nat /\ RecordsOneFile /\ recJobs \in Seq(Intents)
  BY DEF RecInv, RecTypes, MachineTypes, FileTypes, RecSafe

LEMMA SimpleStepsKeep ==
    ASSUME RecInv, Resumed \/ StopEncoder \/ Forget
    PROVE  RecInv'
<1> USE StepTypes
<1>1. UNCHANGED <<readyEvents, fileVars, acap, vcap, venc>> /\ Mid /\ Advances
      /\ (fst' = fst \/ fst' = [fst EXCEPT !["aenc"] = "INITIALIZED"])
  BY DEF Resumed, StopEncoder, Forget, recPipeVars
<1>2. PICK step \in {"resumed", "stopEncoder", "forget"} : Performs(step)
  BY DEF Resumed, StopEncoder, Forget
<1>3. step \in StepKinds
  BY DEF StepKinds, StartKinds, CleanKinds
<1>4. /\ Shrinks /\ job'.ok = job.ok
      /\ \A x \in StepKinds : Has(x) /\ x # step => Has(x)'
  BY <1>1, <1>2, <1>3, StepAdvances
<1>5. MuxKeeps /\ PostsLittle
  BY <1>1, FileStays
<1>6. fst' \in [RecFilters -> RecFilterStates] /\ fst'["muxer"] = fst["muxer"]
  BY <1>1 DEF RecFilters, RecFilterStates
<1>7. AudioMoves' = AudioMoves /\ AudioRests' = AudioRests /\ VideoIdle' = VideoIdle /\ QueueEmpty' = QueueEmpty
  BY <1>1 DEF AudioMoves, AudioRests, VideoIdle, QueueEmpty
<1>8. Primed' => Primed
  BY <1>6, <1>5 DEF Primed, Works, MuxKeeps
<1> QED BY <1>1, <1>2, <1>3, <1>4, <1>5, <1>6, <1>7, <1>8, StepKeeps

LEMMA PauseFileKeeps ==
    ASSUME RecInv, PauseFile
    PROVE  RecInv'
<1> USE StepTypes
<1>1. UNCHANGED <<readyEvents, fileVars, acap, vcap, venc>> /\ Mid /\ Performs("pauseFile")
  BY DEF PauseFile
<1>2. "pauseFile" \in StepKinds
  BY DEF StepKinds, PauseKinds
<1>3. Advances \/ Gives \/ job' = [job EXCEPT !.steps = <<>>]
  BY DEF PauseFile
<1>4. job \in Jobs
  BY DEF RecInv, RecTypes, MachineTypes
<1>5. Shrinks
  <2>1. CASE job' = [job EXCEPT !.steps = <<>>]
    <3>1. <<>> \in Seq(StepKinds)
      BY <1>2, Tuples
    <3>2. job' \in Jobs /\ job'.phase = job.phase /\ job'.intent = job.intent /\ job'.ok = job.ok /\ job'.steps = <<>>
      BY <1>4, <2>1, <3>1 DEF Jobs
    <3>3. \A x : ~In(<<>>, x)
      BY DEF In
    <3>4. Ordered(<<>>)
      BY <3>3, Unordered
    <3>5. StepsInOrder' /\ \A x \in StepKinds : ~Has(x)'
      BY <3>2, <3>3, <3>4 DEF StepsInOrder, Has
    <3> QED BY <3>2, <3>5 DEF Shrinks
  <2> QED BY <1>1, <1>2, <1>3, <2>1, StepAdvances, StepGives
<1>6. Belongs("pauseFile")
  <2>1. Has("pauseFile")
    <3>1. job.steps \in Seq(StepKinds) /\ job.steps # <<>> /\ Head(job.steps) = "pauseFile"
      BY <1>1, <1>4 DEF Jobs, Performs, Step
    <3> QED BY <3>1, TailIn DEF Has
  <2> QED BY <1>2, <2>1 DEF RecInv, RecSafe, StepsBelong
<1>7. job.phase = "enter" /\ recState = "PAUSE"
  BY <1>6 DEF Belongs, PauseKinds
<1>8. ~Stopping /\ ~Executing("PREPARE")
  BY <1>7 DEF Stopping, CleansUp, Leaves, Executing
<1>9. MuxKeeps /\ PostsLittle
  BY <1>1, FileStays
<1>10. fst' = fst \/ fst' = [fst EXCEPT !["sink"] = "PAUSED", !["muxer"] = "PAUSED"]
  BY DEF PauseFile
<1>11. fst' \in [RecFilters -> RecFilterStates] /\ (fst'["muxer"] = fst["muxer"] \/ fst'["muxer"] = "PAUSED")
  BY <1>10 DEF RecFilters, RecFilterStates
<1>12. AudioMoves' = AudioMoves /\ AudioRests' = AudioRests /\ VideoIdle' = VideoIdle /\ QueueEmpty' = QueueEmpty
  BY <1>1 DEF AudioMoves, AudioRests, VideoIdle, QueueEmpty
<1>13. Covered
  <2>1. ~Starting
    BY <1>1 DEF Starting, Performs, Step
  <2> QED BY <1>7, <2>1 DEF RecInv, RecSafe, CoveredInRecording
<1>14. Primed' => Primed
  BY <1>9, <1>11, <1>13 DEF Primed, MuxKeeps
<1> QED BY <1>1, <1>2, <1>5, <1>8, <1>9, <1>11, <1>12, <1>14, StepKeeps

LEMMA PauseChainKeeps ==
    ASSUME RecInv, NEW s \in RecStreams, PauseChain(s)
    PROVE  RecInv'
<1> USE StepTypes
<1>1. s \in {"audio", "video"}
  BY RecorderAssumption
<1>2. UNCHANGED <<readyEvents, fileVars, venc>> /\ Mid /\ Advances
      /\ fst' = [fst EXCEPT ![Encoder(s)] = "PAUSED"]
  BY DEF PauseChain
<1>3. PICK step \in {"pauseAudio", "pauseVideo"} : Performs(step)
  BY DEF PauseChain
<1>4. step \in StepKinds
  BY DEF StepKinds, PauseKinds
<1>5. /\ Shrinks /\ job'.ok = job.ok
      /\ \A x \in StepKinds : Has(x) /\ x # step => Has(x)'
  BY <1>2, <1>3, <1>4, StepAdvances
<1>6. MuxKeeps /\ PostsLittle
  BY <1>2, FileStays
<1>7. fst' \in [RecFilters -> RecFilterStates] /\ fst'["muxer"] = fst["muxer"]
  BY <1>1, <1>2 DEF RecFilters, RecFilterStates, Encoder
<1>8. (acap' = acap \/ acap' = [acap EXCEPT !.run = FALSE]) /\ (vcap' = vcap \/ vcap' = [vcap EXCEPT !.run = FALSE])
  BY DEF PauseChain
<1>9. acap' \in CaptureStates /\ vcap' \in CaptureStates
  BY <1>8 DEF CaptureStates
<1>10. (AudioMoves' => AudioMoves) /\ (AudioRests => AudioRests') /\ (VideoIdle => VideoIdle')
  BY <1>8 DEF AudioMoves, AudioRests, VideoIdle, CaptureStates
<1>11. QueueEmpty' = QueueEmpty
  BY <1>2 DEF QueueEmpty
<1>12. Primed' => Primed
  BY <1>6, <1>7 DEF Primed, MuxKeeps, Works
<1> QED BY <1>2, <1>3, <1>4, <1>5, <1>6, <1>7, <1>9, <1>10, <1>11, <1>12, StepKeeps

LEMMA StopCaptureKeeps ==
    ASSUME RecInv, StopCapture
    PROVE  RecInv'
<1> USE StepTypes
<1>1. UNCHANGED <<fst, readyEvents, fileVars, venc>> /\ Mid /\ Advances
  BY DEF StopCapture, recPipeVars
<1>2. PICK step \in {"stopCapture", "stopCamera"} :
         /\ Performs(step)
         /\ step = "stopCapture" => acap.at = "idle" /\ acap' = [acap EXCEPT !.run = FALSE] /\ vcap' = vcap
         /\ step = "stopCamera" => vcap.at = "idle" /\ vcap' = [vcap EXCEPT !.run = FALSE] /\ acap' = acap
  BY DEF StopCapture
<1>3. step \in StepKinds
  BY DEF StepKinds, CleanKinds
<1>4. /\ Shrinks /\ job'.ok = job.ok
      /\ \A x \in StepKinds : Has(x) /\ x # step => Has(x)'
  BY <1>1, <1>2, <1>3, StepAdvances
<1>5. MuxKeeps /\ PostsLittle
  BY <1>1, FileStays
<1>6. acap' \in CaptureStates /\ vcap' \in CaptureStates
  BY <1>2 DEF CaptureStates
<1>7. (AudioMoves' => AudioMoves) /\ (AudioRests => AudioRests') /\ (VideoIdle => VideoIdle')
  BY <1>2 DEF AudioMoves, AudioRests, VideoIdle, CaptureStates
<1>8. (step = "stopCapture" => AudioRests') /\ (step = "stopCamera" => VideoIdle')
  BY <1>2 DEF AudioMoves, AudioRests, VideoIdle, CaptureStates
<1>9. QueueEmpty' = QueueEmpty
  BY <1>1 DEF QueueEmpty
<1>10. Primed' => Primed
  BY <1>1, <1>5 DEF Primed, MuxKeeps, Works
<1> QED BY <1>1, <1>2, <1>3, <1>4, <1>5, <1>6, <1>7, <1>8, <1>9, <1>10, StepKeeps

\* A recording that is stopped is not about to begin.
LEMMA LeavingIsNotPrimed ==
    ASSUME RecInv, NEW step \in DrainKinds, Performs(step), Has(step)
    PROVE  ~Primed /\ (Covered \/ ~Works("muxer"))
<1>1. Belongs(step)
  BY DEF RecInv, RecSafe, StepsBelong, StepKinds
<1>2. Leaves("STOP") /\ Active
  BY <1>1 DEF Belongs
<1>3. ~Starting
  <2>1. step # "startFile" /\ step # "none"
    BY DEF DrainKinds
  <2> QED BY <2>1 DEF Starting, Performs, Step
<1>4. Awaits("STOP")
  <2>1. "STOP" \in ClientJobs
    BY DEF ClientJobs, Intents
  <2> QED BY <1>2, <2>1 DEF RecInv, RecSafe, OneCall, Leaves, Executing
<1>5. ~Preparing
  BY <1>4 DEF Awaits, Preparing
<1>6. ~Primed
  BY <1>2, <1>3, <1>5 DEF RecInv, RecSafe, PrimedRests, Leaves
<1> QED BY <1>6 DEF Primed

LEMMA EosStepsKeep ==
    ASSUME RecInv, EosAudio \/ EosChecks \/ EosSent
    PROVE  RecInv'
<1> USE StepTypes
<1>1. UNCHANGED <<fst, readyEvents, vcap, venc>> /\ Mid
  BY DEF EosAudio, EosChecks, EosSent, recPipeVars
<1>2. PICK step \in {"eosAudio", "checkAudio", "endAudio"} :
        /\ Performs(step)
        /\ step = "eosAudio" => EosAudio
        /\ step = "checkAudio" => EosChecks
        /\ step = "endAudio" => EosSent
  BY DEF EosAudio, EosChecks, EosSent
<1>3. step \in StepKinds /\ step \in DrainKinds
  BY DEF StepKinds, DrainKinds
<1>4. job \in Jobs /\ job.steps \in Seq(StepKinds)
  BY DEF RecInv, RecTypes, MachineTypes, Jobs
<1>5. job.steps # <<>> /\ Head(job.steps) = step
  BY <1>2 DEF Performs, Step
<1>6. Has(step)
  BY <1>4, <1>5, TailIn DEF Has
<1>7. ~Primed /\ (Covered \/ ~Works("muxer"))
  BY <1>2, <1>3, <1>6, LeavingIsNotPrimed
<1>8. Advances \/ (step = "eosAudio" /\ job' = [job EXCEPT !.steps = Tail(Tail(@))])
  BY <1>2 DEF EosAudio, EosChecks, EosSent, Advances
<1>9. /\ Shrinks /\ job'.ok = job.ok
      /\ \A x \in StepKinds : Has(x) /\ x # step /\ x # "checkAudio" => Has(x)'
  <2>1. CASE Advances
    BY <1>2, <1>3, <2>1, StepAdvances
  <2>2. CASE step = "eosAudio" /\ job' = [job EXCEPT !.steps = Tail(Tail(@))]
    <3> DEFINE s == job.steps
               t == Tail(s)
               u == Tail(t)
    <3>1. t \in Seq(StepKinds) /\ t # <<>> /\ Head(t) = "checkAudio"
      <4>1. /\ t \in Seq(StepKinds) /\ Len(t) = Len(s) - 1 /\ Len(s) \in Nat \ {0}
            /\ \A i \in 1 .. Len(t) : t[i] = s[i + 1]
        BY <1>4, <1>5, HeadTailProperties, EmptySeq
      <4>2. s[1] = "eosAudio" /\ DOMAIN s = 1 .. Len(s)
        BY <1>4, <1>5, <2>2, LenProperties, HeadTailProperties
      <4>3. Follows(s, "eosAudio", "checkAudio")
        BY DEF RecInv, RecSafe, StepsInOrder, Ordered
      <4> HIDE DEF s, t
      <4>4. 1 \in DOMAIN s
        BY <4>1, <4>2
      <4>5. 1 + 1 \in DOMAIN s /\ s[1 + 1] = "checkAudio"
        BY <4>2, <4>3, <4>4 DEF Follows
      <4>6. Len(t) # 0 /\ 1 \in 1 .. Len(t)
        BY <4>1, <4>2, <4>5
      <4>7. t # <<>> /\ t[1] = "checkAudio"
        BY <4>1, <4>5, <4>6, EmptySeq
      <4> QED BY <4>1, <4>7, HeadTailProperties
    <3>2. u \in Seq(StepKinds)
      BY <3>1, HeadTailProperties
    <3>3. /\ job' \in Jobs /\ job'.phase = job.phase /\ job'.intent = job.intent /\ job'.ok = job.ok
          /\ job'.steps = u
      BY <1>4, <2>2, <3>2 DEF Jobs
    <3>4. s \in Seq(StepKinds) /\ s # <<>> /\ Head(s) = "eosAudio" /\ Ordered(s)
      BY <1>4, <1>5, <2>2 DEF RecInv, RecSafe, StepsInOrder
    <3> HIDE DEF u
    <3>6. \A x : /\ In(u, x) => In(t, x)
                 /\ In(t, x) => x = "checkAudio" \/ In(u, x)
      BY <3>1, TailIn DEF u
    <3>7. \A x, y : /\ Precedes(u, x, y) => Precedes(t, x, y)
                    /\ Follows(t, x, y) => Follows(u, x, y)
      BY <3>1, TailOrder DEF u
    <3> HIDE DEF t
    <3>8. \A x : /\ In(t, x) => In(s, x)
                 /\ In(s, x) => x = "eosAudio" \/ In(t, x)
      BY <3>4, TailIn DEF t
    <3>9. \A x, y : /\ Precedes(t, x, y) => Precedes(s, x, y)
                    /\ Follows(s, x, y) => Follows(t, x, y)
      BY <3>4, TailOrder DEF t
    <3>10. Ordered(u)
      BY <3>4, <3>7, <3>9 DEF Ordered
    <3>11. StepsInOrder'
      BY <3>3, <3>10 DEF StepsInOrder
    <3>12. /\ \A x \in StepKinds : Has(x)' => Has(x)
           /\ \A x \in StepKinds : Has(x) /\ x # step /\ x # "checkAudio" => Has(x)'
      BY <2>2, <3>3, <3>6, <3>8 DEF Has, s
    <3> QED BY <3>3, <3>11, <3>12 DEF Shrinks
  <2> QED BY <1>8, <2>1, <2>2
<1>10. MuxKeeps /\ PostsLittle
  <2>1. CASE step = "eosAudio"
    <3>1. UNCHANGED fileVars \/ MuxerPush("audio", "eos")
      BY <1>2, <2>1 DEF EosAudio
    <3>2. CASE UNCHANGED fileVars
      BY <3>2, FileStays
    <3>3. CASE MuxerPush("audio", "eos")
      <4>1. MuxKeeps /\ recJobs' = recJobs
        BY <1>7, <3>3, PushIs
      <4> QED BY <4>1, PostsIs
    <3> QED BY <3>1, <3>2, <3>3
  <2>2. CASE step = "checkAudio"
    BY <1>2, <2>2, ChecksIs DEF EosChecks
  <2>3. CASE step = "endAudio"
    BY <1>2, <2>3, FileStays DEF EosSent
  <2> QED BY <2>1, <2>2, <2>3
<1>11. acap' = acap \/ acap' = [acap EXCEPT !.eos = TRUE]
  BY <1>2 DEF EosAudio, EosChecks, EosSent
<1>12. acap' \in CaptureStates /\ (AudioMoves' => AudioMoves) /\ (AudioRests => AudioRests')
  BY <1>11 DEF CaptureStates, AudioMoves, AudioRests
<1>13. step = "endAudio" => AudioRests'
  BY <1>2 DEF EosSent, CaptureStates, AudioRests
<1>14. VideoIdle' = VideoIdle /\ QueueEmpty' = QueueEmpty
  BY <1>1 DEF VideoIdle, QueueEmpty
<1>15. Primed' => Primed
  BY <1>1, <1>10 DEF Primed, MuxKeeps, Works
<1>16. step \notin {"startFile", "stopFile", "prepareFile", "stopCapture", "stopCamera", "endFile", "stopVideo"}
  BY DEF DrainKinds
<1> QED BY <1>1, <1>2, <1>3, <1>9, <1>10, <1>12, <1>13, <1>14, <1>15, <1>16, StepKeeps

LEMMA EosVideoKeeps ==
    ASSUME RecInv, EosVideo
    PROVE  RecInv'
<1> USE StepTypes
<1>1. UNCHANGED <<fst, readyEvents, fileVars, acap>> /\ Mid /\ Advances /\ Performs("eosVideo")
      /\ vcap' = [vcap EXCEPT !.eos = TRUE]
  BY DEF EosVideo, recPipeVars
<1>2. "eosVideo" \in StepKinds /\ "eosVideo" \in DrainKinds
  BY DEF StepKinds, DrainKinds
<1>3. /\ Shrinks /\ job'.ok = job.ok /\ Has("eosVideo")
      /\ \A x \in StepKinds : Has(x) /\ x # "eosVideo" => Has(x)'
  BY <1>1, <1>2, StepAdvances
<1>4. ~Primed
  BY <1>1, <1>2, <1>3, LeavingIsNotPrimed
<1>5. MuxKeeps /\ PostsLittle
  BY <1>1, FileStays
<1>6. venc' = venc \/ venc' = [venc EXCEPT !.queue = Append(@, "eos")]
  BY DEF EosVideo, EncoderGets
<1>7. venc' \in EncoderStates /\ venc'.made = venc.made /\ venc'.on = venc.on
  <2>1. venc.queue \in Seq({"frame", "eos"})
    BY DEF EncoderStates
  <2>2. Append(venc.queue, "eos") \in Seq({"frame", "eos"})
    BY <2>1, AppendProperties
  <2> QED BY <1>6, <2>2 DEF EncoderStates
<1>8. vcap' \in CaptureStates /\ VideoIdle' = VideoIdle
  BY <1>1 DEF CaptureStates, VideoIdle
<1>9. AudioMoves' = AudioMoves /\ AudioRests' = AudioRests
  BY <1>1 DEF AudioMoves, AudioRests
<1>10. Primed' => Primed
  BY <1>1, <1>5 DEF Primed, MuxKeeps, Works
<1> QED BY <1>1, <1>2, <1>3, <1>4, <1>5, <1>7, <1>8, <1>9, <1>10, StepKeeps

LEMMA EndFileKeeps ==
    ASSUME RecInv, EndFile
    PROVE  RecInv'
<1> USE StepTypes
<1>1. UNCHANGED <<fst, readyEvents, acap, vcap, venc>> /\ Mid /\ Advances /\ Performs("endFile") /\ MuxerSendEos
  BY DEF EndFile, recPipeVars
<1>2. "endFile" \in StepKinds
  BY DEF StepKinds
<1>3. /\ Shrinks /\ job'.ok = job.ok
      /\ \A x \in StepKinds : Has(x) /\ x # "endFile" => Has(x)'
  BY <1>1, <1>2, StepAdvances
<1>4. MuxKeeps /\ mux'.eos /\ PostsLittle
  BY <1>1, SendEosIs
<1>5. AudioMoves' = AudioMoves /\ AudioRests' = AudioRests /\ VideoIdle' = VideoIdle /\ QueueEmpty' = QueueEmpty
  BY <1>1 DEF AudioMoves, AudioRests, VideoIdle, QueueEmpty
<1>6. Primed' => Primed
  BY <1>1, <1>4 DEF Primed, MuxKeeps, Works
<1> QED BY <1>1, <1>2, <1>3, <1>4, <1>5, <1>6, StepKeeps

\* Stop of a video encoder that has its plug-in.
LEMMA StopVideoKeeps ==
    ASSUME RecInv, StopVideo, venc.made
    PROVE  RecInv'
<1> USE StepTypes
<1>1. UNCHANGED <<readyEvents, fileVars, acap, vcap>> /\ Mid /\ Advances /\ Performs("stopVideo")
      /\ venc' = [venc EXCEPT !.on = FALSE, !.queue = <<>>]
      /\ fst' = [fst EXCEPT !["venc"] = "INITIALIZED"]
  BY DEF StopVideo
<1>2. "stopVideo" \in StepKinds
  BY DEF StepKinds, CleanKinds
<1>3. /\ Shrinks /\ job'.ok = job.ok
      /\ \A x \in StepKinds : Has(x) /\ x # "stopVideo" => Has(x)'
  BY <1>1, <1>2, StepAdvances
<1>4. MuxKeeps /\ PostsLittle
  BY <1>1, FileStays
<1>5. venc' \in EncoderStates /\ venc'.made = venc.made /\ ~venc'.on /\ QueueEmpty'
  <2>1. <<>> \in Seq({"frame", "eos"})
    BY Tuples
  <2> QED BY <1>1, <2>1 DEF EncoderStates, QueueEmpty
<1>6. fst' \in [RecFilters -> RecFilterStates] /\ fst'["muxer"] = fst["muxer"]
  BY <1>1 DEF RecFilters, RecFilterStates
<1>7. AudioMoves' = AudioMoves /\ AudioRests' = AudioRests /\ VideoIdle' = VideoIdle
  BY <1>1 DEF AudioMoves, AudioRests, VideoIdle
<1>8. Primed' => Primed
  BY <1>4, <1>6 DEF Primed, MuxKeeps, Works
<1> QED BY <1>1, <1>2, <1>3, <1>4, <1>5, <1>6, <1>7, <1>8, StepKeeps

\* One that has none refuses, and the rest of the stop is not done.
LEMMA StopVideoGives ==
    ASSUME RecInv, StopVideo, ~venc.made
    PROVE  RecInv'
<1> USE StepTypes
<1>1. UNCHANGED <<fst, readyEvents, fileVars, acap, vcap, venc>> /\ Mid /\ Gives /\ Performs("stopVideo")
  BY DEF StopVideo
<1>2. "stopVideo" \in StepKinds
  BY DEF StepKinds, CleanKinds
<1>3. /\ Shrinks /\ job'.ok = FALSE /\ Active /\ Has("stopVideo") /\ Belongs("stopVideo")
      /\ \A x \in StepKinds : Has(x)' => x = "forget"
  BY <1>1, <1>2, StepGives
<1>4. UNCHANGED <<recState, seenState, pendingJobs, client, sent, answer, built, linked, mux, recJobs, headers>>
  BY <1>1 DEF Mid, fileVars
<1>5. Quiet
  BY <1>3, <1>4 DEF Quiet
<1>6. MuxKeeps /\ PostsLittle
  BY <1>1, FileStays
<1>7. MachineTypes' /\ CallTypes' /\ FileTypes'
  <2>1. MachineTypes'
    BY <1>3, <1>4 DEF RecInv, RecTypes, MachineTypes, Shrinks
  <2>2. CallTypes'
    BY <1>4 DEF RecInv, RecTypes, CallTypes
  <2>3. FileTypes'
    BY <1>1, <1>6 DEF RecInv, RecTypes, FileTypes, MuxKeeps
  <2> QED BY <2>1, <2>2, <2>3
<1>8. CleansUp /\ "video" \in built
  BY <1>3 DEF Belongs, CleanKinds, VideoKinds
<1>9. ~Leaves("STOP") /\ ~Leaves("STOP_NOW") /\ ~Executing("PREPARE")
  BY <1>8 DEF CleansUp, Leaves, Executing
<1>10. ~Has("stopCapture") /\ ~Has("stopFile") /\ ~Has("endAudio")
  <2> DEFINE s == job.steps
  <2>1. s \in Seq(StepKinds) /\ s # <<>> /\ Head(s) = "stopVideo"
    BY <1>1 DEF RecInv, RecTypes, MachineTypes, Jobs, Performs, Step
  <2>2. ~Precedes(s, "stopVideo", "stopCapture") /\ ~Precedes(s, "stopVideo", "stopFile")
    BY DEF RecInv, RecSafe, StepsInOrder, Ordered
  <2> HIDE DEF s
  <2>3. \A x : (In(s, x) => x = "stopVideo" \/ In(Tail(s), x)) /\ (In(Tail(s), x) => Precedes(s, "stopVideo", x))
    BY <2>1, TailIn, TailOrder
  <2>4. ~In(s, "stopCapture") /\ ~In(s, "stopFile")
    BY <2>2, <2>3
  <2>5. Has("endAudio") => Belongs("endAudio")
    BY DEF RecInv, RecSafe, StepsBelong, StepKinds, DrainKinds
  <2>6. ~Has("endAudio")
    BY <1>9, <2>5 DEF Belongs, DrainKinds
  <2> QED BY <2>4, <2>6 DEF Has, s
<1>11. AudioRests /\ fst["muxer"] = "INITIALIZED"
  BY <1>8, <1>10 DEF RecInv, RecSafe, CleaningUp
<1>12. ~venc.on /\ VideoRests
  BY DEF RecInv, RecSafe, ChainsGrow, VideoRests
<1>13. AudioMoves' = AudioMoves /\ AudioRests' = AudioRests /\ VideoIdle' = VideoIdle /\ VideoRests' = VideoRests
       /\ QueueEmpty' = QueueEmpty
  BY <1>1, <1>4 DEF AudioMoves, AudioRests, VideoIdle, VideoRests, QueueEmpty
<1>14. ~Starting
  BY <1>1 DEF Starting, Performs, Step
<1>15. Primed' => Primed
  BY <1>1, <1>6 DEF Primed, MuxKeeps, Works
<1>16. FileKeeps
  BY <1>1, <1>13, <1>15, <1>6 DEF FileKeeps, MuxKeeps
<1>17. StepsBelong' /\ StepsInOrder' /\ SeenInTime' /\ OkAccepted' /\ CallFits'
  BY <1>5, QuietKeepsSteps DEF RecInv, RecSafe
<1>18. OneCall' /\ OneReady'
  <2>1. OneCall'
    BY <1>4, <1>5, QuietKeepsCall DEF RecInv, RecSafe
  <2>2. OneReady'
    BY <1>5, <1>6, QuietKeepsReady DEF RecInv, RecSafe
  <2> QED BY <2>1, <2>2
<1>19. ChainsGrow' /\ ReadyMeansFit'
  <2>1. ChainsGrow'
    BY <1>5, <1>16, QuietKeepsChains DEF RecInv, RecSafe
  <2>2. ReadyMeansFit'
    BY <1>1, <1>5, <1>6, QuietKeepsFit DEF RecInv, RecSafe
  <2> QED BY <2>1, <2>2
<1>20. Counted'
  <2>1. ~Has("prepareAudio")'
    BY <1>3 DEF StepKinds, PrepareKinds
  <2> QED BY <1>1, <2>1 DEF RecInv, RecSafe, Counted
<1>21. RecordableFits'
  <2>1. recState \in {"READY", "RECORDING", "PAUSE"} => VideoFits
    BY <1>3 DEF RecInv, RecSafe, RecordableFits
  <2>2. VideoFits' = VideoFits /\ recState' = recState /\ built' = built
    BY <1>1, <1>4 DEF VideoFits
  <2> QED BY <1>8, <2>1, <2>2 DEF RecordableFits
<1>22. CleaningUp'
  <2>1. CleansUp' /\ ~Leaves("STOP_NOW")' /\ AudioRests' /\ VideoRests' /\ fst'["muxer"] = "INITIALIZED" /\ ~venc'.on
    BY <1>1, <1>5, <1>8, <1>9, <1>11, <1>12, <1>13, StopsAreKept
  <2>2. ~Has("stopVideo")' /\ ~Has("stopFile")'
    BY <1>3 DEF StepKinds, CleanKinds
  <2> QED BY <2>1, <2>2 DEF CleaningUp
<1>23. RestsOutOfRecording' /\ CoveredInRecording' /\ PrimedRests' /\ RecordsOneFile'
  <2>1. recState' = recState /\ Preparing' = Preparing
    BY <1>4, <1>5, StopsAreKept
  <2>2. RestsOutOfRecording'
    BY <1>13, <2>1, <1>16 DEF RestsOutOfRecording, RecInv, RecSafe, FileKeeps
  <2>3. CoveredInRecording'
    BY <1>14, <1>16, <2>1 DEF CoveredInRecording, RecInv, RecSafe, FileKeeps
  <2>4. PrimedRests'
    BY <1>13, <1>14, <1>16, <2>1 DEF PrimedRests, RecInv, RecSafe, FileKeeps
  <2> QED BY <2>2, <2>3, <2>4, <1>16 DEF FileKeeps, RecordsOneFile
<1>24. RecSafe'
  BY <1>17, <1>18, <1>19, <1>20, <1>21, <1>22, <1>23 DEF RecSafe
<1> QED BY <1>7, <1>24 DEF RecInv, RecTypes

-----------------------------------------------------------------------------
(* The steps that prepare, start and stop the file.                        *)

LEMMA StepIsQuiet ==
    ASSUME RecInv, Mid, Shrinks
    PROVE  /\ Quiet
           /\ UNCHANGED <<recState, seenState, pendingJobs, client, sent, answer, built, linked>>
           /\ StepsBelong' /\ StepsInOrder' /\ SeenInTime' /\ OkAccepted' /\ CallFits'
<1>1. UNCHANGED <<recState, seenState, pendingJobs, client, sent, answer, built, linked>>
  BY DEF Mid
<1>2. Quiet
  BY <1>1 DEF Quiet
<1>3. StepsBelong' /\ StepsInOrder' /\ SeenInTime' /\ OkAccepted' /\ CallFits'
  BY <1>2, QuietKeepsSteps DEF RecInv, RecSafe
<1> QED BY <1>1, <1>2, <1>3

LEMMA StepKeepsTypes ==
    ASSUME RecInv, Mid, Shrinks, recJobs' \in Seq(Intents),
           MuxTypes', headers' \in Nat, readyEvents' \in Nat,
           acap' \in CaptureStates, vcap' \in CaptureStates, venc' \in EncoderStates,
           fst' \in [RecFilters -> RecFilterStates]
    PROVE  RecTypes'
<1>1. UNCHANGED <<recState, seenState, pendingJobs, client, sent, answer, built, linked>>
  BY StepIsQuiet
<1>2. MachineTypes'
  BY <1>1 DEF RecInv, RecTypes, MachineTypes, Shrinks
<1>3. CallTypes'
  BY <1>1 DEF RecInv, RecTypes, CallTypes
<1>4. FileTypes'
  BY DEF FileTypes
<1> QED BY <1>2, <1>3, <1>4 DEF RecTypes

LEMMA StepKeepsCalls ==
    ASSUME RecInv, Mid, Shrinks, PostsLittle
    PROVE  OneCall' /\ OneReady'
<1>1. Quiet
  BY StepIsQuiet
<1>2. \A x \in ClientJobs : x \in Intents \ {"NOTIFY_COMPLETE", "NOTIFY_ERROR"}
  BY DEF ClientJobs
<1>3. OneCall'
  BY <1>1, <1>2, QuietKeepsCall DEF RecInv, RecSafe, PostsLittle
<1>4. OneReady'
  BY <1>1, QuietKeepsReady DEF RecInv, RecSafe
<1> QED BY <1>3, <1>4

\* The client whose PREPARE runs waits for it, and sees the state it was called in.
LEMMA PreparingIs ==
    ASSUME RecInv, Executing("PREPARE"), recState = "RECORDING_SETTING"
    PROVE  Preparing /\ Active /\ ~CleansUp /\ ~Leaves("STOP") /\ ~Leaves("STOP_NOW")
<1>1. Active /\ job.intent = "PREPARE" /\ job.phase = "execute"
  BY DEF Executing, Active
<1>2. seenState = "RECORDING_SETTING"
  BY <1>1 DEF RecInv, RecSafe, SeenInTime
<1>3. Awaits("PREPARE")
  <2>1. "PREPARE" \in ClientJobs
    BY DEF ClientJobs, Intents
  <2> QED BY <1>1, <2>1 DEF RecInv, RecSafe, OneCall
<1>4. Preparing
  BY <1>2, <1>3 DEF Preparing, Awaits
<1> QED BY <1>1, <1>4 DEF CleansUp, Leaves, Executing

\* A job that neither cleans up nor leaves has none of their steps.
LEMMA NotStopping ==
    ASSUME StepsBelong, ~CleansUp
    PROVE  ~Has("stopFile") /\ ~Has("stopVideo")
  BY DEF StepsBelong, Belongs, StepKinds, CleanKinds

LEMMA PrepareFileKeeps ==
    ASSUME RecInv, PrepareFile
    PROVE  RecInv'
<1> USE StepTypes
<1>1. UNCHANGED <<readyEvents, fileVars, acap, vcap, venc>> /\ Mid /\ Performs("prepareFile")
  BY DEF PrepareFile
<1>2. "prepareFile" \in StepKinds
  BY DEF StepKinds, PrepareKinds
<1>3. IF fst["muxer"] = "INITIALIZED" THEN Advances ELSE Gives
  BY DEF PrepareFile
<1>4. /\ Shrinks /\ Has("prepareFile") /\ Belongs("prepareFile")
  BY <1>1, <1>2, <1>3, StepAdvances, StepGives
<1>5. MuxKeeps /\ PostsLittle
  BY <1>1, FileStays
<1>6. /\ fst' \in [RecFilters -> RecFilterStates]
      /\ fst'["muxer"] = IF fst["muxer"] = "INITIALIZED" THEN "PREPARING" ELSE fst["muxer"]
  <2>1. fst' = [f \in RecFilters |-> IF f \in {"sink", "muxer"} /\ fst[f] = "INITIALIZED"
                                     THEN "PREPARING" ELSE fst[f]]
    BY DEF PrepareFile
  <2> QED BY <2>1 DEF RecFilters, RecFilterStates
<1>7. Executing("PREPARE") /\ recState = "RECORDING_SETTING"
  BY <1>4 DEF Belongs, PrepareKinds
<1>8. Preparing /\ ~CleansUp /\ ~Leaves("STOP") /\ ~Leaves("STOP_NOW")
  BY <1>7, PreparingIs
<1>9. ~Has("stopFile") /\ ~Has("stopVideo")
  BY <1>8, NotStopping DEF RecInv, RecSafe
<1>10. /\ Quiet
       /\ UNCHANGED <<recState, seenState, pendingJobs, client, sent, answer, built, linked>>
       /\ StepsBelong' /\ StepsInOrder' /\ SeenInTime' /\ OkAccepted' /\ CallFits'
  BY <1>1, <1>4, StepIsQuiet
<1>11. OneCall' /\ OneReady'
  BY <1>1, <1>4, <1>5, StepKeepsCalls
<1>12. RecTypes'
  <2>1. readyEvents' \in Nat
    BY <1>1 DEF RecInv, RecTypes, FileTypes
  <2> QED BY <1>1, <1>4, <1>5, <1>6, <2>1, StepKeepsTypes DEF MuxKeeps, PostsLittle
<1>13. /\ AudioMoves' = AudioMoves /\ AudioRests' = AudioRests /\ VideoIdle' = VideoIdle
       /\ VideoRests' = VideoRests /\ QueueEmpty' = QueueEmpty
  BY <1>1, <1>10 DEF AudioMoves, AudioRests, VideoIdle, VideoRests, QueueEmpty
<1>14. ChainsGrow'
  BY <1>1, <1>10, <1>13 DEF RecInv, RecSafe, ChainsGrow
<1>15. Counted'
  <2>1. CASE fst["muxer"] = "INITIALIZED"
    BY <1>1, <1>6, <2>1 DEF RecInv, RecSafe, Counted
  <2>2. CASE fst["muxer"] # "INITIALIZED"
    <3>1. ~Has("prepareAudio")'
      BY <1>1, <1>2, <1>3, <2>2, StepGives DEF StepKinds, PrepareKinds
    <3> QED BY <1>6, <2>2, <3>1 DEF Counted
  <2> QED BY <2>1, <2>2
<1>16. ReadyMeansFit'
  BY <1>1, <1>5, <1>6, <1>10, QuietKeepsFit DEF RecInv, RecSafe
<1>17. RecordableFits' /\ CoveredInRecording'
  BY <1>7, <1>10 DEF RecordableFits, CoveredInRecording
<1>18. CleaningUp'
  <2>1. ~CleansUp' /\ ~Leaves("STOP")' /\ ~Leaves("STOP_NOW")'
    BY <1>8, <1>10, StopsAreKept
  <2>2. ~Has("stopFile")'
    BY <1>9, <1>10 DEF Quiet, Shrinks, StepKinds, CleanKinds
  <2>3. fst'["muxer"] # "INITIALIZED"
    BY <1>6
  <2> QED BY <2>1, <2>2, <2>3 DEF CleaningUp
<1>19. mux.eos \/ (AudioRests /\ VideoRests)
  BY <1>7 DEF RecInv, RecSafe, RestsOutOfRecording
<1>20. mux' = mux
  BY <1>1 DEF fileVars
<1>21. RestsOutOfRecording'
  BY <1>13, <1>19, <1>20 DEF RestsOutOfRecording
<1>22. PrimedRests'
  <2>1. recState' = "RECORDING_SETTING" /\ Preparing'
    BY <1>7, <1>8, <1>10, StopsAreKept
  <2>2. Primed' => mux.eos \/ QueueEmpty
    <3>1. CASE fst["muxer"] = "INITIALIZED"
      BY <1>9, <3>1 DEF RecInv, RecSafe, CleaningUp, QueueEmpty
    <3>2. CASE fst["muxer"] # "INITIALIZED"
      <4>1. Primed' => Primed
        BY <1>5, <1>6, <3>2 DEF Primed, MuxKeeps, Works
      <4> QED BY <4>1 DEF RecInv, RecSafe, PrimedRests
    <3> QED BY <3>1, <3>2
  <2> QED BY <1>13, <1>19, <1>20, <2>1, <2>2 DEF PrimedRests
<1>23. RecordsOneFile'
  BY <1>5 DEF MuxKeeps, RecordsOneFile
<1>24. RecSafe'
  BY <1>10, <1>11, <1>14, <1>15, <1>16, <1>17, <1>18, <1>21, <1>22, <1>23 DEF RecSafe
<1> QED BY <1>12, <1>24 DEF RecInv

\* What an EVENT_READY can do: with both chains, the four of one are not enough.
LEMMA FiltersAre ==
    ASSUME built \subseteq {"audio", "video"}
    PROVE  /\ AllFilters \in Nat
           /\ "audio" \in built \/ "video" \in built => AllFilters >= 4
           /\ "audio" \in built /\ "video" \in built => AllFilters = 6
<1>1. built = {} \/ built = {"audio"} \/ built = {"video"} \/ built = {"audio", "video"}
  OBVIOUS
<1>2. Cardinality({}) = 0 /\ Cardinality({"audio"}) = 1 /\ Cardinality({"video"}) = 1
  BY FS_EmptySet, FS_Singleton
<1>3. Cardinality({"audio", "video"}) = 2
  <2>1. IsFiniteSet({"audio"}) /\ {"audio", "video"} = {"audio"} \cup {"video"}
    BY FS_Singleton
  <2>2. Cardinality({"audio"} \cup {"video"}) = Cardinality({"audio"}) + 1
    BY <2>1, FS_AddElement
  <2> QED BY <1>2, <2>1, <2>2
<1>4. CASE built = {}
  BY <1>2, <1>4 DEF AllFilters
<1>5. CASE built = {"audio"}
  BY <1>2, <1>5 DEF AllFilters
<1>6. CASE built = {"video"}
  BY <1>2, <1>6 DEF AllFilters
<1>7. CASE built = {"audio", "video"}
  BY <1>3, <1>7 DEF AllFilters
<1> QED BY <1>1, <1>4, <1>5, <1>6, <1>7

LEMMA ReadiesIs ==
    ASSUME built \subseteq {"audio", "video"}, readyEvents \in Nat, NEW n \in {1, 2, 4}, NEW jobs, Readies(n, jobs)
    PROVE  /\ readyEvents' \in Nat
           /\ \/ recJobs' = jobs
              \/ recJobs' = Append(jobs, "NOTIFY_READY") /\ readyEvents + n >= AllFilters
<1>1. AllFilters \in Nat
  BY FiltersAre
<1> QED BY <1>1 DEF Readies

\* What PREPARE posts comes behind no call.
LEMMA PreparePosts ==
    ASSUME RecInv, Executing("PREPARE"), ~In(recJobs, "NOTIFY_READY"),
           NEW jobs, jobs = recJobs \/ jobs = Append(recJobs, "NOTIFY_ERROR"),
           NEW posted \in BOOLEAN, recJobs' = IF posted THEN Append(jobs, "NOTIFY_READY") ELSE jobs
    PROVE  /\ recJobs' \in Seq(Intents)
           /\ \A x \in ClientJobs : In(recJobs', x) => In(recJobs, x)
           /\ \A x, y \in ClientJobs : Precedes(recJobs', x, y) => Precedes(recJobs, x, y)
           /\ \A x \in ClientJobs \cup {"NOTIFY_READY"} : ~Precedes(recJobs', x, "NOTIFY_READY")
           /\ In(recJobs', "NOTIFY_READY") => posted
<1>1. recJobs \in Seq(Intents) /\ {"NOTIFY_ERROR", "NOTIFY_READY"} \subseteq Intents
  BY DEF RecInv, RecTypes, MachineTypes, Intents
<1> DEFINE ne == Append(recJobs, "NOTIFY_ERROR")
           nr == Append(jobs, "NOTIFY_READY")
<1>2. /\ ne \in Seq(Intents)
       /\ \A x, y : /\ In(ne, x) <=> In(recJobs, x) \/ x = "NOTIFY_ERROR"
                    /\ Precedes(ne, x, y) => Precedes(recJobs, x, y) \/ (In(recJobs, x) /\ y = "NOTIFY_ERROR")
  BY <1>1, AppendIn
<1> HIDE DEF ne
<1>3. jobs = recJobs \/ jobs = ne
  BY DEF ne
<1>4. /\ jobs \in Seq(Intents)
      /\ \A x : In(jobs, x) => In(recJobs, x) \/ x = "NOTIFY_ERROR"
  BY <1>1, <1>2, <1>3
<1>5. \A x, y : Precedes(jobs, x, y) => Precedes(recJobs, x, y) \/ y = "NOTIFY_ERROR"
  BY <1>2, <1>3
<1>6. /\ nr \in Seq(Intents)
       /\ \A x, y : /\ In(nr, x) <=> In(jobs, x) \/ x = "NOTIFY_READY"
                    /\ Precedes(nr, x, y) => Precedes(jobs, x, y) \/ (In(jobs, x) /\ y = "NOTIFY_READY")
  BY <1>1, <1>4, AppendIn
<1>7. recJobs' = IF posted THEN nr ELSE jobs
  OBVIOUS
<1> HIDE DEF nr
<1>8. /\ recJobs' \in Seq(Intents)
      /\ \A x : In(recJobs', x) => In(jobs, x) \/ (posted /\ x = "NOTIFY_READY")
  BY <1>4, <1>6, <1>7
<1>9. \A x, y : Precedes(recJobs', x, y) => Precedes(jobs, x, y) \/ (In(jobs, x) /\ y = "NOTIFY_READY")
  BY <1>6, <1>7
<1>10. \A x \in ClientJobs : x # "NOTIFY_ERROR" /\ x # "NOTIFY_READY"
  BY DEF ClientJobs
<1>11. \A x \in ClientJobs : ~In(recJobs, x)
  <2>1. Active /\ job.intent \in ClientJobs
    BY DEF Active, Executing, ClientJobs, Intents
  <2> QED BY <2>1 DEF RecInv, RecSafe, OneCall
<1>12. \A x, y : Precedes(recJobs, x, y) => In(recJobs, x)
  BY DEF Precedes, In
<1>13. \A x \in ClientJobs \cup {"NOTIFY_READY"} : ~In(jobs, x)
  BY <1>4, <1>10, <1>11
<1>14. \A x \in ClientJobs \cup {"NOTIFY_READY"} : ~Precedes(recJobs', x, "NOTIFY_READY")
  BY <1>5, <1>9, <1>11, <1>12, <1>13
<1> QED BY <1>4, <1>5, <1>8, <1>9, <1>10, <1>13, <1>14

\* The step that prepares a chain: nothing is ready before it, and the only one that may
\* be left to prepare is the video chain, after the audio chain.
LEMMA PrepareStepIs ==
    ASSUME RecInv, NEW s \in {"audio", "video"},
           Performs(IF s = "audio" THEN "prepareAudio" ELSE "prepareVideo"), Advances \/ Gives
    PROVE  /\ Shrinks
           /\ Executing("PREPARE") /\ recState = "RECORDING_SETTING" /\ s \in built
           /\ ~In(recJobs, "NOTIFY_READY")
           /\ s = "audio" => readyEvents = 0
           /\ \A x \in PrepareKinds : Has(x)' => s = "audio" /\ x = "prepareVideo" /\ "video" \in built
           /\ ~Has("stopFile")' /\ ~Has("stopVideo")'
<1> DEFINE step == IF s = "audio" THEN "prepareAudio" ELSE "prepareVideo"
<1>1. step \in StepKinds /\ step \in PrepareKinds /\ Performs(step)
      /\ (s = "audio" => step = "prepareAudio") /\ (s = "video" => step = "prepareVideo")
  BY DEF StepKinds, PrepareKinds
<1> HIDE DEF step
<1>2. Shrinks /\ Has(step) /\ Belongs(step)
  BY <1>1, StepAdvances, StepGives
<1>3. Executing("PREPARE") /\ recState = "RECORDING_SETTING" /\ s \in built
  BY <1>1, <1>2 DEF Belongs, AudioKinds, VideoKinds
<1>4. ~In(recJobs, "NOTIFY_READY")
  BY <1>1, <1>2 DEF RecInv, RecSafe, OneReady
<1>5. ~CleansUp
  BY <1>3, PreparingIs
<1>6. ~Has("stopFile")' /\ ~Has("stopVideo")'
  BY <1>2, <1>5, NotStopping DEF RecInv, RecSafe, Shrinks, StepKinds, CleanKinds
<1>7. Ordered(job.steps)
  BY DEF RecInv, RecSafe, StepsInOrder
<1>8. s = "audio" => readyEvents = 0
  <2>1. SUFFICES ASSUME s = "audio" PROVE readyEvents = 0
    OBVIOUS
  <2> DEFINE q == job.steps
  <2>2. q \in Seq(StepKinds) /\ q # <<>> /\ Head(q) = "prepareAudio"
    BY <1>1, <2>1 DEF RecInv, RecTypes, MachineTypes, Jobs, Performs, Step
  <2>3. ~Precedes(q, "prepareAudio", "prepareFile")
    BY <1>7 DEF Ordered
  <2> HIDE DEF q
  <2>4. (In(q, "prepareFile") => "prepareFile" = "prepareAudio" \/ In(Tail(q), "prepareFile"))
        /\ (In(Tail(q), "prepareFile") => Precedes(q, "prepareAudio", "prepareFile"))
    BY <2>2, TailIn, TailOrder
  <2>5. ~In(q, "prepareFile")
    BY <2>3, <2>4
  <2>6. ~Has("prepareFile")
    BY <2>5 DEF Has, q
  <2> QED BY <1>1, <1>2, <2>1, <2>6 DEF RecInv, RecSafe, Counted
<1>9. \A x \in PrepareKinds : Has(x)' => s = "audio" /\ x = "prepareVideo" /\ "video" \in built
  <2>1. CASE Gives
    <3>1. \A x \in StepKinds : Has(x)' => x = "forget"
      BY <1>1, <2>1, StepGives
    <3> QED BY <3>1 DEF StepKinds, PrepareKinds
  <2>2. CASE Advances
    <3>1. \A x \in StepKinds : Has(x)' => Precedes(job.steps, step, x)
      BY <1>1, <2>2, StepAdvances
    <3>2. \A x \in PrepareKinds : Has(x)' => s = "audio" /\ x = "prepareVideo"
      BY <1>1, <1>7, <3>1 DEF Ordered, StepKinds, PrepareKinds
    <3>3. Has("prepareVideo")' => Has("prepareVideo")
      BY <1>2 DEF Shrinks, StepKinds, PrepareKinds
    <3>4. Has("prepareVideo") => "video" \in built
      BY DEF RecInv, RecSafe, StepsBelong, Belongs, StepKinds, PrepareKinds, VideoKinds
    <3> QED BY <3>2, <3>3, <3>4
  <2> QED BY <2>1, <2>2
<1> QED BY <1>2, <1>3, <1>4, <1>6, <1>8, <1>9

\* NOTIFY_READY is posted when every chain that has a port has its encoder.
LEMMA PrepareAnswers ==
    ASSUME RecInv, Mid, NEW s \in {"audio", "video"},
           Performs(IF s = "audio" THEN "prepareAudio" ELSE "prepareVideo"), Advances \/ Gives,
           NEW jobs, jobs = recJobs \/ jobs = Append(recJobs, "NOTIFY_ERROR"),
           NEW posted \in BOOLEAN, recJobs' = IF posted THEN Append(jobs, "NOTIFY_READY") ELSE jobs,
           NEW n \in {1, 2, 4}, posted => readyEvents + n >= AllFilters,
           posted /\ s = "video" => venc'.made,
           posted => fst'["muxer"] # "INITIALIZED"
    PROVE  recJobs' \in Seq(Intents) /\ OneCall' /\ OneReady' /\ ReadyMeansFit'
<1>1. /\ Shrinks
      /\ Executing("PREPARE") /\ recState = "RECORDING_SETTING" /\ s \in built
      /\ ~In(recJobs, "NOTIFY_READY")
      /\ s = "audio" => readyEvents = 0
      /\ \A x \in PrepareKinds : Has(x)' => s = "audio" /\ x = "prepareVideo" /\ "video" \in built
  BY PrepareStepIs
<1>2. /\ Quiet
      /\ UNCHANGED <<recState, seenState, pendingJobs, client, sent, answer, built, linked>>
  BY <1>1, StepIsQuiet
<1>3. /\ recJobs' \in Seq(Intents)
      /\ \A x \in ClientJobs : In(recJobs', x) => In(recJobs, x)
      /\ \A x, y \in ClientJobs : Precedes(recJobs', x, y) => Precedes(recJobs, x, y)
      /\ \A x \in ClientJobs \cup {"NOTIFY_READY"} : ~Precedes(recJobs', x, "NOTIFY_READY")
      /\ In(recJobs', "NOTIFY_READY") => posted
  BY <1>1, PreparePosts
<1>4. OneCall'
  BY <1>2, <1>3, QuietKeepsCall DEF RecInv, RecSafe
<1>5. built \subseteq {"audio", "video"} /\ linked \subseteq built
  BY DEF RecInv, RecTypes, CallTypes
<1>6. posted => ~(s = "audio" /\ "video" \in built)
  <2>1. SUFFICES ASSUME s = "audio", "video" \in built, posted PROVE FALSE
    OBVIOUS
  <2>2. AllFilters = 6 /\ readyEvents = 0
    BY <1>1, <1>5, <2>1, FiltersAre
  <2> QED BY <2>1, <2>2
<1>7. job'.intent = "PREPARE" /\ job'.phase = "execute"
  BY <1>1, <1>2 DEF Executing, Quiet, Shrinks
<1>8. OneReady'
  <2>1. ~(job'.intent \in (ClientJobs \cup {"NOTIFY_READY"}) \ {"PREPARE"})
    BY <1>7
  <2>2. \A x \in PrepareKinds : Has(x)' => ~In(recJobs', "NOTIFY_READY")
    BY <1>1, <1>3, <1>6
  <2> QED BY <1>3, <2>1, <2>2 DEF OneReady
<1>9. ReadyMeansFit'
  <2>1. GetsReady' => posted
    BY <1>3, <1>7 DEF GetsReady, Executing
  <2>2. Preparing' /\ recState' = "RECORDING_SETTING"
    BY <1>1, <1>2, PreparingIs, StopsAreKept
  <2>3. posted => VideoFits'
    BY <1>2, <1>5, <1>6 DEF VideoFits
  <2> QED BY <2>1, <2>2, <2>3 DEF ReadyMeansFit
<1> QED BY <1>3, <1>4, <1>8, <1>9

\* Prepare of an encoder and of its capture, whatever becomes of it.
LEMMA PrepareChainKeeps ==
    ASSUME RecInv, NEW s \in RecStreams, PrepareChain(s)
    PROVE  RecInv'
<1> USE StepTypes
<1> DEFINE enc == Encoder(s)
           meta == Append(mux.meta, s)
           step == IF s = "audio" THEN "prepareAudio" ELSE "prepareVideo"
           negotiable == s \in chosen \intersect linked /\ fst["muxer"] = "PREPARING"
           tracks == IF LastPort(meta) THEN mux.tracks \o Tracks(meta) ELSE mux.tracks
           n == IF LastPort(meta) THEN 4 ELSE 2
           Fails == /\ fst' = IF fst[enc] = "INITIALIZED" THEN [fst EXCEPT ![enc] = "PREPARING"] ELSE fst
                    /\ Gives
                    /\ UNCHANGED <<mux, venc, readyEvents, recJobs>>
           Negotiates == /\ negotiable
                         /\ venc' = IF s = "video" THEN [venc EXCEPT !.on = TRUE, !.queue = <<>>, !.made = TRUE] ELSE venc
                         /\ mux' = [mux EXCEPT !.header = FALSE, !.meta = meta, !.tracks = tracks]
           Fits == /\ fst' = [f \in RecFilters |->
                                IF f = enc \/ (f \in {"sink", "muxer"} /\ LastPort(meta)) THEN "READY" ELSE fst[f]]
                   /\ Readies(n, recJobs)
                   /\ Advances
           Refuses == /\ fst' = [fst EXCEPT !["sink"] = "READY", ![enc] = "PREPARING"]
                      /\ Readies(1, Append(recJobs, "NOTIFY_ERROR"))
                      /\ Gives
<1>1. s \in {"audio", "video"} /\ enc \in {"aenc", "venc"}
  BY RecorderAssumption DEF Encoder
<1>2. Performs(step) /\ Mid /\ UNCHANGED <<acap, vcap, headers>>
  BY DEF PrepareChain
<1>3. Fails \/ (Negotiates /\ (Fits \/ Refuses))
  BY DEF PrepareChain
<1> HIDE DEF enc, meta, tracks
<1>4. Advances \/ Gives
  BY <1>3
<1>5. /\ Shrinks
      /\ Executing("PREPARE") /\ recState = "RECORDING_SETTING" /\ s \in built
      /\ ~In(recJobs, "NOTIFY_READY")
      /\ \A x \in PrepareKinds : Has(x)' => s = "audio" /\ x = "prepareVideo" /\ "video" \in built
      /\ ~Has("stopFile")' /\ ~Has("stopVideo")'
  BY <1>1, <1>2, <1>4, PrepareStepIs
<1>6. /\ Quiet
      /\ UNCHANGED <<recState, seenState, pendingJobs, client, sent, answer, built, linked>>
      /\ StepsBelong' /\ StepsInOrder' /\ SeenInTime' /\ OkAccepted' /\ CallFits'
  BY <1>2, <1>5, StepIsQuiet
<1>7. built \subseteq {"audio", "video"} /\ linked \subseteq built /\ readyEvents \in Nat
  BY DEF RecInv, RecTypes, CallTypes, FileTypes
<1>8. MuxTypes' /\ mux'.eos = mux.eos
  <2>1. CASE Fails
    BY <2>1 DEF MuxTypes
  <2>2. CASE Negotiates
    BY <2>2 DEF MuxTypes
  <2> QED BY <1>3, <2>1, <2>2
<1>9. venc' \in EncoderStates /\ (venc.made => venc'.made)
      /\ (venc' = venc \/ (s = "video" /\ s \in linked /\ venc'.made /\ QueueEmpty'))
  <2>1. CASE Fails
    BY <2>1
  <2>2. CASE Negotiates
    <3>1. <<>> \in Seq({"frame", "eos"})
      BY Tuples
    <3> QED BY <2>2, <3>1 DEF EncoderStates, QueueEmpty
  <2> QED BY <1>3, <2>1, <2>2
<1>10. fst' \in [RecFilters -> RecFilterStates]
  <2>1. CASE Fails
    BY <1>1, <2>1 DEF RecFilters, RecFilterStates
  <2>2. CASE Fits
    BY <1>1, <2>2 DEF RecFilters, RecFilterStates
  <2>3. CASE Refuses
    BY <1>1, <2>3 DEF RecFilters, RecFilterStates
  <2> QED BY <1>3, <2>1, <2>2, <2>3
<1>11. \/ Fails /\ fst'["muxer"] = fst["muxer"]
       \/ Negotiates /\ fst["muxer"] = "PREPARING" /\ fst'["muxer"] \in {"PREPARING", "READY"}
  <2>1. CASE Fails
    BY <1>1, <2>1 DEF RecFilters, RecFilterStates
  <2>2. CASE Negotiates /\ Fits
    BY <1>1, <2>2 DEF RecFilters, RecFilterStates
  <2>3. CASE Negotiates /\ Refuses
    BY <1>1, <2>3 DEF RecFilters, RecFilterStates
  <2> QED BY <1>3, <2>1, <2>2, <2>3
<1>12. readyEvents' \in Nat /\ (Fails => readyEvents' = readyEvents)
  <2>1. CASE Fails
    BY <1>7, <2>1
  <2>2. CASE Fits
    <3>1. n \in {1, 2, 4}
      OBVIOUS
    <3> QED BY <1>3, <1>7, <2>2, <3>1, ReadiesIs
  <2>3. CASE Refuses
    BY <1>7, <2>3, ReadiesIs
  <2> QED BY <1>3, <2>1, <2>2, <2>3
<1>13. recJobs' \in Seq(Intents) /\ OneCall' /\ OneReady' /\ ReadyMeansFit'
  <2>1. CASE Fails
    <3>1. recJobs' = recJobs
      BY <2>1
    <3>2. PostsLittle
      BY <3>1, PostsIs
    <3>3. fst'["muxer"] = "INITIALIZED" => fst["muxer"] = "INITIALIZED"
      BY <1>11
    <3>4. OneCall' /\ OneReady'
      BY <1>2, <1>5, <3>2, StepKeepsCalls
    <3>5. ReadyMeansFit'
      BY <1>6, <1>9, <3>2, <3>3, QuietKeepsFit DEF RecInv, RecSafe
    <3> QED BY <3>1, <3>4, <3>5
  <2>2. CASE Negotiates /\ Fits
    <3>1. fst'["muxer"] # "INITIALIZED"
      BY <1>11, <2>2
    <3>2. n \in {1, 2, 4}
      OBVIOUS
    <3>3. PICK posted \in BOOLEAN : /\ recJobs' = IF posted THEN Append(recJobs, "NOTIFY_READY") ELSE recJobs
                                    /\ posted => readyEvents + n >= AllFilters
      BY <1>7, <2>2, <3>2, ReadiesIs
    <3>4. s = "video" => venc'.made
      BY <2>2 DEF EncoderStates
    <3> QED BY <1>1, <1>2, <1>4, <3>1, <3>2, <3>3, <3>4, PrepareAnswers
  <2>3. CASE Negotiates /\ Refuses
    <3> DEFINE jobs == Append(recJobs, "NOTIFY_ERROR")
    <3>1. fst'["muxer"] # "INITIALIZED"
      BY <1>11, <2>3
    <3>2. PICK posted \in BOOLEAN : /\ recJobs' = IF posted THEN Append(jobs, "NOTIFY_READY") ELSE jobs
                                    /\ posted => readyEvents + 1 >= AllFilters
      BY <1>7, <2>3, ReadiesIs
    <3>3. s = "video" => venc'.made
      BY <2>3 DEF EncoderStates
    <3> QED BY <1>1, <1>2, <1>4, <3>1, <3>2, <3>3, PrepareAnswers
  <2> QED BY <1>3, <2>1, <2>2, <2>3
<1>14. RecTypes'
  <2>1. headers' \in Nat /\ acap' \in CaptureStates /\ vcap' \in CaptureStates
    BY <1>2
  <2> QED BY <1>2, <1>5, <1>8, <1>9, <1>10, <1>12, <1>13, <2>1, StepKeepsTypes
<1>15. AudioMoves' = AudioMoves /\ AudioRests' = AudioRests /\ VideoIdle' = VideoIdle
  BY <1>2 DEF AudioMoves, AudioRests, VideoIdle
<1>16. ChainsGrow'
  BY <1>6, <1>7, <1>9, <1>15 DEF RecInv, RecSafe, ChainsGrow
<1>17. Counted'
  <2>1. ~Has("prepareAudio")'
    BY <1>5 DEF PrepareKinds
  <2> QED BY <1>11, <1>12, <2>1 DEF RecInv, RecSafe, Counted
<1>18. RecordableFits' /\ CoveredInRecording'
  BY <1>5, <1>6 DEF RecordableFits, CoveredInRecording
<1>19. Preparing /\ ~CleansUp /\ ~Leaves("STOP") /\ ~Leaves("STOP_NOW")
  BY <1>5, PreparingIs
<1>20. CleaningUp'
  <2>1. ~CleansUp' /\ ~Leaves("STOP")' /\ ~Leaves("STOP_NOW")'
    BY <1>6, <1>19, StopsAreKept
  <2>2. ~Has("stopVideo")
    BY <1>19, NotStopping DEF RecInv, RecSafe
  <2>3. fst'["muxer"] = "INITIALIZED" => ~venc'.on
    BY <1>11, <2>2 DEF RecInv, RecSafe, CleaningUp
  <2> QED BY <1>5, <2>1, <2>3 DEF CleaningUp
<1>21. VideoRests => VideoRests'
  BY <1>6, <1>9, <1>15 DEF VideoRests
<1>22. RestsOutOfRecording'
  BY <1>5, <1>8, <1>15, <1>21 DEF RecInv, RecSafe, RestsOutOfRecording
<1>23. PrimedRests'
  <2>1. recState' = "RECORDING_SETTING" /\ Preparing'
    BY <1>5, <1>6, <1>19, StopsAreKept
  <2>2. Primed' => Primed
    <3>1. CASE Fails /\ fst'["muxer"] = fst["muxer"]
      <4>1. mux' = mux /\ headers' = headers
        BY <1>2, <3>1
      <4> QED BY <3>1, <4>1 DEF Primed, Covered, Works
    <3>2. CASE fst["muxer"] = "PREPARING"
      BY <3>2 DEF Primed
    <3> QED BY <1>11, <3>1, <3>2
  <2>3. QueueEmpty => QueueEmpty'
    BY <1>9 DEF QueueEmpty
  <2> QED BY <1>8, <1>15, <1>21, <2>1, <2>2, <2>3 DEF RecInv, RecSafe, PrimedRests
<1>24. RecordsOneFile'
  BY <1>2 DEF RecInv, RecSafe, RecordsOneFile
<1>25. RecSafe'
  BY <1>6, <1>13, <1>16, <1>17, <1>18, <1>20, <1>22, <1>23, <1>24 DEF RecSafe
<1> QED BY <1>14, <1>25 DEF RecInv

\* What is done when a state is entered stops nothing.
LEMMA EnteringIs ==
    ASSUME RecInv, job.phase = "enter"
    PROVE  /\ ~CleansUp /\ ~CleansOut /\ ~Leaves("STOP") /\ ~Leaves("STOP_NOW") /\ ~Executing("PREPARE")
           /\ ~Has("stopFile") /\ ~Has("stopVideo") /\ ~Has("prepareAudio") /\ ~Has("prepareFile")
<1>1. ~CleansUp /\ ~CleansOut /\ ~Leaves("STOP") /\ ~Leaves("STOP_NOW") /\ ~Executing("PREPARE")
  BY DEF CleansUp, CleansOut, Leaves, Executing
<1>2. ~Has("stopFile") /\ ~Has("stopVideo")
  BY <1>1, NotStopping DEF RecInv, RecSafe
<1>3. ~Has("prepareAudio") /\ ~Has("prepareFile")
  BY <1>1 DEF RecInv, RecSafe, StepsBelong, Belongs, StepKinds, PrepareKinds
<1> QED BY <1>1, <1>2, <1>3

LEMMA StartFileKeeps ==
    ASSUME RecInv, StartFile
    PROVE  RecInv'
<1> USE StepTypes
<1>1. UNCHANGED <<readyEvents, recJobs, acap, vcap, venc>> /\ Mid /\ Performs("startFile") /\ Advances
      /\ fst' = [fst EXCEPT !["sink"] = "RUNNING", !["muxer"] = "RUNNING"]
      /\ mux' = [mux EXCEPT !.eos = FALSE] /\ headers' = 0
  BY DEF StartFile
<1>2. "startFile" \in StepKinds
  BY DEF StepKinds, StartKinds
<1>3. Shrinks /\ job'.ok = job.ok /\ Belongs("startFile")
  BY <1>1, <1>2, StepAdvances
<1>4. job.phase = "enter" /\ recState = "RECORDING"
  BY <1>3 DEF Belongs, StartKinds
<1>5. /\ ~CleansUp /\ ~Leaves("STOP") /\ ~Leaves("STOP_NOW")
      /\ ~Has("stopFile") /\ ~Has("prepareAudio")
  BY <1>4, EnteringIs
<1>6. /\ Quiet
      /\ UNCHANGED <<recState, seenState, pendingJobs, client, sent, answer, built, linked>>
      /\ StepsBelong' /\ StepsInOrder' /\ SeenInTime' /\ OkAccepted' /\ CallFits'
  BY <1>1, <1>3, StepIsQuiet
<1>7. PostsLittle
  BY <1>1, PostsIs
<1>8. OneCall' /\ OneReady'
  BY <1>1, <1>3, <1>7, StepKeepsCalls
<1>9. fst' \in [RecFilters -> RecFilterStates] /\ fst'["muxer"] = "RUNNING"
  BY <1>1 DEF RecFilters, RecFilterStates
<1>10. MuxTypes' /\ headers' \in Nat
  BY <1>1 DEF MuxTypes
<1>11. RecTypes'
  <2>1. readyEvents' \in Nat
    BY <1>1 DEF RecInv, RecTypes, FileTypes
  <2> QED BY <1>1, <1>3, <1>7, <1>9, <1>10, <2>1, StepKeepsTypes DEF PostsLittle
<1>12. AudioMoves' = AudioMoves /\ VideoIdle' = VideoIdle
  BY <1>1 DEF AudioMoves, VideoIdle
<1>13. ChainsGrow'
  BY <1>1, <1>6, <1>12 DEF RecInv, RecSafe, ChainsGrow
<1>14. ~Has("prepareAudio")' /\ ~Has("stopFile")'
  BY <1>3, <1>5 DEF Shrinks, StepKinds, PrepareKinds, CleanKinds
<1>15. Counted'
  BY <1>9, <1>14 DEF Counted
<1>16. ReadyMeansFit' /\ RecordableFits'
  <2>1. ReadyMeansFit'
    BY <1>1, <1>6, <1>7, <1>9, QuietKeepsFit DEF RecInv, RecSafe
  <2>2. RecordableFits'
    BY <1>1, <1>3, <1>6, <1>9, QuietKeepsRecordable DEF RecInv, RecSafe
  <2> QED BY <2>1, <2>2
<1>17. CleaningUp'
  <2>1. ~CleansUp' /\ ~Leaves("STOP")' /\ ~Leaves("STOP_NOW")'
    BY <1>5, <1>6, StopsAreKept
  <2> QED BY <1>9, <1>14, <2>1 DEF CleaningUp
<1>18. Covered'
  BY <1>1 DEF Covered
<1>19. RestsOutOfRecording' /\ CoveredInRecording' /\ PrimedRests' /\ RecordsOneFile'
  <2>1. ~Primed'
    BY <1>9, <1>18 DEF Primed
  <2> QED BY <1>1, <1>4, <1>6, <1>18, <2>1
          DEF RestsOutOfRecording, CoveredInRecording, PrimedRests, RecordsOneFile
<1>20. RecSafe'
  BY <1>6, <1>8, <1>13, <1>15, <1>16, <1>17, <1>19 DEF RecSafe
<1> QED BY <1>11, <1>20 DEF RecInv

\* A chain that records has its encoder, and its file a header or none yet.
LEMMA RecordingChainIs ==
    ASSUME RecInv, NEW s \in {"audio", "video"},
           NEW step \in {"startAudio", "startVideo", "resumeAudio", "resumeVideo"},
           Performs(step), s = "audio" <=> step \in {"startAudio", "resumeAudio"}
    PROVE  /\ step \in StepKinds
           /\ Has(step) => /\ job.phase = "enter" /\ recState = "RECORDING" /\ s \in built
                           /\ VideoFits /\ Covered /\ ~Starting
                           /\ ~Primed
<1>1. step \in StepKinds /\ step \in StartKinds
  BY DEF StepKinds, StartKinds
<1>2. ASSUME Has(step)
      PROVE  /\ job.phase = "enter" /\ recState = "RECORDING" /\ s \in built
             /\ VideoFits /\ Covered /\ ~Starting /\ ~Primed
  <2>1. Belongs(step)
    BY <1>1, <1>2 DEF RecInv, RecSafe, StepsBelong
  <2>2. job.phase = "enter" /\ recState = "RECORDING" /\ s \in built
    BY <1>1, <2>1 DEF Belongs, AudioKinds, VideoKinds
  <2>3. ~CleansOut
    BY <2>2, EnteringIs
  <2>4. VideoFits
    BY <2>2, <2>3 DEF RecInv, RecSafe, RecordableFits
  <2>5. ~Starting
    BY DEF Starting, Performs, Step
  <2>6. Covered /\ ~Primed
    BY <2>2, <2>5 DEF RecInv, RecSafe, CoveredInRecording, PrimedRests
  <2> QED BY <2>2, <2>4, <2>5, <2>6
<1> QED BY <1>1, <1>2

LEMMA CaptureStarts ==
    ASSUME RecInv, NEW s \in {"audio", "video"},
           NEW step \in {"startAudio", "startVideo", "resumeAudio", "resumeVideo"},
           Performs(step), s = "audio" <=> step \in {"startAudio", "resumeAudio"},
           Mid, UNCHANGED <<readyEvents, fileVars, venc>>, Advances \/ Gives,
           fst' \in [RecFilters -> RecFilterStates], fst'["muxer"] = fst["muxer"],
           acap' \in CaptureStates, vcap' \in CaptureStates,
           s = "video" => acap' = acap, s = "audio" => vcap' = vcap
    PROVE  RecInv'
<1> USE StepTypes
<1>1. step \in StepKinds
  BY RecordingChainIs
<1>2. Shrinks /\ Has(step)
  BY <1>1, StepAdvances, StepGives
<1>3. job.phase = "enter" /\ recState = "RECORDING" /\ s \in built /\ VideoFits /\ Covered /\ ~Primed
  BY <1>2, RecordingChainIs
<1>4. /\ ~CleansUp /\ ~Leaves("STOP") /\ ~Leaves("STOP_NOW")
      /\ ~Has("stopFile") /\ ~Has("stopVideo") /\ ~Has("prepareAudio")
  BY <1>3, EnteringIs
<1>5. /\ Quiet
      /\ UNCHANGED <<recState, seenState, pendingJobs, client, sent, answer, built, linked>>
      /\ StepsBelong' /\ StepsInOrder' /\ SeenInTime' /\ OkAccepted' /\ CallFits'
  BY <1>2, StepIsQuiet
<1>6. MuxKeeps /\ PostsLittle
  BY FileStays
<1>7. OneCall' /\ OneReady'
  BY <1>2, <1>6, StepKeepsCalls
<1>8. RecTypes'
  <2>1. readyEvents' \in Nat /\ venc' \in EncoderStates
    BY DEF RecInv, RecTypes, FileTypes
  <2> QED BY <1>2, <1>6, <2>1, StepKeepsTypes DEF PostsLittle, MuxKeeps
<1>9. (AudioMoves' => AudioMoves \/ s = "audio") /\ (~VideoIdle' => ~VideoIdle \/ s = "video")
  BY DEF AudioMoves, VideoIdle
<1>10. ChainsGrow'
  BY <1>3, <1>5, <1>9 DEF RecInv, RecSafe, ChainsGrow, VideoFits
<1>11. ~Has("prepareAudio")' /\ ~Has("stopFile")'
  BY <1>2, <1>4 DEF Shrinks, StepKinds, PrepareKinds, CleanKinds
<1>12. Counted'
  BY <1>11 DEF RecInv, RecSafe, Counted
<1>13. ReadyMeansFit' /\ RecordableFits'
  <2>1. ReadyMeansFit'
    BY <1>5, <1>6, QuietKeepsFit DEF RecInv, RecSafe
  <2>2. RecordableFits'
    BY <1>4, <1>5, QuietKeepsRecordable DEF RecInv, RecSafe
  <2> QED BY <2>1, <2>2
<1>14. CleaningUp'
  <2>1. ~CleansUp' /\ ~Leaves("STOP")' /\ ~Leaves("STOP_NOW")'
    BY <1>4, <1>5, StopsAreKept
  <2>2. ~(fst'["muxer"] = "INITIALIZED" /\ venc'.on)
    BY <1>4 DEF RecInv, RecSafe, CleaningUp
  <2> QED BY <1>11, <2>1, <2>2 DEF CleaningUp
<1>15. Covered'
  BY <1>3, <1>6 DEF MuxKeeps
<1>16. RestsOutOfRecording' /\ CoveredInRecording' /\ PrimedRests' /\ RecordsOneFile'
  <2>1. ~Primed'
    BY <1>3, <1>15 DEF Primed
  <2>2. recState' = "RECORDING" /\ headers' <= 1
    BY <1>3, <1>5, <1>6 DEF MuxKeeps
  <2> QED BY <1>15, <2>1, <2>2
          DEF RestsOutOfRecording, CoveredInRecording, PrimedRests, RecordsOneFile
<1>17. RecSafe'
  BY <1>5, <1>7, <1>10, <1>12, <1>13, <1>14, <1>16 DEF RecSafe
<1> QED BY <1>8, <1>17 DEF RecInv

LEMMA StartChainKeeps ==
    ASSUME RecInv, NEW s \in RecStreams, StartChain(s)
    PROVE  RecInv'
<1> USE StepTypes
<1> DEFINE enc == Encoder(s)
           step == IF s = "audio" THEN "startAudio" ELSE "startVideo"
<1>1. s \in {"audio", "video"} /\ enc \in {"aenc", "venc"}
  BY RecorderAssumption DEF Encoder
<1>2. /\ step \in {"startAudio", "startVideo", "resumeAudio", "resumeVideo"}
      /\ s = "audio" <=> step \in {"startAudio", "resumeAudio"}
  BY <1>1
<1>3. Performs(step) /\ Mid /\ UNCHANGED <<readyEvents, fileVars, venc>>
  BY ZenonT(60) DEF StartChain
<1>4. \/ Gives /\ UNCHANGED <<fst, acap, vcap>>
      \/ /\ fst' = [fst EXCEPT ![enc] = "RUNNING"]
         /\ \E started \in BOOLEAN :
               /\ IF started THEN Advances ELSE Gives
               /\ acap' = IF s = "audio" THEN [acap EXCEPT !.run = @ \/ started, !.eos = FALSE] ELSE acap
         /\ vcap' = IF s = "video" THEN [vcap EXCEPT !.run = TRUE] ELSE vcap
  BY ZenonT(60) DEF StartChain
<1> HIDE DEF step, enc
<1>5. Advances \/ Gives
  BY <1>4
<1>6. fst' \in [RecFilters -> RecFilterStates] /\ fst'["muxer"] = fst["muxer"]
  <2>1. CASE fst' = fst
    BY <2>1
  <2>2. CASE fst' = [fst EXCEPT ![enc] = "RUNNING"]
    BY <1>1, <2>2 DEF RecFilters, RecFilterStates
  <2> QED BY <1>4, <2>1, <2>2, ZenonT(60)
<1>7. acap' \in CaptureStates /\ (s = "video" => acap' = acap)
  <2>1. CASE acap' = acap
    BY <2>1
  <2>2. CASE s = "audio" /\ \E started \in BOOLEAN : acap' = [acap EXCEPT !.run = @ \/ started, !.eos = FALSE]
    <3>1. PICK started \in BOOLEAN : acap' = [acap EXCEPT !.run = @ \/ started, !.eos = FALSE]
      BY <2>2
    <3>2. (acap.run \/ started) \in BOOLEAN
      BY DEF CaptureStates
    <3> QED BY <2>2, <3>1, <3>2 DEF CaptureStates
  <2> QED BY <1>1, <1>4, <2>1, <2>2
<1>8. vcap' \in CaptureStates /\ (s = "audio" => vcap' = vcap)
  <2>1. CASE vcap' = vcap
    BY <2>1
  <2>2. CASE s = "video" /\ vcap' = [vcap EXCEPT !.run = TRUE]
    BY <2>2 DEF CaptureStates
  <2> QED BY <1>1, <1>4, <2>1, <2>2
<1> QED BY <1>1, <1>2, <1>3, <1>5, <1>6, <1>7, <1>8, CaptureStarts

LEMMA ResumeChainKeeps ==
    ASSUME RecInv, NEW s \in RecStreams, ResumeChain(s)
    PROVE  RecInv'
<1> USE StepTypes
<1> DEFINE step == IF s = "audio" THEN "resumeAudio" ELSE "resumeVideo"
<1>1. s \in {"audio", "video"}
  BY RecorderAssumption
<1>2. /\ step \in {"startAudio", "startVideo", "resumeAudio", "resumeVideo"}
      /\ s = "audio" <=> step \in {"startAudio", "resumeAudio"}
  BY <1>1
<1>3. /\ Performs(step) /\ Mid /\ UNCHANGED <<fst, readyEvents, fileVars, venc>>
      /\ Advances \/ Gives
      /\ acap' = (IF s = "audio" THEN [acap EXCEPT !.run = TRUE] ELSE acap)
      /\ vcap' = (IF s = "video" THEN [vcap EXCEPT !.run = TRUE] ELSE vcap)
  BY DEF ResumeChain, recPipeVars
<1> HIDE DEF step
<1>4. /\ acap' \in CaptureStates /\ vcap' \in CaptureStates
      /\ s = "video" => acap' = acap
      /\ s = "audio" => vcap' = vcap
  BY <1>3 DEF CaptureStates
<1> QED BY <1>1, <1>2, <1>3, <1>4, CaptureStarts

LEMMA StopFileKeeps ==
    ASSUME RecInv, StopFile
    PROVE  RecInv'
<1> USE StepTypes
<1>1. UNCHANGED <<fileVars, acap, vcap, venc>> /\ Mid /\ Performs("stopFile") /\ Advances
      /\ fst' = [fst EXCEPT !["sink"] = "INITIALIZED", !["muxer"] = "INITIALIZED"]
      /\ readyEvents' = 0
  BY DEF StopFile
<1>2. "stopFile" \in StepKinds
  BY DEF StepKinds, CleanKinds
<1>3. /\ Shrinks /\ job'.ok = job.ok /\ Has("stopFile") /\ Belongs("stopFile")
      /\ \A x \in StepKinds : Has(x) /\ x # "stopFile" => Has(x)'
  BY <1>1, <1>2, StepAdvances
<1>4. CleansUp
  BY <1>3 DEF Belongs, CleanKinds
<1>5. ~Leaves("STOP") /\ ~Leaves("STOP_NOW") /\ ~Executing("PREPARE")
  BY <1>4 DEF CleansUp, Leaves, Executing
<1>6. /\ Quiet
      /\ UNCHANGED <<recState, seenState, pendingJobs, client, sent, answer, built, linked>>
      /\ StepsBelong' /\ StepsInOrder' /\ SeenInTime' /\ OkAccepted' /\ CallFits'
  BY <1>1, <1>3, StepIsQuiet
<1>7. MuxKeeps /\ PostsLittle
  BY <1>1, FileStays
<1>8. OneCall' /\ OneReady'
  BY <1>1, <1>3, <1>7, StepKeepsCalls
<1>9. fst' \in [RecFilters -> RecFilterStates] /\ fst'["muxer"] = "INITIALIZED"
  BY <1>1 DEF RecFilters, RecFilterStates
<1>10. RecTypes'
  <2>1. readyEvents' \in Nat
    BY <1>1
  <2> QED BY <1>1, <1>3, <1>7, <1>9, <2>1, StepKeepsTypes DEF PostsLittle, MuxKeeps
<1>11. /\ AudioMoves' = AudioMoves /\ AudioRests' = AudioRests /\ VideoIdle' = VideoIdle
       /\ VideoRests' = VideoRests
  BY <1>1, <1>6 DEF AudioMoves, AudioRests, VideoIdle, VideoRests
<1>12. ChainsGrow'
  BY <1>1, <1>6, <1>11 DEF RecInv, RecSafe, ChainsGrow
<1>13. Counted'
  BY <1>1 DEF Counted
<1>14. ~GetsReady \/ recState = "ERROR"
  <2>1. CASE Executing("RESET")
    <3>1. Active /\ job.intent \in (ClientJobs \cup {"NOTIFY_READY"}) \ {"PREPARE"}
      BY <2>1 DEF Active, Executing, ClientJobs, Intents
    <3> QED BY <2>1, <3>1 DEF RecInv, RecSafe, OneReady, GetsReady, Executing
  <2>2. CASE Executing("NOTIFY_COMPLETE") /\ recState \in {"INIT", "RECORDING"}
    BY <2>2 DEF RecInv, RecSafe, ReadyMeansFit
  <2> QED BY <1>4, <2>1, <2>2 DEF CleansUp
<1>15. ReadyMeansFit'
  <2>1. In(recJobs', "NOTIFY_READY") => In(recJobs, "NOTIFY_READY")
    BY <1>7 DEF PostsLittle, Intents
  <2>2. GetsReady' => GetsReady
    BY <1>6, <2>1 DEF GetsReady, Executing, Quiet, Shrinks
  <2> QED BY <1>6, <1>14, <2>2 DEF ReadyMeansFit
<1>16. RecordableFits'
  <2>1. CleansOut \/ recState \notin {"READY", "RECORDING", "PAUSE"}
    BY <1>3, <1>4 DEF CleansOut, CleansUp, RecInv, RecSafe, CleaningUp, Executing
  <2>2. CleansOut => CleansOut'
    BY <1>3, <1>6, StopsAreKept
  <2>3. VideoFits' = VideoFits
    BY <1>1, <1>6 DEF VideoFits
  <2>4. Has("stopVideo")' => Has("stopVideo")
    BY <1>3 DEF Shrinks, StepKinds, CleanKinds
  <2> QED BY <1>6, <2>1, <2>2, <2>3, <2>4 DEF RecordableFits, RecInv, RecSafe
<1>17. CleaningUp'
  <2>1. CleansUp' /\ ~Leaves("STOP")' /\ ~Leaves("STOP_NOW")'
    BY <1>4, <1>5, <1>6, StopsAreKept
  <2>2. \A x \in {"stopCapture", "stopCamera", "stopVideo"} : Has(x) => Has(x)'
    BY <1>3 DEF StepKinds, CleanKinds
  <2>3. ~Has("endAudio")
    BY <1>5 DEF RecInv, RecSafe, StepsBelong, Belongs, StepKinds, DrainKinds
  <2>4. (Has("stopCapture")' \/ AudioRests') /\ (Has("stopCamera")' \/ VideoRests')
    BY <1>4, <1>11, <2>2, <2>3 DEF RecInv, RecSafe, CleaningUp
  <2>5. job'.intent = "NOTIFY_COMPLETE" => job'.ok
    BY <1>3, <1>4 DEF RecInv, RecSafe, CleaningUp, Shrinks
  <2>6. venc'.on => Has("stopVideo")'
    BY <1>1, <1>3, <2>2 DEF RecInv, RecSafe, CleaningUp
  <2> QED BY <1>9, <2>1, <2>4, <2>5, <2>6 DEF CleaningUp
<1>18. ~Starting
  BY <1>1 DEF Starting, Performs, Step
<1>19. RestsOutOfRecording' /\ CoveredInRecording' /\ PrimedRests' /\ RecordsOneFile'
  <2>1. ~Primed'
    BY <1>9 DEF Primed, Works
  <2>2. RestsOutOfRecording'
    BY <1>6, <1>7, <1>11 DEF RecInv, RecSafe, RestsOutOfRecording, MuxKeeps
  <2>3. CoveredInRecording'
    BY <1>6, <1>7, <1>18 DEF RecInv, RecSafe, CoveredInRecording, MuxKeeps
  <2> QED BY <1>7, <2>1, <2>2, <2>3 DEF PrimedRests, RecordsOneFile, MuxKeeps
<1>20. RecSafe'
  BY <1>6, <1>8, <1>12, <1>13, <1>15, <1>16, <1>17, <1>19 DEF RecSafe
<1> QED BY <1>10, <1>20 DEF RecInv

-----------------------------------------------------------------------------
(* The machine takes a job, and changes its state.                         *)

\* Between two jobs nothing is done by halves.
LEMMA BetweenJobs ==
    ASSUME RecInv, job.phase \in {"none", "late"}
    PROVE  /\ ~Active /\ ~CleansUp /\ ~CleansOut /\ ~Starting
           /\ \A s \in StepKinds : ~Has(s)
           /\ seenState = recState
<1>1. ~Active /\ ~CleansUp /\ ~CleansOut
  BY DEF Active, CleansUp, CleansOut, Executing
<1>2. \A s \in StepKinds : ~Has(s)
  BY <1>1 DEF RecInv, RecSafe, StepsBelong, Belongs
<1>3. ~Starting
  <2>1. job.steps \in Seq(StepKinds)
    BY DEF RecInv, RecTypes, MachineTypes, Jobs
  <2>2. Starting => In(job.steps, "startFile")
    BY <2>1, TailIn DEF Starting
  <2> QED BY <1>2, <2>2 DEF Has, StepKinds, StartKinds
<1>4. seenState = recState
  BY DEF RecInv, RecSafe, SeenInTime
<1> QED BY <1>1, <1>2, <1>3, <1>4

\* What is recorded, and who waits for what, when only the machine moves.
LEMMA OthersAre ==
    ASSUME RecInv, OthersSame
    PROVE  /\ UNCHANGED <<fst, readyEvents, acap, vcap, venc, headers, mux, client, sent, built, linked>>
           /\ AudioMoves' = AudioMoves /\ AudioRests' = AudioRests /\ VideoIdle' = VideoIdle
           /\ VideoRests' = VideoRests /\ QueueEmpty' = QueueEmpty /\ VideoFits' = VideoFits
           /\ Covered' = Covered /\ Primed' = Primed
           /\ FileTypes' /\ CallFits' /\ ChainsGrow' /\ RecordsOneFile'
           /\ answer' \in {"none", "ok", "bad"} => CallTypes'
<1>1. UNCHANGED <<fst, readyEvents, acap, vcap, venc, headers, mux, client, sent, built, linked>>
  BY DEF OthersSame, recPipeVars
<1>2. /\ AudioMoves' = AudioMoves /\ AudioRests' = AudioRests /\ VideoIdle' = VideoIdle
      /\ VideoRests' = VideoRests /\ QueueEmpty' = QueueEmpty /\ VideoFits' = VideoFits
  BY <1>1 DEF AudioMoves, AudioRests, VideoIdle, VideoRests, QueueEmpty, VideoFits
<1>3. Covered' = Covered /\ Primed' = Primed
  BY <1>1 DEF Primed, Covered, Works
<1>4. FileTypes'
  BY <1>1 DEF RecInv, RecTypes, FileTypes, MuxTypes
<1>5. CallFits' /\ RecordsOneFile'
  BY <1>1 DEF RecInv, RecSafe, CallFits, RecordsOneFile
<1>6. ChainsGrow'
  BY <1>1, <1>2 DEF RecInv, RecSafe, ChainsGrow
<1>7. answer' \in {"none", "ok", "bad"} => CallTypes'
  BY <1>1 DEF RecInv, RecTypes, CallTypes
<1> QED BY <1>1, <1>2, <1>3, <1>4, <1>5, <1>6, <1>7

LEMMA JobTaken ==
    ASSUME RecInv, UNCHANGED <<recState, seenState, pendingJobs, answer>>, OthersSame,
           job.phase \in {"none", "late"},
           NEW i \in Intents, NEW late \in BOOLEAN, job' = Runs(i, late),
           recJobs' \in Seq(Intents), \A x : In(recJobs', x) => In(recJobs, x),
           \A x, y : Precedes(recJobs', x, y) => Precedes(recJobs, x, y),
           i = "START" \/ (In(recJobs, i) /\ \A y : In(recJobs', y) => Precedes(recJobs, i, y))
    PROVE  RecInv'
<1>1. /\ UNCHANGED <<fst, readyEvents, acap, vcap, venc, headers, mux, client, sent, built, linked>>
      /\ AudioMoves' = AudioMoves /\ AudioRests' = AudioRests /\ VideoIdle' = VideoIdle
      /\ VideoRests' = VideoRests /\ QueueEmpty' = QueueEmpty /\ VideoFits' = VideoFits
      /\ Covered' = Covered /\ Primed' = Primed
      /\ FileTypes' /\ CallFits' /\ ChainsGrow' /\ RecordsOneFile'
  BY OthersAre
<1>2. CallTypes'
  BY OthersAre DEF RecInv, RecTypes, CallTypes
<1>3. /\ ~Active /\ ~CleansUp /\ ~CleansOut /\ ~Starting
      /\ \A s \in StepKinds : ~Has(s)
      /\ seenState = recState
  BY BetweenJobs
<1>4. built \subseteq {"audio", "video"} /\ linked \subseteq built
  BY DEF RecInv, RecTypes, CallTypes
<1>5. /\ job' \in Jobs /\ job'.phase = "execute" /\ job'.intent = i
      /\ StepsInOrder' /\ OkAccepted' /\ StepsBelong'
      /\ CleansUp' => /\ Has("stopFile")'
                      /\ "audio" \in built => Has("stopCapture")'
                      /\ "video" \in built => Has("stopCamera")' /\ Has("stopVideo")'
                      /\ i = "NOTIFY_COMPLETE" => job'.ok
      /\ Leaves("STOP")' => /\ "audio" \in built => Has("endAudio")'
                            /\ "video" \in built => Has("stopCamera")'
      /\ Leaves("STOP_NOW")' => Has("endFile")'
      /\ Has("prepareAudio")' => Has("prepareFile")'
  BY <1>1, <1>4, RunsIs
<1>6. MachineTypes'
  BY <1>5 DEF RecInv, RecTypes, MachineTypes
<1>7. Preparing' = Preparing /\ \A x : Awaits(x)' = Awaits(x)
  BY <1>1 DEF Preparing, Awaits
<1>8. "START" \notin ClientJobs \cup {"NOTIFY_READY"}
  BY DEF ClientJobs
<1>9. OneCall'
  <2>1. (sent => client # <<>> /\ Head(client) \in Intents)'
    BY <1>1 DEF RecInv, RecSafe, OneCall
  <2>2. \A x \in ClientJobs : In(recJobs', x) => Awaits(x)' /\ ~(i \in ClientJobs)
    BY <1>7, <1>8 DEF RecInv, RecSafe, OneCall
  <2>3. \A x, y \in ClientJobs : ~Precedes(recJobs', x, y)
    BY DEF RecInv, RecSafe, OneCall
  <2>4. i \in ClientJobs => Awaits(i)'
    BY <1>7, <1>8 DEF RecInv, RecSafe, OneCall
  <2>5. job'.intent = i
    BY <1>5
  <2>6. (Active /\ job.intent \in ClientJobs => Awaits(job.intent))'
    BY <2>4, <2>5 DEF Awaits
  <2> QED BY <2>1, <2>2, <2>3, <2>5, <2>6 DEF OneCall
<1>10. OneReady'
  <2>1. \A x \in ClientJobs \cup {"NOTIFY_READY"} : ~Precedes(recJobs', x, "NOTIFY_READY")
    BY DEF RecInv, RecSafe, OneReady
  <2>2. i \in ClientJobs \cup {"NOTIFY_READY"} => ~In(recJobs', "NOTIFY_READY")
    BY <1>8 DEF RecInv, RecSafe, OneReady
  <2>3. \A x \in PrepareKinds : Has(x)' => i = "PREPARE"
    BY <1>5 DEF StepsBelong, Belongs, Executing, StepKinds
  <2>4. "PREPARE" \in ClientJobs
    BY DEF ClientJobs, Intents
  <2> QED BY <1>5, <2>1, <2>2, <2>3, <2>4 DEF OneReady
<1>11. SeenInTime'
  BY <1>3, <1>5 DEF SeenInTime
<1>12. Counted'
  BY <1>1, <1>5 DEF RecInv, RecSafe, Counted
<1>13. ReadyMeansFit'
  <2>1. Executing("NOTIFY_READY")' => i = "NOTIFY_READY"
    BY <1>5 DEF Executing
  <2>2. GetsReady' => GetsReady
    BY <2>1 DEF GetsReady
  <2> QED BY <1>1, <1>7, <2>2 DEF RecInv, RecSafe, ReadyMeansFit
<1>14. RecordableFits'
  BY <1>1, <1>3 DEF RecInv, RecSafe, RecordableFits
<1>15. CleaningUp'
  <2>1. ("audio" \notin built => AudioRests') /\ ("video" \notin built => VideoRests')
    BY <1>1 DEF RecInv, RecSafe, ChainsGrow, AudioRests, VideoRests
  <2>2. venc'.on => "video" \in built
    BY <1>1, <1>4 DEF RecInv, RecSafe, ChainsGrow
  <2>3. ~(fst'["muxer"] = "INITIALIZED" /\ venc'.on)
    BY <1>1, <1>3 DEF RecInv, RecSafe, CleaningUp, StepKinds, CleanKinds
  <2>4. Has("stopFile")' => CleansUp'
    BY <1>5 DEF StepsBelong, Belongs, StepKinds, CleanKinds
  <2> QED BY <1>5, <2>1, <2>2, <2>3, <2>4 DEF CleaningUp
<1>16. RestsOutOfRecording' /\ CoveredInRecording' /\ PrimedRests'
  <2>1. RestsOutOfRecording'
    BY <1>1 DEF RecInv, RecSafe, RestsOutOfRecording
  <2>2. CoveredInRecording'
    BY <1>1, <1>3 DEF RecInv, RecSafe, CoveredInRecording
  <2>3. PrimedRests'
    BY <1>1, <1>3, <1>7 DEF RecInv, RecSafe, PrimedRests
  <2> QED BY <2>1, <2>2, <2>3
<1>17. RecSafe'
  BY <1>1, <1>5, <1>9, <1>10, <1>11, <1>12, <1>13, <1>14, <1>15, <1>16 DEF RecSafe
<1> QED BY <1>1, <1>2, <1>6, <1>17 DEF RecInv, RecTypes

LEMMA TakeJobKeeps ==
    ASSUME RecInv, TakeJob
    PROVE  RecInv'
<1> DEFINE q == recJobs
<1>1. /\ job = NoJob /\ q # <<>> /\ recJobs' = Tail(q) /\ job' = Runs(Head(q), FALSE)
      /\ UNCHANGED <<recState, seenState, pendingJobs, answer>> /\ OthersSame
  BY DEF TakeJob
<1>2. job.phase = "none"
  BY <1>1 DEF NoJob
<1>3. q \in Seq(Intents)
  BY DEF RecInv, RecTypes, MachineTypes
<1> HIDE DEF q
<1>4. Tail(q) \in Seq(Intents) /\ Head(q) \in Intents
  BY <1>1, <1>3, HeadTailProperties
<1>5. In(q, Head(q)) /\ \A x : In(Tail(q), x) => In(q, x)
  BY <1>1, <1>3, TailIn
<1>6. /\ \A x, y : Precedes(Tail(q), x, y) => Precedes(q, x, y)
      /\ \A y : In(Tail(q), y) => Precedes(q, Head(q), y)
  BY <1>1, <1>3, TailOrder
<1>7. q = recJobs
  BY DEF q
<1> QED BY <1>1, <1>2, <1>4, <1>5, <1>6, <1>7, JobTaken

LEMMA RunLateKeeps ==
    ASSUME RecInv, RunLate
    PROVE  RecInv'
<1>1. /\ job.phase = "late" /\ recJobs' = recJobs /\ job' = Runs("START", TRUE)
      /\ UNCHANGED <<recState, seenState, pendingJobs, answer>> /\ OthersSame
  BY DEF RunLate
<1>2. recJobs \in Seq(Intents) /\ "START" \in Intents
  BY DEF RecInv, RecTypes, MachineTypes, Intents
<1> QED BY <1>1, <1>2, JobTaken

\* A job that is over leaves the state it found or entered.
LEMMA JobEnds ==
    ASSUME RecInv, OthersSame, UNCHANGED <<recJobs, recState>>, seenState' = recState,
           Active, job.steps = <<>>, job' \in Jobs, job'.phase \in {"none", "late"}, job'.steps = <<>>,
           pendingJobs' \in Seq({"START"}), answer' \in {"none", "ok", "bad"},
           answer' # answer => sent /\ Head(client) = job.intent,
           recState = "RECORDING_SETTING" /\ job.intent = "PREPARE" => answer' \in {answer, "ok"},
           ~CleansOut \/ recState \notin {"READY", "RECORDING", "PAUSE"}
    PROVE  RecInv'
<1>1. /\ UNCHANGED <<fst, readyEvents, acap, vcap, venc, headers, mux, client, sent, built, linked>>
      /\ AudioMoves' = AudioMoves /\ AudioRests' = AudioRests /\ VideoIdle' = VideoIdle
      /\ VideoRests' = VideoRests /\ QueueEmpty' = QueueEmpty /\ VideoFits' = VideoFits
      /\ Covered' = Covered /\ Primed' = Primed
      /\ FileTypes' /\ CallTypes' /\ CallFits' /\ ChainsGrow' /\ RecordsOneFile'
  BY OthersAre
<1>2. \A x : ~In(<<>>, x)
  BY DEF In
<1>3. \A x : ~Has(x) /\ ~Has(x)'
  BY <1>2 DEF Has
<1>4. ~Active' /\ ~CleansUp' /\ ~CleansOut' /\ ~Leaves("STOP")' /\ ~Leaves("STOP_NOW")' /\ ~Starting
      /\ ~Executing("NOTIFY_READY")'
  BY DEF Active, CleansUp, CleansOut, Leaves, Executing, Starting
<1>5. MachineTypes'
  BY DEF RecInv, RecTypes, MachineTypes
<1>6. StepsBelong' /\ StepsInOrder' /\ SeenInTime' /\ OkAccepted'
  <2>1. Ordered(<<>>)
    BY <1>2, Unordered
  <2> QED BY <1>3, <2>1 DEF StepsBelong, StepsInOrder, SeenInTime, OkAccepted
<1>7. OneCall'
  <2>1. (sent => client # <<>> /\ Head(client) \in Intents)'
    BY <1>1 DEF RecInv, RecSafe, OneCall
  <2>2. \A x \in ClientJobs : In(recJobs', x) => Awaits(x)'
    <3> SUFFICES ASSUME NEW x \in ClientJobs, In(recJobs, x) PROVE Awaits(x)'
      OBVIOUS
    <3>1. Awaits(x) /\ job.intent \notin ClientJobs
      BY DEF RecInv, RecSafe, OneCall
    <3>2. answer' = answer
      BY <3>1 DEF Awaits
    <3> QED BY <1>1, <3>1, <3>2 DEF Awaits
  <2>3. \A x, y \in ClientJobs : ~Precedes(recJobs', x, y)
    BY DEF RecInv, RecSafe, OneCall
  <2> QED BY <1>4, <2>1, <2>2, <2>3 DEF OneCall
<1>8. OneReady'
  BY <1>3, <1>4 DEF RecInv, RecSafe, OneReady
<1>9. Counted'
  BY <1>1, <1>3 DEF RecInv, RecSafe, Counted
<1>10. ASSUME recState = "RECORDING_SETTING", Preparing PROVE Preparing'
  <2>1. client' = client /\ sent' = sent /\ client # <<>> /\ seenState' = "RECORDING_SETTING"
    BY <1>1, <1>10 DEF Preparing
  <2>2. CASE Head(client) = "ready?"
    BY <2>1, <2>2 DEF Preparing
  <2>3. CASE Head(client) = "PREPARE" /\ sent /\ answer # "bad"
    <3>1. answer' # "bad"
      BY <1>10, <2>3
    <3> QED BY <2>1, <2>3, <3>1 DEF Preparing
  <2> QED BY <1>10, <2>2, <2>3 DEF Preparing
<1>11. ReadyMeansFit'
  <2>1. GetsReady' => GetsReady
    BY <1>4 DEF GetsReady
  <2> QED BY <1>1, <1>10, <2>1 DEF RecInv, RecSafe, ReadyMeansFit
<1>12. RecordableFits'
  BY <1>1 DEF RecInv, RecSafe, RecordableFits
<1>13. CleaningUp'
  <2>1. ~(fst'["muxer"] = "INITIALIZED" /\ venc'.on)
    BY <1>1, <1>3 DEF RecInv, RecSafe, CleaningUp
  <2> QED BY <1>3, <1>4, <2>1 DEF CleaningUp
<1>14. RestsOutOfRecording' /\ CoveredInRecording' /\ PrimedRests'
  <2>1. RestsOutOfRecording'
    BY <1>1 DEF RecInv, RecSafe, RestsOutOfRecording
  <2>2. CoveredInRecording'
    BY <1>1, <1>4 DEF RecInv, RecSafe, CoveredInRecording
  <2>3. PrimedRests'
    BY <1>1, <1>4, <1>10 DEF RecInv, RecSafe, PrimedRests
  <2> QED BY <2>1, <2>2, <2>3
<1>15. RecSafe'
  BY <1>1, <1>6, <1>7, <1>8, <1>9, <1>11, <1>12, <1>13, <1>14 DEF RecSafe
<1> QED BY <1>1, <1>5, <1>15 DEF RecInv, RecTypes

\* The answer of a job reaches the call that waits for it, and one job put off may follow.
LEMMA GoesOnIs ==
    ASSUME RecInv, NEW action, GoesOn(action), NEW ok \in BOOLEAN, Answers(job.intent, ok)
    PROVE  /\ job' \in Jobs /\ job'.phase \in {"none", "late"} /\ job'.steps = <<>>
           /\ pendingJobs' \in Seq({"START"})
           /\ answer' \in {"none", "ok", "bad"}
           /\ answer' # answer => sent /\ Head(client) = job.intent
           /\ ok => answer' \in {answer, "ok"}
<1>1. answer \in {"none", "ok", "bad"} /\ pendingJobs \in Seq({"START"})
  BY DEF RecInv, RecTypes, MachineTypes, CallTypes
<1>2. /\ answer' \in {"none", "ok", "bad"}
      /\ answer' # answer => sent /\ Head(client) = job.intent
      /\ ok => answer' \in {answer, "ok"}
  BY <1>1 DEF Answers
<1>3. <<>> \in Seq(StepKinds) /\ "START" \in Intents
  BY DEF Intents
<1>4. CASE job' = NoJob /\ pendingJobs' = pendingJobs
  BY <1>1, <1>2, <1>3, <1>4 DEF NoJob, Jobs
<1>5. CASE /\ job' = [phase |-> "late", intent |-> "START", steps |-> <<>>, ok |-> TRUE, late |-> TRUE]
           /\ pendingJobs # <<>> /\ pendingJobs' = Tail(pendingJobs)
  <2>1. pendingJobs' \in Seq({"START"})
    BY <1>1, <1>5, HeadTailProperties
  <2> QED BY <1>2, <1>3, <1>5, <2>1 DEF Jobs
<1> QED BY <1>4, <1>5 DEF GoesOn

LEMMA EnteredKeeps ==
    ASSUME RecInv, Entered
    PROVE  RecInv'
<1>1. /\ job.phase = "enter" /\ job.steps = <<>> /\ seenState' = recState
      /\ Answers(job.intent, job.ok) /\ GoesOn(recState # "ERROR" /\ job.ok)
      /\ UNCHANGED <<recState, recJobs>> /\ OthersSame
  BY DEF Entered
<1>2. job.ok \in BOOLEAN
  BY DEF RecInv, RecTypes, MachineTypes, Jobs
<1>3. Active /\ ~CleansOut
  BY <1>1 DEF Active, CleansOut, Executing
<1>4. recState # "RECORDING_SETTING" \/ job.intent # "PREPARE"
  BY <1>1 DEF RecInv, RecSafe, SeenInTime
<1> QED BY <1>1, <1>2, <1>3, <1>4, GoesOnIs, JobEnds

\* The transitions: from which state, and with which intent.
LEMMA TargetIs ==
    ASSUME RecInv, job.phase = "execute", NEW to, to = Target(job.intent, Result), to \notin {"none", recState}
    PROVE  /\ \/ to = "RECORDING_SETTING" /\ recState = "INIT"
              \/ to = "READY" /\ recState = "RECORDING_SETTING" /\ job.intent = "NOTIFY_READY" /\ job.ok
              \/ to = "ERROR" /\ recState # "ERROR"
              \/ to = "RECORDING" /\ job.intent = "START" /\ recState \in {"READY", "PAUSE"}
              \/ to = "RECORDING" /\ job.intent = "RESUME" /\ recState = "PAUSE"
              \/ to = "PAUSE" /\ recState = "RECORDING"
              \/ to = "INIT" /\ job.intent \in Stops /\ recState \in {"RECORDING_SETTING", "PAUSE"}
              \/ to = "INIT" /\ job.intent = "RESET"
              \/ to = "INIT" /\ job.intent = "NOTIFY_COMPLETE" /\ recState = "RECORDING"
           /\ job.intent = "PREPARE" => to = "ERROR"
<1> DEFINE i == job.intent
<1>1. job.ok => Accepts(i)
  BY DEF RecInv, RecSafe, OkAccepted
<1>2. i \in Intents /\ job.ok \in BOOLEAN
  BY DEF RecInv, RecTypes, MachineTypes, Jobs
<1>3. i # "RESET" => (Result <=> job.ok)
  BY DEF Result
<1> HIDE DEF i
<1>4. to = Target(i, Result)
  BY DEF i
<1>5. CASE i \in {"SET_AUDIO_SOURCE", "SET_VIDEO_SOURCE", "CONFIGURE"}
  BY <1>1, <1>3, <1>4, <1>5, SMTT(60) DEF Target, Accepts, Stops, i
<1>6. CASE i \in {"NOTIFY_READY", "PREPARE"}
  BY <1>1, <1>3, <1>4, <1>6, SMTT(60) DEF Target, Accepts, Stops, i
<1>7. CASE i \in {"START", "RESUME", "PAUSE"}
  BY <1>1, <1>3, <1>4, <1>7, SMTT(60) DEF Target, Accepts, Stops, i
<1>8. CASE i \in {"STOP", "STOP_NOW"}
  BY <1>1, <1>3, <1>4, <1>8, SMTT(60) DEF Target, Accepts, Stops, i
<1>9. CASE i \in {"RESET", "NOTIFY_COMPLETE", "NOTIFY_ERROR"}
  BY <1>1, <1>3, <1>4, <1>9 DEF Target, Accepts, Stops, i
<1> QED BY <1>2, <1>5, <1>6, <1>7, <1>8, <1>9 DEF Intents

\* The machine changes its state: a job that stops has done its part before.
LEMMA TransitionKeeps ==
    ASSUME RecInv, OthersSame, UNCHANGED <<recJobs, seenState, pendingJobs, answer>>,
           job.phase = "execute", job.steps = <<>>,
           NEW to, to = Target(job.intent, Result), to \notin {"none", recState}, recState' = to,
           job' = [job EXCEPT !.phase = "enter", !.steps = EntrySteps(to, job.intent), !.ok = Result]
    PROVE  RecInv'
<1> DEFINE i == job.intent
           e == EntrySteps(to, i)
<1>1. /\ UNCHANGED <<fst, readyEvents, acap, vcap, venc, headers, mux, client, sent, built, linked>>
      /\ AudioMoves' = AudioMoves /\ AudioRests' = AudioRests /\ VideoIdle' = VideoIdle
      /\ VideoRests' = VideoRests /\ QueueEmpty' = QueueEmpty /\ VideoFits' = VideoFits
      /\ Covered' = Covered /\ Primed' = Primed
      /\ FileTypes' /\ CallFits' /\ ChainsGrow' /\ RecordsOneFile'
  BY OthersAre
<1>2. CallTypes'
  BY OthersAre DEF RecInv, RecTypes, CallTypes
<1>3. /\ \/ to = "RECORDING_SETTING" /\ recState = "INIT"
         \/ to = "READY" /\ recState = "RECORDING_SETTING" /\ i = "NOTIFY_READY" /\ job.ok
         \/ to = "ERROR" /\ recState # "ERROR"
         \/ to = "RECORDING" /\ i = "START" /\ recState \in {"READY", "PAUSE"}
         \/ to = "RECORDING" /\ i = "RESUME" /\ recState = "PAUSE"
         \/ to = "PAUSE" /\ recState = "RECORDING"
         \/ to = "INIT" /\ i \in Stops /\ recState \in {"RECORDING_SETTING", "PAUSE"}
         \/ to = "INIT" /\ i = "RESET"
         \/ to = "INIT" /\ i = "NOTIFY_COMPLETE" /\ recState = "RECORDING"
      /\ i = "PREPARE" => to = "ERROR"
  BY TargetIs
<1>4. job \in Jobs /\ Result \in BOOLEAN /\ i \in Intents /\ built \subseteq {"audio", "video"}
  BY DEF RecInv, RecTypes, MachineTypes, CallTypes, Jobs, Result
<1>5. /\ e \in Seq(StepKinds) /\ Ordered(e)
      /\ \A x : In(e, x) => \/ to = "RECORDING" /\ x \in StartKinds
                            \/ to = "PAUSE" /\ x \in PauseKinds
      /\ \A x : In(e, x) /\ x \in AudioKinds => "audio" \in built
      /\ \A x : In(e, x) /\ x \in VideoKinds => "video" \in built
      /\ to = "RECORDING" /\ i # "RESUME" => e # <<>> /\ Head(e) = "startFile"
  BY <1>4, EntryIs
<1> HIDE DEF e
<1>6. /\ job' \in Jobs /\ job'.phase = "enter" /\ job'.intent = i /\ job'.steps = e
  <2>1. job' = [job EXCEPT !.phase = "enter", !.steps = e, !.ok = Result]
    BY DEF e
  <2> QED BY <1>4, <1>5, <2>1 DEF Jobs
<1> HIDE DEF i
<1>7. i = job.intent
  BY DEF i
<1>8. \A x : ~In(<<>>, x)
  BY DEF In
<1>9. (\A x : ~Has(x)) /\ ~Starting
  BY <1>8 DEF Has, Starting
<1>10. Active /\ Active'
  BY <1>6 DEF Active
<1>11. MachineTypes'
  <2>1. to \in RecStates
    BY <1>3 DEF RecStates
  <2> QED BY <1>6, <2>1 DEF RecInv, RecTypes, MachineTypes
<1>12. StepsInOrder' /\ OkAccepted'
  BY <1>5, <1>6 DEF StepsInOrder, OkAccepted
<1>13. StepsBelong'
  <2> SUFFICES ASSUME NEW x \in StepKinds, In(e, x) PROVE Belongs(x)'
    BY <1>6 DEF StepsBelong, Has
  <2>1. \/ recState' = "RECORDING" /\ x \in StartKinds
        \/ recState' = "PAUSE" /\ x \in PauseKinds
    BY <1>5
  <2>2. (x \in AudioKinds => "audio" \in built') /\ (x \in VideoKinds => "video" \in built')
    BY <1>1, <1>5
  <2>3. CASE recState' = "RECORDING" /\ x \in StartKinds
    BY <1>6, <1>10, <2>2, <2>3 DEF Belongs, StartKinds, PauseKinds, PrepareKinds, DrainKinds, CleanKinds
  <2>4. CASE recState' = "PAUSE" /\ x \in PauseKinds
    BY <1>6, <1>10, <2>2, <2>4 DEF Belongs, StartKinds, PauseKinds, PrepareKinds, DrainKinds, CleanKinds
  <2> QED BY <2>1, <2>3, <2>4
<1>14. \A x \in PrepareKinds \cup CleanKinds : ~Has(x)'
  BY <1>5, <1>6 DEF Has, StartKinds, PauseKinds, PrepareKinds, CleanKinds
<1>15. \A x : Awaits(x)' = Awaits(x)
  BY <1>1 DEF Awaits
<1>16. OneCall' /\ OneReady'
  <2>1. (sent => client # <<>> /\ Head(client) \in Intents)'
    BY <1>1 DEF RecInv, RecSafe, OneCall
  <2>2. \A x \in ClientJobs : In(recJobs', x) => Awaits(x)' /\ ~(Active' /\ job'.intent \in ClientJobs)
    <3> SUFFICES ASSUME NEW x \in ClientJobs, In(recJobs, x)
                 PROVE  Awaits(x)' /\ ~(Active' /\ job'.intent \in ClientJobs)
      OBVIOUS
    <3>1. Awaits(x) /\ ~(Active /\ job.intent \in ClientJobs)
      BY DEF RecInv, RecSafe, OneCall
    <3> QED BY <1>6, <1>7, <1>10, <1>15, <3>1
  <2>3. \A x, y \in ClientJobs : ~Precedes(recJobs', x, y)
    BY DEF RecInv, RecSafe, OneCall
  <2>4. job.intent \in ClientJobs => Awaits(job.intent)
    BY <1>10 DEF RecInv, RecSafe, OneCall
  <2>5. (Active /\ job.intent \in ClientJobs => Awaits(job.intent))'
    <3>1. job'.intent = job.intent
      BY <1>6, <1>7
    <3> QED BY <1>1, <2>4, <3>1 DEF Awaits
  <2>6. OneCall'
    BY <2>1, <2>2, <2>3, <2>5 DEF OneCall
  <2>7. OneReady'
    BY <1>6, <1>7, <1>10, <1>14 DEF RecInv, RecSafe, OneReady
  <2> QED BY <2>6, <2>7
<1>17. SeenInTime'
  BY <1>3, <1>6 DEF SeenInTime
<1>18. Counted'
  BY <1>1, <1>14 DEF RecInv, RecSafe, Counted, PrepareKinds
<1>19. ~CleansUp' /\ ~CleansOut' /\ ~Leaves("STOP")' /\ ~Leaves("STOP_NOW")' /\ ~Executing("NOTIFY_READY")'
  BY <1>6 DEF CleansUp, CleansOut, Leaves, Executing
<1>20. /\ CleansUp => AudioRests /\ VideoRests /\ fst["muxer"] = "INITIALIZED"
       /\ Leaves("STOP") => AudioRests /\ VideoRests
       /\ Leaves("STOP_NOW") => mux.eos
       /\ ~(fst["muxer"] = "INITIALIZED" /\ venc.on)
  BY <1>9 DEF RecInv, RecSafe, CleaningUp
<1>21. CleaningUp'
  BY <1>1, <1>14, <1>19, <1>20 DEF CleaningUp, CleanKinds
<1>22. ReadyMeansFit'
  <2> SUFFICES ASSUME In(recJobs, "NOTIFY_READY") PROVE to = "ERROR"
    BY <1>19 DEF ReadyMeansFit, GetsReady
  <2>1. i \notin (ClientJobs \cup {"NOTIFY_READY"}) \ {"PREPARE"}
    BY <1>7, <1>10 DEF RecInv, RecSafe, OneReady
  <2>2. i \in {"PREPARE", "START", "NOTIFY_COMPLETE", "NOTIFY_ERROR"}
    BY <1>4, <1>7, <2>1 DEF ClientJobs, Intents
  <2>3. recState \in {"ERROR", "RECORDING_SETTING"}
    BY DEF RecInv, RecSafe, ReadyMeansFit, GetsReady
  <2> QED BY <1>3, <2>2, <2>3 DEF Stops
<1>23. RecordableFits'
  <2>1. SUFFICES ASSUME to \in {"READY", "RECORDING", "PAUSE"}
                 PROVE  VideoFits /\ (fst["muxer"] = "INITIALIZED" => "video" \in built)
    BY <1>1 DEF RecordableFits
  <2>2. CASE to = "READY"
    <3>1. GetsReady /\ recState = "RECORDING_SETTING"
      BY <1>3, <1>7, <2>2 DEF GetsReady, Executing
    <3> QED BY <3>1 DEF RecInv, RecSafe, ReadyMeansFit
  <2>3. CASE to # "READY"
    <3>1. recState \in {"READY", "RECORDING", "PAUSE"}
      BY <1>3, <2>1, <2>3
    <3>2. CASE i \in {"START", "RESUME", "PAUSE"}
      <4>1. ~CleansOut
        BY <1>7, <3>2 DEF CleansOut, Executing
      <4> QED BY <3>1, <4>1 DEF RecInv, RecSafe, RecordableFits
    <3>3. i = "PAUSE" \/ to # "PAUSE"
      BY <1>7, <2>3 DEF Target
    <3> QED BY <1>3, <2>1, <2>3, <3>2, <3>3
  <2> QED BY <2>2, <2>3
<1>24. RestsOutOfRecording'
  <2>1. SUFFICES ASSUME to \in {"INIT", "RECORDING_SETTING", "READY"}
                 PROVE  mux.eos \/ (AudioRests /\ VideoRests)
    BY <1>1 DEF RestsOutOfRecording
  <2>2. CASE recState \in {"INIT", "RECORDING_SETTING", "READY"}
    BY <2>2 DEF RecInv, RecSafe, RestsOutOfRecording
  <2>3. CASE i \in Stops /\ recState = "PAUSE"
    <3>1. Leaves("STOP") \/ Leaves("STOP_NOW")
      BY <1>7, <2>3 DEF Leaves, Executing, Stops
    <3> QED BY <1>20, <3>1
  <2>4. CASE i = "RESET" \/ (i = "NOTIFY_COMPLETE" /\ recState = "RECORDING")
    <3>1. CleansUp
      BY <1>7, <2>4 DEF CleansUp, Executing
    <3> QED BY <1>20, <3>1
  <2> QED BY <1>3, <2>1, <2>2, <2>3, <2>4
<1>25. to = "RECORDING" /\ i # "RESUME" => Starting'
  BY <1>5, <1>6 DEF Starting
<1>26. CoveredInRecording'
  BY <1>1, <1>3, <1>9, <1>25 DEF RecInv, RecSafe, CoveredInRecording
<1>27. PrimedRests'
  <2>1. SUFFICES ASSUME Primed PROVE to \in {"READY", "ERROR"} \/ Starting'
    BY <1>1 DEF PrimedRests, RecInv, RecSafe
  <2>2. recState \in {"READY", "ERROR"} \/ (recState = "RECORDING_SETTING" /\ Preparing)
    BY <1>9, <2>1 DEF RecInv, RecSafe, PrimedRests
  <2>3. i # "RESET"
    <3>1. fst["muxer"] # "INITIALIZED"
      BY <2>1 DEF Primed, Works
    <3> QED BY <1>7, <1>20, <3>1 DEF CleansUp, Executing
  <2>4. ~(i \in Stops /\ recState = "RECORDING_SETTING")
    <3>1. SUFFICES ASSUME i \in Stops, recState = "RECORDING_SETTING" PROVE FALSE
      OBVIOUS
    <3>2. Awaits(i)
      BY <1>7, <1>10, <3>1 DEF RecInv, RecSafe, OneCall, Stops, ClientJobs, Intents
    <3> QED BY <2>2, <3>1, <3>2 DEF Awaits, Preparing, Stops
  <2> QED BY <1>3, <1>25, <2>2, <2>3, <2>4
<1>28. RecSafe'
  BY <1>1, <1>12, <1>13, <1>16, <1>17, <1>18, <1>21, <1>22, <1>23, <1>24, <1>26, <1>27 DEF RecSafe
<1> QED BY <1>1, <1>2, <1>11, <1>28 DEF RecInv, RecTypes

LEMMA ExecutedKeeps ==
    ASSUME RecInv, Executed
    PROVE  RecInv'
<1> DEFINE i == job.intent
           to == Target(i, Result)
<1>1. /\ job.phase = "execute" /\ job.steps = <<>> /\ UNCHANGED <<seenState, recJobs>> /\ OthersSame
  BY DEF Executed
<1>2. \/ PutOff(i) /\ pendingJobs' = Append(pendingJobs, i) /\ job' = NoJob /\ UNCHANGED <<recState, answer>>
      \/ /\ ~PutOff(i) /\ to \in {"none", recState} /\ Answers(i, Result)
         /\ GoesOn(to # "none" /\ to # "ERROR" /\ Result) /\ UNCHANGED recState
      \/ /\ to \notin {"none", recState} /\ recState' = to
         /\ job' = [job EXCEPT !.phase = "enter", !.steps = EntrySteps(to, i), !.ok = Result]
         /\ UNCHANGED <<pendingJobs, answer>>
  BY DEF Executed
<1>3. Result \in BOOLEAN /\ answer \in {"none", "ok", "bad"} /\ pendingJobs \in Seq({"START"})
  BY DEF RecInv, RecTypes, MachineTypes, CallTypes, Jobs, Result
<1>4. Active /\ seenState = recState
  BY <1>1 DEF Active, RecInv, RecSafe, SeenInTime
<1>5. CASE PutOff(i) /\ pendingJobs' = Append(pendingJobs, i) /\ job' = NoJob /\ UNCHANGED <<recState, answer>>
  <2>1. i = "START" /\ ~CleansOut
    BY <1>5 DEF PutOff, CleansOut, Executing
  <2>2. pendingJobs' \in Seq({"START"})
    BY <1>3, <1>5, <2>1, AppendProperties
  <2>3. job' \in Jobs /\ job'.phase = "none" /\ job'.steps = <<>>
    <3>1. <<>> \in Seq(StepKinds) /\ "START" \in Intents
      BY DEF Intents
    <3> QED BY <1>5, <3>1 DEF NoJob, Jobs
  <2> QED BY <1>1, <1>3, <1>4, <1>5, <2>1, <2>2, <2>3, JobEnds
<1>6. CASE /\ to \in {"none", recState} /\ Answers(i, Result)
           /\ GoesOn(to # "none" /\ to # "ERROR" /\ Result) /\ UNCHANGED recState
  <2>1. /\ job' \in Jobs /\ job'.phase \in {"none", "late"} /\ job'.steps = <<>>
        /\ pendingJobs' \in Seq({"START"})
        /\ answer' \in {"none", "ok", "bad"}
        /\ answer' # answer => sent /\ Head(client) = job.intent
        /\ Result => answer' \in {answer, "ok"}
    BY <1>3, <1>6, GoesOnIs
  <2>2. recState = "RECORDING_SETTING" /\ i = "PREPARE" => Result
    BY <1>6 DEF Target
  <2>3. ~CleansOut \/ recState \notin {"READY", "RECORDING", "PAUSE"}
    <3>1. CASE Executing("RESET")
      <4>1. i = "RESET"
        BY <3>1 DEF Executing
      <4>2. to = "INIT"
        BY <4>1 DEF Target, Stops
      <4> QED BY <1>6, <4>2
    <3>2. CASE Executing("NOTIFY_COMPLETE") /\ recState = "RECORDING" /\ job.ok
      <4>1. i = "NOTIFY_COMPLETE" /\ Result
        BY <3>2 DEF Executing, Result
      <4>2. to = "INIT"
        BY <3>2, <4>1 DEF Target, Stops
      <4> QED BY <1>6, <3>2, <4>2
    <3> QED BY <3>1, <3>2 DEF CleansOut
  <2> QED BY <1>1, <1>4, <1>6, <2>1, <2>2, <2>3, JobEnds
<1>7. CASE /\ to \notin {"none", recState} /\ recState' = to
           /\ job' = [job EXCEPT !.phase = "enter", !.steps = EntrySteps(to, i), !.ok = Result]
           /\ UNCHANGED <<pendingJobs, answer>>
  BY <1>1, <1>7, TransitionKeeps
<1> QED BY <1>2, <1>5, <1>6, <1>7

-----------------------------------------------------------------------------
(* The client.                                                             *)

\* What the client does leaves the recording as it is.
LEMMA ClientKeeps ==
    ASSUME RecInv, UNCHANGED <<fsmVars, recPipeVars, mux, headers, built, linked, acap, vcap, venc>>,
           CallTypes', recJobs' \in Seq(Intents), In(recJobs', "NOTIFY_READY") => In(recJobs, "NOTIFY_READY"),
           OneCall', OneReady', CallFits', Preparing => Preparing'
    PROVE  RecInv'
<1>1. UNCHANGED <<recState, seenState, pendingJobs, job, fst, readyEvents, mux, headers, built, linked,
                  acap, vcap, venc>>
  BY DEF fsmVars, recPipeVars
<1>2. \A x : Has(x)' = Has(x)
  BY <1>1 DEF Has
<1>3. /\ Active' = Active /\ CleansUp' = CleansUp /\ CleansOut' = CleansOut /\ Starting' = Starting
      /\ Leaves("STOP")' = Leaves("STOP") /\ Leaves("STOP_NOW")' = Leaves("STOP_NOW")
      /\ Executing("NOTIFY_READY")' = Executing("NOTIFY_READY") /\ Executing("PREPARE")' = Executing("PREPARE")
  BY <1>1 DEF Active, CleansUp, CleansOut, Starting, Leaves, Executing
<1>4. /\ AudioMoves' = AudioMoves /\ AudioRests' = AudioRests /\ VideoIdle' = VideoIdle
      /\ VideoRests' = VideoRests /\ QueueEmpty' = QueueEmpty /\ VideoFits' = VideoFits
      /\ Covered' = Covered /\ Primed' = Primed
  BY <1>1 DEF AudioMoves, AudioRests, VideoIdle, VideoRests, QueueEmpty, VideoFits, Covered, Primed, Works
<1>5. MachineTypes' /\ FileTypes'
  BY <1>1 DEF RecInv, RecTypes, MachineTypes, FileTypes, MuxTypes
<1>6. StepsBelong' /\ StepsInOrder'
  <2>1. \A x \in StepKinds : Belongs(x)' = Belongs(x)
    BY <1>1, <1>3 DEF Belongs
  <2>2. StepsBelong'
    BY <1>2, <2>1 DEF RecInv, RecSafe, StepsBelong
  <2>3. StepsInOrder'
    BY <1>1 DEF RecInv, RecSafe, StepsInOrder
  <2> QED BY <2>2, <2>3
<1>7. SeenInTime' /\ OkAccepted'
  BY <1>1 DEF RecInv, RecSafe, SeenInTime, OkAccepted, Accepts
<1>8. ChainsGrow' /\ Counted'
  BY <1>1, <1>2, <1>4 DEF RecInv, RecSafe, ChainsGrow, Counted
<1>9. ReadyMeansFit'
  <2>1. GetsReady' => GetsReady
    BY <1>1, <1>3 DEF GetsReady
  <2> QED BY <1>1, <1>4, <2>1 DEF RecInv, RecSafe, ReadyMeansFit
<1>10. RecordableFits' /\ CleaningUp'
  BY <1>1, <1>2, <1>3, <1>4 DEF RecInv, RecSafe, RecordableFits, CleaningUp
<1>11. RestsOutOfRecording' /\ CoveredInRecording' /\ PrimedRests' /\ RecordsOneFile'
  BY <1>1, <1>3, <1>4 DEF RecInv, RecSafe, RestsOutOfRecording, CoveredInRecording, PrimedRests, RecordsOneFile
<1>12. RecSafe'
  BY <1>6, <1>7, <1>8, <1>9, <1>10, <1>11 DEF RecSafe
<1> QED BY <1>5, <1>12 DEF RecInv, RecTypes

\* A client that waits for no answer has no job in the machine.
LEMMA NoneIsCalled ==
    ASSUME RecInv, \A x \in ClientJobs : ~Awaits(x)
    PROVE  /\ \A x \in ClientJobs : ~In(recJobs, x)
           /\ ~(Active /\ job.intent \in ClientJobs)
  BY DEF RecInv, RecSafe, OneCall

LEMMA SendEventKeeps ==
    ASSUME RecInv, SendEvent
    PROVE  RecInv'
<1> DEFINE h == Head(client)
<1>1. /\ client # <<>> /\ ~sent /\ h \in Intents /\ recJobs' = Append(recJobs, h) /\ sent' = TRUE /\ answer' = "none"
      /\ UNCHANGED <<fsmVars, recPipeVars, client, mux, headers, built, linked, acap, vcap, venc>>
  BY DEF SendEvent
<1>2. h \in ClientJobs \cup {"START"}
  <2>1. client \in Seq(ClientSteps)
    BY DEF RecInv, RecTypes, CallTypes
  <2>2. h \in ClientSteps
    BY <1>1, <2>1, HeadTailProperties
  <2>3. "ready?" \notin Intents /\ "init?" \notin Intents
    BY DEF Intents
  <2> QED BY <1>1, <2>2, <2>3 DEF ClientSteps
<1>3. client' = client /\ Head(client') = h /\ UNCHANGED <<job, seenState>>
  BY <1>1 DEF fsmVars
<1> HIDE DEF h
<1>4. recJobs \in Seq(Intents)
  BY DEF RecInv, RecTypes, MachineTypes
<1>5. recJobs' \in Seq(Intents)
  BY <1>1, <1>4, AppendIn
<1>6. \A x : In(recJobs', x) <=> In(recJobs, x) \/ x = h
  BY <1>1, <1>4, AppendIn
<1>7. \A x, y : Precedes(recJobs', x, y) => Precedes(recJobs, x, y) \/ (In(recJobs, x) /\ y = h)
  BY <1>1, <1>4, AppendIn
<1>8. \A x \in ClientJobs : ~In(recJobs, x)
  BY <1>1, NoneIsCalled DEF Awaits
<1>9. ~(Active /\ job.intent \in ClientJobs)
  BY <1>1, NoneIsCalled DEF Awaits
<1>10. Active' = Active /\ job'.intent = job.intent /\ \A x : Has(x)' = Has(x)
  BY <1>3 DEF Active, Has
<1>11. "NOTIFY_READY" \notin ClientJobs \cup {"START"}
  BY DEF ClientJobs
<1>12. OneCall'
  <2>1. (sent => client # <<>> /\ Head(client) \in Intents)'
    BY <1>1, <1>3
  <2>2. \A x \in ClientJobs : In(recJobs', x) => Awaits(x)' /\ ~(Active' /\ job'.intent \in ClientJobs)
    <3> SUFFICES ASSUME NEW x \in ClientJobs, In(recJobs', x) PROVE Awaits(x)'
      BY <1>9, <1>10
    <3>1. x = h
      BY <1>6, <1>8
    <3> QED BY <1>1, <1>3, <3>1 DEF Awaits
  <2>3. \A x, y \in ClientJobs : ~Precedes(recJobs', x, y)
    BY <1>7, <1>8 DEF RecInv, RecSafe, OneCall
  <2>4. (Active /\ job.intent \in ClientJobs => Awaits(job.intent))'
    BY <1>9, <1>10
  <2> QED BY <2>1, <2>2, <2>3, <2>4 DEF OneCall
<1>13. In(recJobs', "NOTIFY_READY") => In(recJobs, "NOTIFY_READY")
  BY <1>2, <1>6, <1>11
<1>14. OneReady'
  <2>1. \A x \in ClientJobs \cup {"NOTIFY_READY"} : ~Precedes(recJobs', x, "NOTIFY_READY")
    BY <1>2, <1>7, <1>11 DEF RecInv, RecSafe, OneReady
  <2> QED BY <1>10, <1>13, <2>1 DEF RecInv, RecSafe, OneReady
<1>15. CallTypes' /\ CallFits'
  BY <1>1 DEF RecInv, RecTypes, CallTypes, RecSafe, CallFits
<1>16. ~Preparing
  <2>1. "ready?" \notin Intents
    BY DEF Intents
  <2> QED BY <1>1, <2>1 DEF Preparing, h
<1> QED BY <1>1, <1>5, <1>12, <1>13, <1>14, <1>15, <1>16, ClientKeeps

\* The rest of a call fits as the call did.
LEMMA RestFits ==
    ASSUME client \in Seq(ClientSteps), client # <<>>, CallFits, client' = Tail(client)
    PROVE  /\ client' \in Seq(ClientSteps) /\ CallFits'
           /\ Head(client) = "PREPARE" => client' # <<>> /\ Head(client') = "ready?"
<1> DEFINE s == client
           t == Tail(s)
<1>1. /\ t \in Seq(ClientSteps) /\ Len(t) = Len(s) - 1 /\ Len(s) \in Nat \ {0}
      /\ \A i \in 1 .. Len(t) : t[i] = s[i + 1]
  BY HeadTailProperties, EmptySeq
<1>2. Head(s) = s[1] /\ DOMAIN s = 1 .. Len(s)
  BY LenProperties, HeadTailProperties
<1>3. /\ \A x, y : Precedes(t, x, y) => Precedes(s, x, y)
      /\ \A x, y : Follows(s, x, y) => Follows(t, x, y)
  BY TailOrder
<1>4. Follows(s, "PREPARE", "ready?") /\ ~Precedes(s, "ready?", "PREPARE")
  BY DEF CallFits
<1>5. client' = t
  OBVIOUS
<1> HIDE DEF s, t
<1>6. CallFits'
  BY <1>3, <1>4, <1>5 DEF CallFits
<1>7. ASSUME Head(s) = "PREPARE" PROVE t # <<>> /\ Head(t) = "ready?"
  <2>1. 1 \in DOMAIN s /\ s[1] = "PREPARE"
    BY <1>1, <1>2, <1>7
  <2>2. 1 + 1 \in DOMAIN s /\ s[1 + 1] = "ready?"
    BY <1>4, <2>1 DEF Follows
  <2>3. Len(t) # 0 /\ 1 \in 1 .. Len(t)
    BY <1>1, <1>2, <2>2
  <2>4. t # <<>> /\ t[1] = "ready?"
    BY <1>1, <2>2, <2>3, EmptySeq
  <2> QED BY <1>1, <2>4, HeadTailProperties
<1> QED BY <1>1, <1>5, <1>6, <1>7 DEF s

\* A call that goes on, and waits for no answer any more.
LEMMA CallGoesOn ==
    ASSUME RecInv, UNCHANGED <<fsmVars, recPipeVars, fileVars, built, linked, acap, vcap, venc>>,
           ~sent', sent' \in BOOLEAN, answer' \in {"none", "ok", "bad"}, \A x \in ClientJobs : ~Awaits(x),
           client' \in Seq(ClientSteps), CallFits', Preparing => Preparing'
    PROVE  RecInv'
<1>1. UNCHANGED <<job, mux, recJobs, headers>>
  BY DEF fsmVars, fileVars
<1>2. (\A x \in ClientJobs : ~In(recJobs, x)) /\ ~(Active /\ job.intent \in ClientJobs)
  BY NoneIsCalled
<1>3. Active' = Active /\ \A x : Has(x)' = Has(x)
  BY <1>1 DEF Active, Has
<1>4. OneCall'
  <2>1. \A x, y \in ClientJobs : ~Precedes(recJobs', x, y)
    BY <1>1 DEF RecInv, RecSafe, OneCall
  <2>2. (Active /\ job.intent \in ClientJobs => Awaits(job.intent))'
    BY <1>1, <1>2, <1>3
  <2> QED BY <1>1, <1>2, <2>1, <2>2 DEF OneCall
<1>5. OneReady'
  BY <1>1, <1>3 DEF RecInv, RecSafe, OneReady
<1>6. CallTypes' /\ recJobs' \in Seq(Intents)
  BY <1>1 DEF RecInv, RecTypes, MachineTypes, CallTypes
<1> QED BY <1>1, <1>4, <1>5, <1>6, ClientKeeps

LEMMA AnsweredKeeps ==
    ASSUME RecInv, Answered
    PROVE  RecInv'
<1>1. /\ sent /\ answer # "none" /\ sent' = FALSE /\ answer' = "none"
      /\ client' = IF answer = "bad" /\ Len(client) > 1 /\ client[2] \notin Intents
                   THEN Tail(Tail(client)) ELSE Tail(client)
      /\ UNCHANGED <<fsmVars, recPipeVars, fileVars, built, linked, acap, vcap, venc>>
  BY DEF Answered
<1>2. client \in Seq(ClientSteps) /\ client # <<>> /\ Head(client) \in Intents /\ CallFits
  BY <1>1 DEF RecInv, RecTypes, CallTypes, RecSafe, OneCall
<1>3. \A x \in ClientJobs : ~Awaits(x)
  BY <1>1 DEF Awaits
<1>4. client' \in Seq(ClientSteps) /\ CallFits'
  <2>1. CASE client' = Tail(client)
    BY <1>2, <2>1, RestFits
  <2>2. CASE client' = Tail(Tail(client)) /\ Len(client) > 1
    <3> DEFINE s == client
               t == Tail(s)
               u == Tail(t)
    <3>1. t \in Seq(ClientSteps) /\ Len(t) = Len(s) - 1
      BY <1>2, HeadTailProperties
    <3>2. Len(s) > 1 /\ Len(s) \in Nat
      BY <1>2, <2>2, LenProperties
    <3>3. \A x, y : /\ Precedes(t, x, y) => Precedes(s, x, y)
                    /\ Follows(s, x, y) => Follows(t, x, y)
      BY <1>2, TailOrder
    <3>4. Follows(s, "PREPARE", "ready?") /\ ~Precedes(s, "ready?", "PREPARE")
      BY <1>2 DEF CallFits
    <3>5. client' = u
      BY <2>2
    <3> HIDE DEF s, t
    <3>6. t # <<>>
      BY <3>1, <3>2, EmptySeq
    <3>7. u \in Seq(ClientSteps)
      BY <3>1, <3>6, HeadTailProperties
    <3>8. \A x, y : /\ Precedes(u, x, y) => Precedes(t, x, y)
                    /\ Follows(t, x, y) => Follows(u, x, y)
      BY <3>1, <3>6, TailOrder
    <3> HIDE DEF u
    <3> QED BY <3>3, <3>4, <3>5, <3>7, <3>8 DEF CallFits
  <2> QED BY <1>1, <2>1, <2>2
<1>5. Preparing => Preparing'
  <2> SUFFICES ASSUME Preparing PROVE Preparing'
    OBVIOUS
  <2>1. "ready?" \notin Intents
    BY DEF Intents
  <2>2. Head(client) = "PREPARE" /\ answer # "bad" /\ seenState = "RECORDING_SETTING"
    BY <1>2, <2>1 DEF Preparing
  <2>3. client' = Tail(client)
    BY <1>1, <2>2
  <2>4. client' # <<>> /\ Head(client') = "ready?"
    BY <1>2, <2>2, <2>3, RestFits
  <2> QED BY <1>1, <2>2, <2>4 DEF Preparing, fsmVars
<1> QED BY <1>1, <1>3, <1>4, <1>5, CallGoesOn

LEMMA WaitsEnd ==
    ASSUME RecInv, SendTimesOut \/ StateReached
    PROVE  RecInv'
<1>1. /\ client # <<>> /\ client' = Tail(client) /\ answer' = answer
      /\ UNCHANGED <<fsmVars, recPipeVars, fileVars, built, linked, acap, vcap, venc>>
      /\ \/ Head(client) = "START" /\ sent' = FALSE /\ sent
         \/ Head(client) = "ready?" /\ seenState # "RECORDING_SETTING" /\ sent' = sent
         \/ Head(client) = "init?" /\ sent' = sent
  BY DEF SendTimesOut, StateReached, RecInv, RecSafe, OneCall
<1>2. client \in Seq(ClientSteps) /\ CallFits /\ sent \in BOOLEAN /\ answer \in {"none", "ok", "bad"}
  BY DEF RecInv, RecTypes, CallTypes, RecSafe
<1>3. \A x \in ClientJobs : ~Awaits(x)
  <2>1. {"START", "ready?", "init?"} \cap ClientJobs = {}
    BY DEF ClientJobs, Intents
  <2> QED BY <1>1, <2>1 DEF Awaits
<1>4. ~sent' /\ sent' \in BOOLEAN
  <2>1. "ready?" \notin Intents /\ "init?" \notin Intents
    BY DEF Intents
  <2>2. sent => Head(client) \in Intents
    BY DEF RecInv, RecSafe, OneCall
  <2>3. CASE Head(client) = "START" /\ sent' = FALSE
    BY <2>3
  <2>4. CASE Head(client) \in {"ready?", "init?"} /\ sent' = sent
    <3>1. ~sent
      BY <2>1, <2>2, <2>4
    <3> QED BY <1>2, <2>4, <3>1
  <2> QED BY <1>1, <2>3, <2>4
<1>5. client' \in Seq(ClientSteps) /\ CallFits'
  BY <1>1, <1>2, RestFits
<1>6. ~Preparing
  BY <1>1 DEF Preparing
<1> QED BY <1>1, <1>2, <1>3, <1>4, <1>5, <1>6, CallGoesOn

\* A call of the client makes jobs, and PREPARE is followed by the wait for READY.
LEMMA OwnStepsFit ==
    ASSUME NEW c \in RecApi, c \notin {"SetAudio", "SetVideo"}, client' = OwnSteps(c)
    PROVE  client' \in Seq(ClientSteps) /\ CallFits'
<1> DEFINE e == client'
           a == <<"STOP_NOW", "init?">>
           b == <<"RESET">>
<1>1. c \in {"Configure", "Prepare", "Start", "Pause", "Resume", "Stop", "StopNow", "Reset"}
  BY RecorderAssumption
<1>2. \/ c # "Prepare" /\ \E x \in {"CONFIGURE", "RESUME", "START", "PAUSE", "RESET"} : e = <<x>>
      \/ c # "Prepare" /\ \E x \in {"STOP", "STOP_NOW"} : e = <<x, "init?">>
      \/ c = "Prepare" /\ e = <<"PREPARE", "ready?">>
      \/ c # "Prepare" /\ e = a \o b
      \/ c # "Prepare" /\ e = <<>> \o b
  BY <1>1 DEF OwnSteps, StopCall
<1>3. {"CONFIGURE", "RESUME", "START", "PAUSE", "RESET", "STOP", "STOP_NOW", "init?", "PREPARE", "ready?"}
        \subseteq ClientSteps
  BY DEF ClientSteps, ClientJobs, Intents
<1>4. a \in Seq(ClientSteps) /\ b \in Seq(ClientSteps) /\ <<>> \in Seq(ClientSteps)
  BY <1>3, Tuples
<1>5. \A x : /\ In(a, x) <=> x \in {"STOP_NOW", "init?"}
             /\ In(b, x) <=> x = "RESET"
             /\ ~In(<<>>, x)
  BY DEF In
<1> HIDE DEF e, a, b
<1>6. CASE c # "Prepare"
  <2>1. e \in Seq(ClientSteps) /\ ~In(e, "PREPARE")
    <3>1. CASE \E x \in {"CONFIGURE", "RESUME", "START", "PAUSE", "RESET"} : e = <<x>>
      BY <1>3, <3>1 DEF In
    <3>2. CASE \E x \in {"STOP", "STOP_NOW"} : e = <<x, "init?">>
      BY <1>3, <3>2 DEF In
    <3>3. CASE e = a \o b
      <4> DEFINE ab == a \o b
      <4>1. ab \in Seq(ClientSteps) /\ (In(ab, "PREPARE") <=> In(a, "PREPARE") \/ In(b, "PREPARE"))
        BY <1>4, ConcatIn
      <4>2. e = ab
        BY <3>3
      <4> HIDE DEF ab
      <4> QED BY <1>5, <4>1, <4>2
    <3>4. CASE e = <<>> \o b
      <4> DEFINE nb == <<>> \o b
      <4>1. nb \in Seq(ClientSteps) /\ (In(nb, "PREPARE") <=> In(<<>>, "PREPARE") \/ In(b, "PREPARE"))
        BY <1>4, ConcatIn
      <4>2. e = nb
        BY <3>4
      <4> HIDE DEF nb
      <4> QED BY <1>5, <4>1, <4>2
    <3> QED BY <1>2, <1>6, <3>1, <3>2, <3>3, <3>4
  <2>2. ~Precedes(e, "ready?", "PREPARE")
    BY <2>1 DEF Precedes, In
  <2>3. Follows(e, "PREPARE", "ready?")
    BY <2>1, NoneFollows
  <2> QED BY <2>1, <2>2, <2>3 DEF CallFits, e
<1>7. CASE c = "Prepare"
  <2>1. e = <<"PREPARE", "ready?">>
    BY <1>2, <1>7
  <2>2. e \in Seq(ClientSteps)
    BY <1>3, <2>1, Tuples
  <2>3. ~Precedes(e, "ready?", "PREPARE") /\ Follows(e, "PREPARE", "ready?")
    BY <2>1 DEF Precedes, Follows
  <2> QED BY <2>2, <2>3 DEF CallFits, e
<1> QED BY <1>6, <1>7

\* A new call meets a machine without a job of the client's; a chain it builds is at rest.
LEMMA CallBegins ==
    ASSUME RecInv, client = <<>>,
           UNCHANGED <<fsmVars, fileVars, sent, answer, readyEvents, acap, vcap, venc>>,
           client' \in Seq(ClientSteps), CallFits',
           built \subseteq built', built' \subseteq {"audio", "video"}, linked \subseteq linked', linked' \subseteq built',
           fst' \in [RecFilters -> RecFilterStates], fst'["muxer"] = fst["muxer"],
           "video" \in linked' \ linked => "video" \notin built /\ fst["muxer"] = "INITIALIZED"
    PROVE  RecInv'
<1>1. UNCHANGED <<recState, seenState, pendingJobs, job, mux, recJobs, headers>>
  BY DEF fsmVars, fileVars
<1>2. \A x : Has(x)' = Has(x)
  BY <1>1 DEF Has
<1>3. /\ Active' = Active /\ CleansUp' = CleansUp /\ CleansOut' = CleansOut /\ Starting' = Starting
      /\ Leaves("STOP")' = Leaves("STOP") /\ Leaves("STOP_NOW")' = Leaves("STOP_NOW")
      /\ Executing("NOTIFY_READY")' = Executing("NOTIFY_READY") /\ Executing("PREPARE")' = Executing("PREPARE")
  BY <1>1 DEF Active, CleansUp, CleansOut, Starting, Leaves, Executing
<1>4. /\ AudioMoves' = AudioMoves /\ AudioRests' = AudioRests /\ VideoIdle' = VideoIdle
      /\ QueueEmpty' = QueueEmpty /\ Covered' = Covered /\ Primed' = Primed
  BY <1>1 DEF AudioMoves, AudioRests, VideoIdle, QueueEmpty, Covered, Primed, Works
<1>5. ~sent /\ ~sent' /\ ~Preparing /\ \A x \in ClientJobs : ~Awaits(x)
  BY DEF RecInv, RecSafe, OneCall, Preparing, Awaits
<1>6. (\A x \in ClientJobs : ~In(recJobs, x)) /\ ~(Active /\ job.intent \in ClientJobs)
  BY <1>5, NoneIsCalled
<1>7. MachineTypes' /\ CallTypes' /\ FileTypes'
  <2>1. MachineTypes'
    BY <1>1 DEF RecInv, RecTypes, MachineTypes
  <2>2. CallTypes'
    BY DEF RecInv, RecTypes, CallTypes
  <2>3. FileTypes'
    BY <1>1 DEF RecInv, RecTypes, FileTypes, MuxTypes
  <2> QED BY <2>1, <2>2, <2>3
<1>8. StepsBelong' /\ StepsInOrder'
  <2>1. \A x \in StepKinds : Belongs(x) => Belongs(x)'
    BY <1>1, <1>3 DEF Belongs
  <2>2. StepsBelong'
    BY <1>2, <2>1 DEF RecInv, RecSafe, StepsBelong
  <2>3. StepsInOrder'
    BY <1>1 DEF RecInv, RecSafe, StepsInOrder
  <2> QED BY <2>2, <2>3
<1>9. SeenInTime' /\ OkAccepted'
  BY <1>1 DEF RecInv, RecSafe, SeenInTime, OkAccepted, Accepts
<1>10. OneCall' /\ OneReady'
  <2>1. \A x, y \in ClientJobs : ~Precedes(recJobs', x, y)
    BY <1>1 DEF RecInv, RecSafe, OneCall
  <2>2. (Active /\ job.intent \in ClientJobs => Awaits(job.intent))'
    BY <1>1, <1>3, <1>6
  <2>3. OneCall'
    BY <1>1, <1>5, <1>6, <2>1, <2>2 DEF OneCall
  <2>4. OneReady'
    BY <1>1, <1>2, <1>3 DEF RecInv, RecSafe, OneReady
  <2> QED BY <2>3, <2>4
<1>11. "video" \in linked' \ linked => VideoIdle
  BY DEF RecInv, RecSafe, ChainsGrow
<1>12. ChainsGrow'
  BY <1>4, <1>11 DEF RecInv, RecSafe, ChainsGrow
<1>13. VideoRests => VideoRests'
  BY <1>4, <1>11 DEF VideoRests
<1>14. Counted'
  BY <1>1, <1>2 DEF RecInv, RecSafe, Counted
<1>15. ReadyMeansFit'
  <2>1. GetsReady' => recState = "ERROR"
    BY <1>1, <1>3, <1>5 DEF GetsReady, RecInv, RecSafe, ReadyMeansFit
  <2> QED BY <1>1, <2>1 DEF ReadyMeansFit
<1>16. RecordableFits'
  <2>1. SUFFICES ASSUME recState \in {"READY", "RECORDING", "PAUSE"}
                 PROVE  /\ VideoFits' \/ (CleansOut /\ ~Has("stopVideo"))
                        /\ fst["muxer"] = "INITIALIZED" => "video" \in built' \/ CleansOut
    BY <1>1, <1>2, <1>3 DEF RecordableFits
  <2>2. /\ VideoFits \/ (CleansOut /\ ~Has("stopVideo"))
        /\ fst["muxer"] = "INITIALIZED" => "video" \in built \/ CleansOut
    BY <2>1 DEF RecInv, RecSafe, RecordableFits
  <2>3. CASE "video" \in linked' \ linked
    <3>1. CleansOut
      BY <2>2, <2>3
    <3>2. ~Has("stopVideo")
      BY <2>3 DEF RecInv, RecSafe, StepsBelong, Belongs, StepKinds, CleanKinds, VideoKinds
    <3> QED BY <3>1, <3>2
  <2>4. CASE "video" \notin linked' \ linked
    <3>1. VideoFits => VideoFits'
      BY <2>4 DEF VideoFits
    <3> QED BY <2>2, <3>1
  <2> QED BY <2>3, <2>4
<1>17. CleaningUp'
  BY <1>1, <1>2, <1>3, <1>4, <1>13 DEF RecInv, RecSafe, CleaningUp
<1>18. RestsOutOfRecording' /\ CoveredInRecording' /\ PrimedRests' /\ RecordsOneFile'
  BY <1>1, <1>3, <1>4, <1>5, <1>13
  DEF RecInv, RecSafe, RestsOutOfRecording, CoveredInRecording, PrimedRests, RecordsOneFile
<1>19. RecSafe'
  BY <1>8, <1>9, <1>10, <1>12, <1>14, <1>15, <1>16, <1>17, <1>18 DEF RecSafe
<1> QED BY <1>7, <1>19 DEF RecInv, RecTypes

LEMMA RecCallKeeps ==
    ASSUME RecInv, NEW c \in RecApi, RecCall(c)
    PROVE  RecInv'
<1>1. client = <<>> /\ UNCHANGED <<fsmVars, fileVars, sent, answer, readyEvents, acap, vcap, venc>>
  BY DEF RecCall
<1>2. /\ built \subseteq {"audio", "video"} /\ linked \subseteq built
      /\ fst \in [RecFilters -> RecFilterStates]
  BY DEF RecInv, RecTypes, CallTypes, FileTypes
<1>3. CASE c \in {"SetAudio", "SetVideo"}
  <2>1. PICK s \in {"audio", "video"} : SetSource(s)
    BY <1>3 DEF RecCall
  <2>2. /\ built' = built \cup {s}
        /\ linked' = IF NewChain(s) /\ fst["muxer"] = "INITIALIZED" THEN linked \cup {s} ELSE linked
        /\ fst' = IF NewChain(s) THEN [fst EXCEPT ![Encoder(s)] = "INITIALIZED"] ELSE fst
        /\ client' \in {<<>>, <<"SET_AUDIO_SOURCE">>, <<"SET_VIDEO_SOURCE">>}
    BY <2>1 DEF SetSource
  <2>3. fst' \in [RecFilters -> RecFilterStates] /\ fst'["muxer"] = fst["muxer"]
    <3>1. Encoder(s) \in {"aenc", "venc"}
      BY DEF Encoder
    <3>2. CASE fst' = fst
      BY <1>2, <3>2
    <3>3. CASE fst' = [fst EXCEPT ![Encoder(s)] = "INITIALIZED"]
      BY <1>2, <3>1, <3>3 DEF RecFilters, RecFilterStates
    <3> QED BY <2>2, <3>2, <3>3
  <2>4. client' \in Seq(ClientSteps) /\ CallFits'
    <3>1. {"SET_AUDIO_SOURCE", "SET_VIDEO_SOURCE"} \subseteq ClientSteps
      BY DEF ClientSteps, ClientJobs, Intents
    <3>2. client' \in Seq(ClientSteps)
      BY <2>2, <3>1, Tuples
    <3>3. ~In(client', "PREPARE")
      BY <2>2 DEF In
    <3>4. ~Precedes(client', "ready?", "PREPARE")
      BY <3>3 DEF Precedes, In
    <3>5. Follows(client', "PREPARE", "ready?")
      BY <3>3, NoneFollows
    <3> QED BY <3>2, <3>4, <3>5 DEF CallFits
  <2>5. /\ linked \subseteq linked' /\ linked' \subseteq built'
        /\ "video" \in linked' \ linked => "video" \notin built /\ fst["muxer"] = "INITIALIZED"
    BY <1>2, <2>2 DEF NewChain
  <2>6. built \subseteq built' /\ built' \subseteq {"audio", "video"}
    BY <1>2, <2>2
  <2> QED BY <1>1, <2>3, <2>4, <2>5, <2>6, CallBegins
<1>4. CASE c \notin {"SetAudio", "SetVideo"}
  <2>1. client' = OwnSteps(c) /\ UNCHANGED <<built, linked, fst>>
    BY <1>4 DEF RecCall
  <2>2. client' \in Seq(ClientSteps) /\ CallFits'
    BY <1>4, <2>1, OwnStepsFit
  <2> QED BY <1>1, <1>2, <2>1, <2>2, CallBegins
<1> QED BY <1>3, <1>4

-----------------------------------------------------------------------------
(* The theorem.                                                            *)

LEMMA RecInitSafe ==
    ASSUME RecInit
    PROVE  RecInv
<1>1. /\ recState = "INIT" /\ seenState = "INIT" /\ recJobs = <<>> /\ pendingJobs = <<>> /\ job = NoJob
      /\ client = <<>> /\ sent = FALSE /\ answer = "none" /\ built = {} /\ linked = {}
      /\ fst = [f \in RecFilters |-> IF f \in {"sink", "muxer"} THEN "INITIALIZED" ELSE "CREATED"]
      /\ readyEvents = 0 /\ headers = 0
      /\ mux = [eos |-> FALSE, header |-> FALSE, meta |-> <<>>, tracks |-> <<>>, cnt |-> 0]
      /\ acap = [run |-> FALSE, at |-> "idle", eos |-> FALSE] /\ vcap = acap
      /\ venc = [on |-> FALSE, queue |-> <<>>, at |-> "idle", made |-> FALSE]
  BY DEF RecInit
<1>2. job.phase = "none" /\ job.steps = <<>> /\ job \in Jobs
  <2>1. <<>> \in Seq(StepKinds) /\ "START" \in Intents
    BY DEF Intents
  <2> QED BY <1>1, <2>1 DEF NoJob, Jobs
<1>3. \A x : ~In(<<>>, x)
  BY DEF In
<1>4. (\A x : ~Has(x)) /\ (\A x, y : ~Precedes(<<>>, x, y)) /\ (\A x, y : Follows(<<>>, x, y))
  BY <1>2 DEF Has, In, Precedes, Follows
<1>5. fst["muxer"] = "INITIALIZED" /\ fst \in [RecFilters -> RecFilterStates]
  BY <1>1 DEF RecFilters, RecFilterStates
<1>6. MachineTypes /\ CallTypes
  <2>1. recState \in RecStates /\ seenState \in RecStates
    BY <1>1 DEF RecStates
  <2>2. recJobs \in Seq(Intents) /\ pendingJobs \in Seq({"START"}) /\ client \in Seq(ClientSteps)
    BY <1>1
  <2>3. sent \in BOOLEAN /\ answer \in {"none", "ok", "bad"} /\ built \subseteq {"audio", "video"} /\ linked \subseteq built
    BY <1>1
  <2> QED BY <1>2, <2>1, <2>2, <2>3 DEF MachineTypes, CallTypes
<1>7. FileTypes
  <2>1. MuxTypes
    BY <1>1 DEF MuxTypes
  <2>2. acap \in CaptureStates /\ vcap \in CaptureStates
    BY <1>1 DEF CaptureStates
  <2>3. venc \in EncoderStates
    BY <1>1 DEF EncoderStates
  <2> QED BY <1>1, <1>5, <2>1, <2>2, <2>3 DEF FileTypes
<1>8. StepsBelong /\ StepsInOrder /\ OneCall /\ OneReady /\ CallFits /\ SeenInTime /\ OkAccepted
  <2>1. StepsInOrder
    BY <1>2, <1>4 DEF StepsInOrder, Ordered
  <2>2. StepsBelong /\ SeenInTime /\ OkAccepted
    BY <1>1, <1>2, <1>4 DEF StepsBelong, SeenInTime, OkAccepted
  <2>3. OneCall /\ OneReady /\ CallFits
    BY <1>1, <1>2, <1>3, <1>4 DEF OneCall, OneReady, CallFits, Active
  <2> QED BY <2>1, <2>2, <2>3
<1>9. ~AudioMoves /\ VideoIdle /\ ~venc.on /\ ~venc.made
  BY <1>1 DEF AudioMoves, VideoIdle
<1>10. ChainsGrow /\ Counted
  BY <1>1, <1>4, <1>9 DEF ChainsGrow, Counted
<1>11. ReadyMeansFit /\ RecordableFits /\ CleaningUp
  BY <1>1, <1>2, <1>3, <1>4, <1>9
  DEF ReadyMeansFit, GetsReady, Executing, RecordableFits, CleaningUp, CleansUp, Leaves
<1>12. RestsOutOfRecording /\ CoveredInRecording /\ PrimedRests /\ RecordsOneFile
  BY <1>1, <1>5, <1>9
  DEF RestsOutOfRecording, AudioRests, VideoRests, CoveredInRecording, PrimedRests, Primed, Works, RecordsOneFile
<1> QED BY <1>6, <1>7, <1>8, <1>10, <1>11, <1>12 DEF RecInv, RecTypes, RecSafe

LEMMA NothingKeeps ==
    ASSUME RecInv, UNCHANGED recVars
    PROVE  RecInv'
<1>1. UNCHANGED <<fsmVars, recPipeVars, fileVars, built, linked, acap, vcap, venc, client, sent, answer>>
  BY DEF recVars, fsmVars, recPipeVars, fileVars
<1>2. UNCHANGED <<recJobs, mux, headers, seenState, job>>
  BY DEF recVars
<1>3. Active' = Active /\ \A x : Has(x)' = Has(x)
  BY <1>2 DEF Active, Has
<1>4. OneCall'
  <2>1. \A x : Awaits(x)' = Awaits(x)
    BY <1>1 DEF Awaits
  <2>2. (Active /\ job.intent \in ClientJobs => Awaits(job.intent))'
    BY <1>1, <1>2, <1>3 DEF RecInv, RecSafe, OneCall, Awaits
  <2> QED BY <1>1, <1>2, <1>3, <2>1, <2>2 DEF RecInv, RecSafe, OneCall
<1>5. OneReady'
  BY <1>2, <1>3 DEF RecInv, RecSafe, OneReady
<1>6. CallFits' /\ Preparing' = Preparing
  BY <1>1, <1>2 DEF RecInv, RecSafe, CallFits, Preparing
<1>7. CallTypes' /\ recJobs' \in Seq(Intents)
  BY <1>1, <1>2 DEF RecInv, RecTypes, CallTypes, MachineTypes
<1> QED BY <1>1, <1>2, <1>4, <1>5, <1>6, <1>7, ClientKeeps

LEMMA RecNextKeeps ==
    ASSUME RecInv, [RecNext]_recVars
    PROVE  RecInv'
<1>1. CASE ReadAudio \/ ReadVideo \/ EndAudio
  BY <1>1, ReadsKeep
<1>2. CASE PushAudio
  BY <1>2, PushAudioKeeps
<1>3. CASE CheckAudio
  BY <1>3, AudioChecksKeep
<1>4. CASE PushVideo
  BY <1>4, PushVideoKeeps
<1>5. CASE FinishFrame \/ FinishCheck
  BY <1>5, FinishKeeps
<1>6. CASE \E c \in RecApi : RecCall(c)
  BY <1>6, RecCallKeeps
<1>7. CASE SendEvent
  BY <1>7, SendEventKeeps
<1>8. CASE Answered
  BY <1>8, AnsweredKeeps
<1>9. CASE SendTimesOut \/ StateReached
  BY <1>9, WaitsEnd
<1>10. CASE TakeJob
  BY <1>10, TakeJobKeeps
<1>11. CASE RunLate
  BY <1>11, RunLateKeeps
<1>12. CASE Executed
  BY <1>12, ExecutedKeeps
<1>13. CASE Entered
  BY <1>13, EnteredKeeps
<1>14. CASE PrepareFile
  BY <1>14, PrepareFileKeeps
<1>15. CASE StartFile
  BY <1>15, StartFileKeeps
<1>16. CASE Resumed \/ StopEncoder \/ Forget
  BY <1>16, SimpleStepsKeep
<1>17. CASE PauseFile
  BY <1>17, PauseFileKeeps
<1>18. CASE StopFile
  BY <1>18, StopFileKeeps
<1>19. CASE \E s \in RecStreams : PrepareChain(s) \/ StartChain(s) \/ ResumeChain(s) \/ PauseChain(s)
  BY <1>19, PrepareChainKeeps, StartChainKeeps, ResumeChainKeeps, PauseChainKeeps
<1>20. CASE StopVideo
  BY <1>20, StopVideoKeeps, StopVideoGives
<1>21. CASE StopCapture
  BY <1>21, StopCaptureKeeps
<1>22. CASE EosAudio \/ EosChecks \/ EosSent
  BY <1>22, EosStepsKeep
<1>23. CASE EosVideo
  BY <1>23, EosVideoKeeps
<1>24. CASE EndFile
  BY <1>24, EndFileKeeps
<1>25. CASE UNCHANGED recVars
  BY <1>25, NothingKeeps
<1> QED BY <1>1, <1>2, <1>3, <1>4, <1>5, <1>6, <1>7, <1>8, <1>9, <1>10, <1>11, <1>12, <1>13, <1>14,
           <1>15, <1>16, <1>17, <1>18, <1>19, <1>20, <1>21, <1>22, <1>23, <1>24, <1>25 DEF RecNext

\* Whatever is set, called, refused, dropped or late: no start of the recorder's pipeline
\* gives the file two headers.  What the captures and the encoder still hold when a
\* recording ends is dropped by the muxer, or stopped before the muxer is prepared again
\* (MuxerFilter::PushData, SendEos; HiRecorderImpl::DoStop, DoReset, DoOnComplete).
THEOREM RecorderWritesOneHeader == RecSpec => []RecordsOneFile
<1>1. RecInit => RecInv
  BY RecInitSafe
<1>2. RecInv /\ [RecNext]_recVars => RecInv'
  BY RecNextKeeps
<1>3. RecInv => RecordsOneFile
  BY DEF RecInv, RecSafe
<1> QED BY <1>1, <1>2, <1>3, PTL DEF RecSpec

=============================================================================
