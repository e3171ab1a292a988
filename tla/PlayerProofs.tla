---------------------------- MODULE PlayerProofs ----------------------------
(***************************************************************************)
(* Proofs about the player's state machine and its Synchronizer, for any   *)
(* number of clients, any capacity of the queue of jobs and any events,    *)
(* with operations of the pipeline that may fail.                          *)
(***************************************************************************)
EXTENDS PlayerStateMachine, SequenceTheorems, FiniteSetTheorems, TLAPS

-----------------------------------------------------------------------------
(* Types.                                                                  *)

\* The machine tries a pending job only when there is one.
PendingIsThere == fsm.at = "pending" => pending # <<>>

TypeInv == TypeOK /\ PendingIsThere

LEMMA SenderTypes ==
    /\ Nobody \in Senders /\ Pipeline \in Senders /\ Clients \subseteq Senders
    /\ Nobody \notin Clients /\ Pipeline \notin Clients /\ Nobody # Pipeline
  BY PlayerAssumption DEF Senders, Nobody, Pipeline

LEMMA TransitionTypes ==
    ASSUME NEW t \in Transitions
    PROVE  t[1] \subseteq States /\ t[2] \in Intents /\ t[3] \in States
<1>1. \/ t = <<{"IDLE", "INIT"}, "SET_SOURCE", "INIT">>
      \/ t = <<{"INIT"}, "PREPARE", "PREPARING">>
      \/ t = <<{"READY", "PAUSE", "EOS"}, "PLAY", "PLAYING">>
      \/ t = <<{"PLAYING"}, "PAUSE", "PAUSE">>
      \/ t = <<{"PAUSE"}, "RESUME", "PLAYING">>
      \/ t = <<States \ {"IDLE", "STOPPED"}, "STOP", "STOPPED">>
      \/ t = <<States, "RESET", "IDLE">>
      \/ t = <<{"PREPARING"}, "NOTIFY_READY", "READY">>
      \/ t = <<IF FALSE \in Looping THEN {"PLAYING"} ELSE {}, "NOTIFY_COMPLETE", "EOS">>
      \/ t = <<States, "NOTIFY_ERROR", "INIT">>
  BY Zenon DEF Transitions
<1>2. ASSUME NEW from \in SUBSET States, NEW i \in Intents, NEW to \in States, t = <<from, i, to>>
      PROVE  t[1] \subseteq States /\ t[2] \in Intents /\ t[3] \in States
  BY <1>2
<1>3. \E from \in SUBSET States, i \in Intents, to \in States : t = <<from, i, to>>
  <2>1. /\ {"SET_SOURCE", "PREPARE", "PLAY", "PAUSE", "RESUME", "STOP", "RESET",
            "NOTIFY_READY", "NOTIFY_COMPLETE", "NOTIFY_ERROR"} \subseteq Intents
        /\ {"INIT", "PREPARING", "PLAYING", "PAUSE", "STOPPED", "IDLE", "READY", "EOS"} \subseteq States
    BY DEF Intents, AppIntents, AllEvents, States
  <2>2. /\ {"IDLE", "INIT"} \in SUBSET States /\ {"INIT"} \in SUBSET States
        /\ {"READY", "PAUSE", "EOS"} \in SUBSET States /\ {"PLAYING"} \in SUBSET States
        /\ {"PAUSE"} \in SUBSET States /\ States \ {"IDLE", "STOPPED"} \in SUBSET States
        /\ States \in SUBSET States /\ {"PREPARING"} \in SUBSET States
        /\ (IF FALSE \in Looping THEN {"PLAYING"} ELSE {}) \in SUBSET States
    BY <2>1
  <2> QED BY <1>1, <2>1, <2>2, Zenon
<1> QED BY <1>2, <1>3

\* A call that gives up leaves its jobs where they are, with nobody to answer.
LEMMA AbandonedList ==
    ASSUME NEW list \in Seq(Job), NEW c \in Clients
    PROVE  LET left == [n \in DOMAIN list |-> Abandon(c, list[n])] IN
           /\ left \in Seq(Job) /\ Len(left) = Len(list) /\ DOMAIN left = DOMAIN list
           /\ \A n \in DOMAIN list : left[n] = Abandon(c, list[n])
<1> DEFINE left == [n \in DOMAIN list |-> Abandon(c, list[n])]
<1>1. Len(list) \in Nat /\ DOMAIN list = 1 .. Len(list) /\ \A n \in DOMAIN list : list[n] \in Job
  BY LenProperties, ElementOfSeq
<1>2. \A job \in Job : Abandon(c, job) \in Job
  BY SenderTypes DEF Abandon, Job
<1>3. left \in [1 .. Len(list) -> Job]
  BY <1>1, <1>2
<1>4. left \in Seq(Job) /\ Len(left) = Len(list) /\ DOMAIN left = DOMAIN list
  BY <1>1, <1>3, SeqDef
<1> QED BY <1>4

\* What the states do with a job: the machine tells the Synchronizer next; calls stay what
\* they are, and see the state if it changed.
LEMMA Processed ==
    ASSUME TypeOK, NEW job \in Job, ProcessIntent(job), fsm.at \in {"pop", "pending"}
    PROVE  /\ fsm' \in [at : {"notify", "notifyPending"}, job : {job}, result : Results, action : Actions]
           /\ fsm'.at = (IF fsm.at = "pop" THEN "notify" ELSE "notifyPending")
           /\ took' \in Holding \cup {"none"}
           /\ curState' \in States /\ due' \subseteq AllEvents
           /\ call' \in [Clients -> Call]
           /\ \A c \in Clients :
                /\ call'[c].at = call[c].at /\ call'[c].intent = call[c].intent
                /\ call'[c].result = call[c].result
           /\ (curState' = curState /\ call' = call) \/ SeeState(curState')
<1>1. ASSUME NEW result \in Results, NEW action \in Actions, Done(job, result, action)
      PROVE  /\ fsm' \in [at : {"notify", "notifyPending"}, job : {job}, result : Results, action : Actions]
             /\ fsm'.at = (IF fsm.at = "pop" THEN "notify" ELSE "notifyPending")
             /\ took' \in Holding \cup {"none"}
  BY <1>1 DEF Done, TypeOK, Results, Actions
<1>2. ASSUME NEW s \in States, SeeState(s)
      PROVE  /\ call' \in [Clients -> Call]
             /\ \A c \in Clients :
                  /\ call'[c].at = call[c].at /\ call'[c].intent = call[c].intent
                  /\ call'[c].result = call[c].result
  <2>1. ASSUME NEW c \in Clients, NEW seen \in BOOLEAN
        PROVE  [call[c] EXCEPT !.readySeen = seen] \in Call
    BY ZenonT(60) DEF TypeOK, Call
  <2>2. \A c \in Clients : call[c] \in Call /\ call[c].readySeen \in BOOLEAN
    BY DEF TypeOK, Call
  <2> QED BY <1>2, <2>1, <2>2, ZenonT(60) DEF SeeState, Call
<1>3. CASE Move(job)
  <2>1. PICK t \in Transitions :
            /\ curState' = t[3]
            /\ \/ /\ Done(job, "ok", "trans")
                  /\ due' = IF t[3] = curState THEN due ELSE DueIn(t[3])
               \/ Done(job, "error", "none") /\ UNCHANGED due
            /\ SeeState(t[3])
    BY <1>3 DEF Move
  <2>2. due' \subseteq AllEvents
    BY <2>1 DEF DueIn, TypeOK, AllEvents
  <2> QED BY <1>1, <1>2, <2>1, <2>2, TransitionTypes DEF Results, Actions
<1>4. CASE Stay(job) \/ PlayAgain(job) \/ Pend(job)
  <2>1. /\ Done(job, "ok", "none") \/ Done(job, "error", "none") \/ Done(job, "ok", "pending")
        /\ due' \subseteq AllEvents /\ UNCHANGED <<curState, call>>
    BY <1>4 DEF Stay, PlayAgain, Pend, TypeOK, AllEvents
  <2> QED BY <1>1, <2>1 DEF Results, Actions, TypeOK
<1> QED BY <1>3, <1>4 DEF ProcessIntent

LEMMA InitTypes == Init => TypeInv
<1> SUFFICES ASSUME Init PROVE TypeInv
  OBVIOUS
<1>1. <<>> \in Seq(Job) /\ Len(<<>>) = 0
  BY EmptySeq
<1>2. AtPop \in [at : {"pop", "notify", "pending", "notifyPending"}, job : Job,
                result : Results, action : Actions] /\ AtPop.at = "pop"
  BY SenderTypes DEF AtPop, Job, Intents, AppIntents, Results, Actions
<1>3. call \in [Clients -> Call]
  BY DEF Init, Call, Intents, AppIntents
<1>4. syncMap \in [Intents -> [result : {"none", "ok", "error"}, by : Senders]]
  BY SenderTypes DEF Init, NoAnswer
<1> QED BY <1>1, <1>2, <1>3, <1>4, PlayerAssumption
           DEF Init, TypeInv, TypeOK, PendingIsThere, States, Holding

\* The job that comes next, and what is left.
LEMMA NextJob ==
    ASSUME NEW list \in Seq(Job), list # <<>>
    PROVE  /\ Head(list) \in Job /\ Head(list) = list[1] /\ 1 \in DOMAIN list
           /\ Tail(list) \in Seq(Job) /\ Len(Tail(list)) = Len(list) - 1
           /\ \A n \in DOMAIN Tail(list) : n + 1 \in DOMAIN list /\ Tail(list)[n] = list[n + 1]
           /\ \A n \in DOMAIN list : n = 1 \/ (n - 1 \in DOMAIN Tail(list) /\ Tail(list)[n - 1] = list[n])
<1>1. /\ Head(list) \in Job /\ Tail(list) \in Seq(Job) /\ Len(Tail(list)) = Len(list) - 1
      /\ \A n \in 1 .. Len(Tail(list)) : Tail(list)[n] = list[n + 1]
  BY HeadTailProperties
<1>2. Len(list) \in Nat \ {0} /\ DOMAIN list = 1 .. Len(list) /\ DOMAIN Tail(list) = 1 .. Len(list) - 1
  BY <1>1, EmptySeq, LenProperties
<1>3. Head(list) = list[1]
  OBVIOUS
<1>4. ASSUME NEW n \in DOMAIN list, n # 1
      PROVE  n - 1 \in DOMAIN Tail(list) /\ Tail(list)[n - 1] = list[n]
  <2>1. n - 1 \in 1 .. Len(Tail(list)) /\ (n - 1) + 1 = n
    BY <1>1, <1>2, <1>4
  <2> QED BY <1>1, <1>2, <2>1
<1> QED BY <1>1, <1>2, <1>3, <1>4

LEMMA StepTypes == TypeInv /\ [Next]_vars => TypeInv'
<1> SUFFICES ASSUME TypeInv, [Next]_vars PROVE TypeInv'
  OBVIOUS
<1>t. TypeOK /\ PendingIsThere
  BY DEF TypeInv
<1>1. CASE PopJob
  <2>1. Head(jobs) \in Job /\ Tail(jobs) \in Seq(Job) /\ Len(Tail(jobs)) <= Capacity
    BY <1>1, <1>t, NextJob, LenProperties, PlayerAssumption DEF PopJob, TypeOK
  <2>2. /\ fsm' \in [at : {"notify", "notifyPending"}, job : Job, result : Results, action : Actions]
        /\ took' \in Holding \cup {"none"} /\ curState' \in States /\ due' \subseteq AllEvents
        /\ call' \in [Clients -> Call]
    BY <1>1, <1>t, <2>1, Processed DEF PopJob
  <2> QED BY <1>1, <1>t, <2>1, <2>2 DEF PopJob, TypeInv, TypeOK, PendingIsThere, syncVars
<1>2. CASE RunPending
  <2>1. Head(pending) \in Job /\ Tail(pending) \in Seq(Job)
    BY <1>2, <1>t, NextJob DEF RunPending, TypeOK, PendingIsThere
  <2>2. /\ fsm' \in [at : {"notify", "notifyPending"}, job : Job, result : Results, action : Actions]
        /\ took' \in Holding \cup {"none"} /\ curState' \in States /\ due' \subseteq AllEvents
        /\ call' \in [Clients -> Call]
    BY <1>2, <1>t, <2>1, Processed DEF RunPending
  <2> QED BY <1>2, <1>t, <2>1, <2>2 DEF RunPending, TypeInv, TypeOK, PendingIsThere, syncVars
<1>3. AtPop \in [at : {"pop"}, job : Job, result : Results, action : Actions]
  BY SenderTypes DEF AtPop, Job, Intents, AppIntents, Results, Actions
<1>4. CASE OnIntentPending
  <2>1. Append(pending, fsm.job) \in Seq(Job)
    BY <1>t, AppendProperties DEF TypeOK
  <2> QED BY <1>3, <1>4, <1>t, <2>1 DEF OnIntentPending, TypeInv, TypeOK, PendingIsThere, syncVars
<1>5. CASE OnIntentExecuted
  <2>1. waitSet' \subseteq Intents /\ syncMap' \in [Intents -> [result : {"none", "ok", "error"}, by : Senders]]
    <3>1. fsm.job.intent \in Intents /\ fsm.job.by \in Senders /\ fsm.result \in {"none", "ok", "error"}
      BY <1>t DEF TypeOK, Job, Results
    <3> QED BY <1>5, <1>t, <3>1, SMTT(60) DEF OnIntentExecuted, Tell, TypeOK
  <2>2. /\ fsm' \in [at : {"pop", "pending"}, job : Job, result : Results, action : Actions]
        /\ fsm'.at = "pending" => pending # <<>>
    BY <1>3, <1>5 DEF OnIntentExecuted, RunsPending
  <2> QED BY <1>5, <1>t, <2>1, <2>2 DEF OnIntentExecuted, TypeInv, TypeOK, PendingIsThere
<1>6. ASSUME NEW c \in Clients, NEW i \in ClientIntents[c], SendEvent(c, i)
      PROVE  TypeInv'
  <2>1. i \in Intents /\ c \in Senders
    BY PlayerAssumption, SenderTypes DEF Intents
  <2>2. [intent |-> i, by |-> c] \in Job
    BY <2>1 DEF Job
  <2>3. jobs' \in Seq(Job) /\ Len(jobs') <= Capacity
    <3>1. CASE ~Full /\ jobs' = Append(jobs, [intent |-> i, by |-> c])
      BY <3>1, <1>t, <2>2, AppendProperties, LenProperties, PlayerAssumption DEF Full, TypeOK
    <3>2. CASE UNCHANGED jobs
      BY <3>2, <1>t DEF TypeOK
    <3> QED BY <3>1, <3>2, <1>6 DEF SendEvent
  <2>4. call' \in [Clients -> Call]
    <3>1. \A at \in {"waiting", "pushing"} :
              [at |-> at, intent |-> i, result |-> "none", readySeen |-> FALSE] \in Call
      BY <2>1 DEF Call
    <3> QED BY <1>6, <1>t, <3>1 DEF SendEvent, TypeOK
  <2> QED BY <1>6, <1>t, <2>1, <2>3, <2>4 DEF SendEvent, TypeInv, TypeOK, PendingIsThere
<1>7. ASSUME NEW c \in Clients, PushEnds(c)
      PROVE  TypeInv'
  <2>1. NewJob(c) \in Job
    BY <1>t, SenderTypes DEF NewJob, Job, TypeOK, Call
  <2>2. jobs' \in Seq(Job) /\ Len(jobs') <= Capacity
    BY <1>7, <1>t, <2>1, AppendProperties, LenProperties, PlayerAssumption DEF PushEnds, Full, TypeOK
  <2>3. call' \in [Clients -> Call]
    BY <1>7, <1>t, ZenonT(60) DEF PushEnds, TypeOK, Call
  <2> QED BY <1>7, <1>t, <2>2, <2>3 DEF PushEnds, TypeInv, TypeOK, PendingIsThere
<1>8. ASSUME NEW c \in Clients, TakeAnswer(c)
      PROVE  TypeInv'
  <2>1. call[c] \in Call /\ call[c].intent \in Intents /\ syncMap[call[c].intent].result \in {"none", "ok", "error"}
    BY <1>t DEF TypeOK, Call
  <2>2. call' \in [Clients -> Call]
    BY <1>8, <1>t, <2>1 DEF TakeAnswer, TypeOK, Call
  <2>3. syncMap' \in [Intents -> [result : {"none", "ok", "error"}, by : Senders]]
    BY <1>8, <1>t, <2>1, SenderTypes DEF TakeAnswer, TypeOK, NoAnswer
  <2> QED BY <1>8, <1>t, <2>2, <2>3 DEF TakeAnswer, TypeInv, TypeOK, PendingIsThere
<1>9. ASSUME NEW c \in Clients, TimesOut(c)
      PROVE  TypeInv'
  <2>1. /\ jobs' \in Seq(Job) /\ Len(jobs') = Len(jobs)
        /\ pending' \in Seq(Job) /\ Len(pending') = Len(pending)
    BY <1>9, <1>t, AbandonedList DEF TimesOut, TypeOK
  <2>2. /\ fsm' \in [at : {"pop", "notify", "pending", "notifyPending"}, job : Job,
                     result : Results, action : Actions]
        /\ fsm'.at = fsm.at
    <3>1. Abandon(c, fsm.job) \in Job
      BY <1>t, SenderTypes DEF Abandon, Job, TypeOK
    <3> QED BY <1>9, <1>t, <3>1 DEF TimesOut, TypeOK
  <2>3. call' \in [Clients -> Call]
    <3>1. call[c] \in Call
      BY <1>t DEF TypeOK
    <3>2. [call[c] EXCEPT !.at = "idle", !.result = "timeout"] \in Call
      BY <3>1 DEF Call
    <3>3. call \in [Clients -> Call]
      BY <1>t DEF TypeOK
    <3>4. call' = [call EXCEPT ![c] = [call[c] EXCEPT !.at = "idle", !.result = "timeout"]]
      BY <1>9, <3>3 DEF TimesOut
    <3> QED BY <3>2, <3>3, <3>4
  <2>4. PendingIsThere'
    BY <1>t, <2>1, <2>2, EmptySeq DEF PendingIsThere, TypeOK
  <2> QED BY <1>9, <1>t, <2>1, <2>2, <2>3, <2>4 DEF TimesOut, TypeInv, TypeOK
<1>10. ASSUME NEW c \in Clients, PrepareReturns(c)
       PROVE  TypeInv'
  <2>1. call' \in [Clients -> Call]
    <3> DEFINE told == IF curState = "READY" THEN "ok" ELSE "error"
    <3>1. call \in [Clients -> Call] /\ call[c] \in Call /\ told \in {"ok", "error"}
      BY <1>t DEF TypeOK
    <3>2. [call[c] EXCEPT !.at = "idle", !.result = told] \in Call
      BY <3>1 DEF Call
    <3>3. call' = [call EXCEPT ![c] = [call[c] EXCEPT !.at = "idle", !.result = told]]
      BY <1>10, <3>1 DEF PrepareReturns
    <3> QED BY <3>1, <3>2, <3>3
  <2> QED BY <1>10, <1>t, <2>1 DEF PrepareReturns, TypeInv, TypeOK, PendingIsThere, syncVars
<1>11. ASSUME NEW e \in Events, Post(e)
       PROVE  TypeInv'
  BY <1>11, <1>t DEF Post, TypeInv, TypeOK, PendingIsThere, syncVars
<1>12. CASE PostEnds
  <2>1. [intent |-> poster, by |-> Pipeline] \in Job
    BY <1>12, <1>t, PlayerAssumption, SenderTypes DEF PostEnds, TypeOK, Job, Intents
  <2>2. jobs' \in Seq(Job) /\ Len(jobs') <= Capacity
    BY <1>12, <1>t, <2>1, AppendProperties, LenProperties, PlayerAssumption DEF PostEnds, Full, TypeOK
  <2> QED BY <1>12, <1>t, <2>2 DEF PostEnds, TypeInv, TypeOK, PendingIsThere, syncVars
<1>13. CASE UNCHANGED vars
  BY <1>13, <1>t DEF vars, syncVars, TypeInv, TypeOK, PendingIsThere
<1> QED BY <1>1, <1>2, <1>4, <1>5, <1>6, <1>7, <1>8, <1>9, <1>10, <1>11, <1>12, <1>13
           DEF Next, MachineSteps, Continue

\* The variables of the machine, the Synchronizer and the calls keep their types, and the
\* queue of jobs never has more than Capacity.
THEOREM PlayerTypes == Spec => []TypeOK
<1>1. TypeInv => TypeOK
  BY DEF TypeInv
<1> QED BY <1>1, InitTypes, StepTypes, PTL DEF Spec

-----------------------------------------------------------------------------
(* The calls and the Synchronizer's mutex.                                 *)

\* A client sends its own intents, holds the mutex of the Synchronizer exactly
\* while it pushes, is waited for as long, and waits on cond_ after PREPARE only.
CallInv ==
    /\ \A c \in Clients : call[c].at # "idle" => call[c].intent \in ClientIntents[c]
    /\ \A c \in Clients : call[c].at = "pushing" <=> syncLock = c
    /\ \A c \in Clients : call[c].at = "pushing" => call[c].intent \in waitSet
    /\ \A c \in Clients : call[c].at = "preparing" => call[c].intent = "PREPARE"

\* A step of the machine's thread that executes a job leaves the calls where they
\* are, and the Synchronizer alone.
LEMMA ExecutionFrame ==
    ASSUME TypeInv, PopJob \/ RunPending
    PROVE  /\ \A c \in Clients :
                /\ call'[c].at = call[c].at /\ call'[c].intent = call[c].intent
                /\ call'[c].result = call[c].result
           /\ UNCHANGED <<waitSet, syncMap, syncLock, poster>>
           /\ (curState' = curState /\ call' = call) \/ SeeState(curState')
<1>1. CASE PopJob
  <2>1. Head(jobs) \in Job
    BY <1>1, NextJob DEF PopJob, TypeInv, TypeOK
  <2> QED BY <1>1, <2>1, Processed DEF PopJob, TypeInv, syncVars
<1>2. CASE RunPending
  <2>1. Head(pending) \in Job
    BY <1>2, NextJob DEF RunPending, TypeInv, TypeOK, PendingIsThere
  <2> QED BY <1>2, <2>1, Processed DEF RunPending, TypeInv, syncVars
<1> QED BY <1>1, <1>2

\* A step of one client is its own: the calls of the others stay what they are.
LEMMA CallOfOthers ==
    ASSUME TypeOK, NEW c \in Clients, NEW d \in Clients, d # c,
           (\E i \in ClientIntents[c] : SendEvent(c, i)) \/ Continue(c) \/ TimesOut(c)
    PROVE  call'[d] = call[d]
  BY DEF TypeOK, SendEvent, Continue, PushEnds, TakeAnswer, PrepareReturns, TimesOut

\* What a client's own call becomes.
LEMMA OwnCall ==
    ASSUME TypeOK, NEW c \in Clients
    PROVE  /\ \A i \in ClientIntents[c] : SendEvent(c, i) =>
                 /\ call'[c].at = IF Full THEN "pushing" ELSE "waiting"
                 /\ call'[c].intent = i /\ call'[c].result = "none"
           /\ PushEnds(c) => /\ call'[c].at = "waiting" /\ call'[c].intent = call[c].intent
                             /\ call'[c].result = call[c].result
                             /\ call'[c].readySeen = call[c].readySeen
           /\ TakeAnswer(c) => /\ call'[c].at = IF call[c].intent = "PREPARE"
                                                   /\ syncMap[call[c].intent].result = "ok"
                                                THEN "preparing" ELSE "idle"
                               /\ call'[c].intent = call[c].intent
                               /\ call'[c].result = syncMap[call[c].intent].result
                               /\ call'[c].readySeen = call[c].readySeen
           /\ TimesOut(c) => /\ call'[c].at = "idle" /\ call'[c].result = "timeout"
                             /\ call'[c].intent = call[c].intent
           /\ PrepareReturns(c) => /\ call'[c].at = "idle" /\ call'[c].intent = call[c].intent
                                   /\ call'[c].result = IF curState = "READY" THEN "ok" ELSE "error"
                                   /\ call'[c].readySeen = call[c].readySeen
<1>1. call \in [Clients -> Call] /\ call[c] \in Call
  BY DEF TypeOK
<1>2. DOMAIN call[c] = {"at", "intent", "result", "readySeen"}
  BY <1>1 DEF Call
<1>3. ASSUME NEW i \in ClientIntents[c], SendEvent(c, i)
      PROVE  /\ call'[c].at = IF Full THEN "pushing" ELSE "waiting"
             /\ call'[c].intent = i /\ call'[c].result = "none"
  BY <1>1, <1>3 DEF SendEvent
<1>4. ASSUME NEW at, call' = [call EXCEPT ![c] = [call[c] EXCEPT !.at = at]]
      PROVE  /\ call'[c].at = at /\ call'[c].intent = call[c].intent
             /\ call'[c].result = call[c].result /\ call'[c].readySeen = call[c].readySeen
  BY <1>1, <1>2, <1>4
<1>5. ASSUME NEW at, NEW r,
             call' = [call EXCEPT ![c] = [call[c] EXCEPT !.at = at, !.result = r]]
      PROVE  /\ call'[c].at = at /\ call'[c].intent = call[c].intent
             /\ call'[c].result = r /\ call'[c].readySeen = call[c].readySeen
  BY <1>1, <1>2, <1>5
<1>6. PushEnds(c) => call' = [call EXCEPT ![c] = [call[c] EXCEPT !.at = "waiting"]]
  BY <1>1 DEF PushEnds
<1>7. TakeAnswer(c) =>
          call' = [call EXCEPT ![c] =
              [call[c] EXCEPT !.at = IF call[c].intent = "PREPARE"
                                        /\ syncMap[call[c].intent].result = "ok"
                                     THEN "preparing" ELSE "idle",
                              !.result = syncMap[call[c].intent].result]]
  BY <1>1 DEF TakeAnswer
<1>8. TimesOut(c) => call' = [call EXCEPT ![c] = [call[c] EXCEPT !.at = "idle", !.result = "timeout"]]
  BY <1>1 DEF TimesOut
<1>9. PrepareReturns(c) =>
          call' = [call EXCEPT ![c] =
              [call[c] EXCEPT !.at = "idle",
                              !.result = IF curState = "READY" THEN "ok" ELSE "error"]]
  BY <1>1 DEF PrepareReturns
<1>10. PushEnds(c) => /\ call'[c].at = "waiting" /\ call'[c].intent = call[c].intent
                      /\ call'[c].result = call[c].result
                      /\ call'[c].readySeen = call[c].readySeen
  BY <1>4, <1>6, Zenon
<1>11. TakeAnswer(c) => /\ call'[c].at = IF call[c].intent = "PREPARE"
                                             /\ syncMap[call[c].intent].result = "ok"
                                          THEN "preparing" ELSE "idle"
                        /\ call'[c].intent = call[c].intent
                        /\ call'[c].result = syncMap[call[c].intent].result
                        /\ call'[c].readySeen = call[c].readySeen
  <2> DEFINE at == IF call[c].intent = "PREPARE" /\ syncMap[call[c].intent].result = "ok"
                   THEN "preparing" ELSE "idle"
             r == syncMap[call[c].intent].result
  <2>1. call' = [call EXCEPT ![c] = [call[c] EXCEPT !.at = at, !.result = r]]
        => /\ call'[c].at = at /\ call'[c].intent = call[c].intent
           /\ call'[c].result = r /\ call'[c].readySeen = call[c].readySeen
    <3> HIDE DEF at, r
    <3> QED BY <1>5
  <2> QED BY <1>7, <2>1
<1>12. TimesOut(c) => /\ call'[c].at = "idle" /\ call'[c].result = "timeout"
                      /\ call'[c].intent = call[c].intent
  BY <1>5, <1>8, Zenon
<1>13. PrepareReturns(c) =>
           /\ call'[c].at = "idle" /\ call'[c].intent = call[c].intent
           /\ call'[c].result = IF curState = "READY" THEN "ok" ELSE "error"
           /\ call'[c].readySeen = call[c].readySeen
  <2> DEFINE r == IF curState = "READY" THEN "ok" ELSE "error"
  <2>1. call' = [call EXCEPT ![c] = [call[c] EXCEPT !.at = "idle", !.result = r]]
        => /\ call'[c].at = "idle" /\ call'[c].intent = call[c].intent
           /\ call'[c].result = r /\ call'[c].readySeen = call[c].readySeen
    <3> HIDE DEF r
    <3> QED BY <1>5
  <2> QED BY <1>9, <2>1
<1> HIDE DEF Full
<1> QED BY <1>3, <1>10, <1>11, <1>12, <1>13

LEMMA StepCalls == TypeInv /\ CallInv /\ [Next]_vars => CallInv'
<1> SUFFICES ASSUME TypeInv, CallInv, [Next]_vars PROVE CallInv'
  OBVIOUS
<1>t. TypeOK
  BY DEF TypeInv
<1>1. CASE PopJob \/ RunPending
  BY <1>1, ExecutionFrame DEF CallInv
<1>2. CASE OnIntentPending
  BY <1>2 DEF OnIntentPending, CallInv, syncVars
<1>3. CASE OnIntentExecuted
  <2>1. \A c \in Clients : call[c].at # "pushing"
    BY <1>3, SenderTypes DEF OnIntentExecuted, CallInv
  <2> QED BY <1>3, <2>1 DEF OnIntentExecuted, CallInv
<1>4. ASSUME NEW c \in Clients,
             (\E i \in ClientIntents[c] : SendEvent(c, i)) \/ Continue(c) \/ TimesOut(c)
      PROVE  CallInv'
  <2>1. \A d \in Clients : d # c => call'[d] = call[d]
    BY <1>4, <1>t, CallOfOthers
  <2>2. ASSUME NEW i \in ClientIntents[c], SendEvent(c, i) PROVE CallInv'
    <3>1. /\ call'[c].at = IF Full THEN "pushing" ELSE "waiting"
          /\ call'[c].intent = i /\ waitSet' = waitSet \cup {i} /\ syncLock = Nobody
          /\ syncLock' = IF Full THEN c ELSE Nobody
      BY <1>t, <2>2, OwnCall DEF SendEvent
    <3> QED BY <2>1, <3>1, SenderTypes DEF CallInv
  <2>3. CASE PushEnds(c)
    <3>1. /\ call'[c].at = "waiting" /\ call'[c].intent = call[c].intent
          /\ call[c].at = "pushing" /\ syncLock' = Nobody /\ waitSet' = waitSet
      BY <1>t, <2>3, OwnCall DEF PushEnds
    <3> QED BY <2>1, <3>1, SenderTypes DEF CallInv
  <2>4. CASE TakeAnswer(c) \/ TimesOut(c)
    <3>1. /\ call'[c].at = "idle" \/ (call'[c].at = "preparing" /\ call[c].intent = "PREPARE")
          /\ call'[c].intent = call[c].intent
          /\ call[c].at = "waiting" /\ syncLock = Nobody /\ UNCHANGED syncLock
      BY <1>t, <2>4, OwnCall DEF TakeAnswer, TimesOut
    <3>2. \A d \in Clients : call[d].at # "pushing"
      BY <3>1, SenderTypes DEF CallInv
    <3> QED BY <2>1, <3>1, <3>2, SenderTypes, SMTT(60) DEF CallInv
  <2>5. CASE PrepareReturns(c)
    <3>1. call'[c].at = "idle" /\ call[c].at = "preparing" /\ UNCHANGED <<waitSet, syncLock>>
      BY <1>t, <2>5, OwnCall DEF PrepareReturns, syncVars
    <3> QED BY <2>1, <3>1, SenderTypes DEF CallInv
  <2> QED BY <1>4, <2>2, <2>3, <2>4, <2>5 DEF Continue
<1>5. ASSUME NEW e \in Events, Post(e) PROVE CallInv'
  BY <1>5 DEF Post, CallInv, syncVars
<1>6. CASE PostEnds \/ UNCHANGED vars
  BY <1>6 DEF PostEnds, vars, CallInv, syncVars
<1> QED BY <1>1, <1>2, <1>3, <1>4, <1>5, <1>6 DEF Next, MachineSteps, Continue

LEMMA InitCalls == Init => CallInv
  BY SenderTypes DEF Init, CallInv

-----------------------------------------------------------------------------
(* A sleeper wakes.                                                        *)

\* The Synchronizer tells calls apart by their intents alone, so what it promises
\* holds while no two clients send the same one.
OneSender(i) ==
    \A c, d \in Clients : i \in ClientIntents[c] /\ i \in ClientIntents[d] => c = d

\* A client's job stays where the machine finds it, until the machine tells the
\* Synchronizer of a job with its intent.
JobAt(c, i, list) == \E n \in DOMAIN list : list[n] = [intent |-> i, by |-> c]

LEMMA JobMoves ==
    ASSUME TypeInv, NEW c \in Clients, NEW i \in Intents, HasJob(c, i)
    PROVE  /\ PopJob \/ RunPending \/ OnIntentPending => HasJob(c, i)'
           /\ OnIntentExecuted => HasJob(c, i)' \/ fsm.job = [intent |-> i, by |-> c]
           /\ \A e \in Events : Post(e) => HasJob(c, i)'
           /\ PostEnds \/ UNCHANGED vars => HasJob(c, i)'
           /\ \A d \in Clients :
                 d # c /\ ((\E j \in ClientIntents[d] : SendEvent(d, j)) \/ Continue(d) \/ TimesOut(d))
                 => HasJob(c, i)'
<1> DEFINE job == [intent |-> i, by |-> c]
<1>t. TypeOK /\ PendingIsThere
  BY DEF TypeInv
<1>l. jobs \in Seq(Job) /\ pending \in Seq(Job)
  BY <1>t DEF TypeOK
<1>h. HasJob(c, i) <=> \/ JobAt(c, i, jobs) \/ JobAt(c, i, pending)
                       \/ fsm.at \in {"notify", "notifyPending"} /\ fsm.job = job
  BY DEF HasJob, JobAt
<1>n. HasJob(c, i)' <=> \/ JobAt(c, i, jobs') \/ JobAt(c, i, pending')
                        \/ fsm'.at \in {"notify", "notifyPending"} /\ fsm'.job = job
  BY DEF HasJob, JobAt
<1>a. ASSUME NEW list \in Seq(Job), NEW new \in Job
      PROVE  /\ JobAt(c, i, list) => JobAt(c, i, Append(list, new))
             /\ new = job => JobAt(c, i, Append(list, new))
  <2>1. /\ Append(list, new) \in Seq(Job) /\ Len(Append(list, new)) = Len(list) + 1
        /\ \A n \in 1 .. Len(list) : Append(list, new)[n] = list[n]
        /\ Append(list, new)[Len(list) + 1] = new
    BY AppendProperties
  <2>2. /\ DOMAIN list = 1 .. Len(list) /\ Len(list) \in Nat
        /\ DOMAIN Append(list, new) = 1 .. Len(list) + 1
    BY <2>1, LenProperties
  <2> QED BY <2>1, <2>2 DEF JobAt
<1>b. ASSUME NEW list \in Seq(Job), list # <<>>
      PROVE  JobAt(c, i, list) => Head(list) = job \/ JobAt(c, i, Tail(list))
  BY <1>b, NextJob DEF JobAt
<1>1. CASE PopJob
  <2>1. jobs # <<>> /\ jobs' = Tail(jobs) /\ pending' = pending /\ fsm.at = "pop" /\ ProcessIntent(Head(jobs))
    BY <1>1 DEF PopJob
  <2>2. fsm'.at = "notify" /\ fsm'.job = Head(jobs)
    BY <1>t, <1>l, <2>1, NextJob, Processed
  <2> QED BY <1>h, <1>n, <1>l, <1>b, <2>1, <2>2
<1>2. CASE RunPending
  <2>1. /\ pending # <<>> /\ pending' = Tail(pending) /\ jobs' = jobs
        /\ fsm.at = "pending" /\ ProcessIntent(Head(pending))
    BY <1>2, <1>t DEF RunPending, PendingIsThere
  <2>2. fsm'.at = "notifyPending" /\ fsm'.job = Head(pending)
    BY <1>t, <1>l, <2>1, NextJob, Processed
  <2> QED BY <1>h, <1>n, <1>l, <1>b, <2>1, <2>2
<1>3. CASE OnIntentPending
  <2>1. fsm.job \in Job
    BY <1>t DEF TypeOK
  <2> QED BY <1>3, <1>h, <1>n, <1>l, <1>a, <2>1 DEF OnIntentPending
<1>5. ASSUME NEW e \in Events, Post(e) PROVE HasJob(c, i)'
  BY <1>5, <1>h, <1>n DEF Post
<1>6. CASE UNCHANGED vars
  BY <1>6, <1>h, <1>n DEF vars
<1>7. CASE PostEnds
  <2>1. [intent |-> poster, by |-> Pipeline] \in Job
    BY <1>7, <1>t, PlayerAssumption, SenderTypes DEF PostEnds, TypeOK, Job, Intents
  <2> QED BY <1>7, <1>h, <1>n, <1>l, <1>a, <2>1 DEF PostEnds
<1>8. ASSUME NEW d \in Clients, d # c,
             (\E j \in ClientIntents[d] : SendEvent(d, j)) \/ Continue(d) \/ TimesOut(d)
      PROVE  HasJob(c, i)'
  <2>1. ASSUME NEW j \in ClientIntents[d], SendEvent(d, j) PROVE HasJob(c, i)'
    <3>1. [intent |-> j, by |-> d] \in Job
      BY PlayerAssumption, SenderTypes DEF Job, Intents
    <3>2. /\ jobs' = Append(jobs, [intent |-> j, by |-> d]) \/ jobs' = jobs
          /\ pending' = pending /\ fsm' = fsm
      BY <2>1 DEF SendEvent
    <3> QED BY <1>h, <1>n, <1>l, <1>a, <3>1, <3>2
  <2>2. CASE PushEnds(d)
    <3>1. NewJob(d) \in Job
      BY <1>t, SenderTypes DEF NewJob, Job, TypeOK, Call
    <3> QED BY <2>2, <1>h, <1>n, <1>l, <1>a, <3>1 DEF PushEnds
  <2>3. CASE TakeAnswer(d) \/ PrepareReturns(d)
    BY <2>3, <1>h, <1>n DEF TakeAnswer, PrepareReturns
  <2>4. CASE TimesOut(d)
    <3>1. Abandon(d, job) = job
      BY <1>8 DEF Abandon
    <3>2. ASSUME NEW list \in Seq(Job), JobAt(c, i, list)
          PROVE  JobAt(c, i, [n \in DOMAIN list |-> Abandon(d, list[n])])
      BY <3>1, <3>2, AbandonedList DEF JobAt
    <3>3. fsm'.at = fsm.at /\ fsm'.job = Abandon(d, fsm.job)
      BY <2>4, <1>t DEF TimesOut, TypeOK
    <3>4. /\ jobs' = [n \in DOMAIN jobs |-> Abandon(d, jobs[n])]
          /\ pending' = [n \in DOMAIN pending |-> Abandon(d, pending[n])]
      BY <2>4 DEF TimesOut
    <3> QED BY <1>h, <1>n, <1>l, <3>1, <3>2, <3>3, <3>4
  <2> QED BY <1>8, <2>1, <2>2, <2>3, <2>4 DEF Continue
<1>4. OnIntentExecuted => HasJob(c, i)' \/ fsm.job = job
  BY <1>h, <1>n DEF OnIntentExecuted
<1> QED BY <1>1, <1>2, <1>3, <1>5, <1>6, <1>7, <1>8, <1>4, Zenon

\* A client's call begins with a job for the machine.
LEMMA JobBegins ==
    ASSUME TypeInv, NEW c \in Clients
    PROVE  /\ \A i \in ClientIntents[c] : SendEvent(c, i) => Full \/ HasJob(c, i)'
           /\ \A i \in Intents : PushEnds(c) /\ call[c].intent = i => HasJob(c, i)'
<1>a. ASSUME NEW new \in Job
      PROVE  \E n \in DOMAIN Append(jobs, new) : Append(jobs, new)[n] = new
  <2>1. jobs \in Seq(Job)
    BY DEF TypeInv, TypeOK
  <2>2. /\ Len(jobs) \in Nat /\ Append(jobs, new) \in Seq(Job)
        /\ Len(Append(jobs, new)) = Len(jobs) + 1 /\ Append(jobs, new)[Len(jobs) + 1] = new
    BY <2>1, AppendProperties, LenProperties
  <2>3. Len(jobs) + 1 \in DOMAIN Append(jobs, new)
    BY <2>2, LenProperties
  <2> QED BY <2>2, <2>3
<1>1. ASSUME NEW i \in ClientIntents[c], SendEvent(c, i), ~Full PROVE HasJob(c, i)'
  <2>1. [intent |-> i, by |-> c] \in Job
    BY PlayerAssumption, SenderTypes DEF Job, Intents
  <2> QED BY <1>1, <1>a, <2>1 DEF SendEvent, HasJob
<1>2. ASSUME NEW i \in Intents, PushEnds(c), call[c].intent = i PROVE HasJob(c, i)'
  <2>1. NewJob(c) \in Job
    BY SenderTypes DEF NewJob, Job, TypeInv, TypeOK, Call
  <2> QED BY <1>2, <1>a, <2>1 DEF PushEnds, NewJob, HasJob
<1> QED BY <1>1, <1>2

SleepInv == TypeInv /\ CallInv /\ SleeperWakes

\* A step of another client, which sends other intents, takes nothing of what a
\* client waits for.
LEMMA OthersLeaveIt ==
    ASSUME TypeInv, CallInv, NEW c \in Clients, NEW d \in Clients, d # c,
           call[c].at # "idle", OneSender(call[c].intent),
           (\E j \in ClientIntents[d] : SendEvent(d, j)) \/ Continue(d) \/ TimesOut(d)
    PROVE  LET i == call[c].intent IN
           /\ syncMap'[i] = syncMap[i]
           /\ i \in waitSet => i \in waitSet'
           /\ i \in waitSet' => i \in waitSet
<1> DEFINE i == call[c].intent
<1>1. i \in ClientIntents[c] /\ i \notin ClientIntents[d] /\ i \in Intents
  BY PlayerAssumption DEF OneSender, CallInv, Intents
<1>2. syncMap \in [Intents -> [result : {"none", "ok", "error"}, by : Senders]]
  BY DEF TypeInv, TypeOK
<1>3. ASSUME NEW j \in ClientIntents[d], SendEvent(d, j)
      PROVE  syncMap'[i] = syncMap[i] /\ (i \in waitSet' <=> i \in waitSet)
  BY <1>1, <1>3 DEF SendEvent
<1>4. CASE PushEnds(d) \/ PrepareReturns(d)
  BY <1>4 DEF PushEnds, PrepareReturns, syncVars
<1>5. CASE TakeAnswer(d) \/ TimesOut(d)
  <2>1. call[d].intent # i
    BY <1>1, <1>5 DEF TakeAnswer, TimesOut, CallInv
  <2> QED BY <1>1, <1>2, <1>5, <2>1 DEF TakeAnswer, TimesOut
<1> QED BY <1>3, <1>4, <1>5 DEF Continue

LEMMA StepSleeps ==
    ASSUME \A i \in Intents : OneSender(i)
    PROVE  SleepInv /\ [Next]_vars => SleepInv'
<1> SUFFICES ASSUME SleepInv, [Next]_vars PROVE SleepInv'
  OBVIOUS
<1>t. TypeInv /\ TypeOK /\ CallInv /\ SleeperWakes
  BY DEF SleepInv, TypeInv
<1>n. TypeInv' /\ CallInv'
  BY <1>t, StepTypes, StepCalls
<1> SUFFICES ASSUME NEW c \in Clients, NEW i \in Intents,
                    call'[c].at = "waiting", call'[c].intent = i
             PROVE  syncMap'[i] # NoAnswer \/ (HasJob(c, i)' /\ i \in waitSet')
  <2>1. call' \in [Clients -> Call]
    BY <1>n DEF TypeInv, TypeOK
  <2>2. \A c \in Clients : call'[c].intent \in Intents
    BY <2>1 DEF Call
  <2> QED BY <1>n, <2>2 DEF SleepInv, SleeperWakes
<1> DEFINE WakesNext == syncMap'[i] # NoAnswer \/ (HasJob(c, i)' /\ i \in waitSet')
<1>w. call[c].at = "waiting" /\ call[c].intent = i
      => syncMap[i] # NoAnswer \/ (HasJob(c, i) /\ i \in waitSet)
  BY <1>t DEF SleeperWakes
<1>1. ASSUME UNCHANGED <<waitSet, syncMap>>, call'[c].at = call[c].at, call'[c].intent = call[c].intent,
             HasJob(c, i) => HasJob(c, i)'
      PROVE  WakesNext
  BY <1>1, <1>w
<1>2. CASE PopJob \/ RunPending
  BY <1>1, <1>2, <1>t, ExecutionFrame, JobMoves
<1>3. CASE OnIntentPending
  <2>1. UNCHANGED <<waitSet, syncMap, call>>
    BY <1>3 DEF OnIntentPending, syncVars
  <2> QED BY <1>1, <1>3, <1>t, <2>1, JobMoves
<1>4. CASE OnIntentExecuted
  <2>1. /\ call' = call /\ Tell(fsm.job.intent, fsm.result, fsm.job.by)
        /\ syncMap[i] # NoAnswer \/ (HasJob(c, i) /\ i \in waitSet)
    BY <1>4, <1>w DEF OnIntentExecuted
  <2>2. fsm.result \in {"ok", "error"} /\ fsm.job.intent \in Intents
    BY <1>t DEF TypeOK, Results, Job
  <2>3. syncMap \in [Intents -> [result : {"none", "ok", "error"}, by : Senders]]
    BY <1>t DEF TypeOK
  <2>4. CASE syncMap[i] # NoAnswer
    BY <2>1, <2>3, <2>4 DEF Tell
  <2>5. CASE i \in waitSet /\ fsm.job.intent = i
    BY <2>1, <2>2, <2>3, <2>5 DEF Tell, NoAnswer
  <2>6. CASE i \in waitSet /\ fsm.job.intent # i /\ HasJob(c, i)
    <3>1. HasJob(c, i)'
      <4>1. fsm.job # [intent |-> i, by |-> c]
        BY <2>6
      <4>2. HasJob(c, i)' \/ fsm.job = [intent |-> i, by |-> c]
        BY <1>4, <1>t, <2>6, JobMoves, Zenon
      <4> QED BY <4>1, <4>2
    <3>2. i \in waitSet'
      BY <2>1, <2>6 DEF Tell
    <3> QED BY <2>1, <3>1, <3>2
  <2> QED BY <2>1, <2>4, <2>5, <2>6
<1>5. ASSUME NEW d \in Clients, d # c,
             (\E j \in ClientIntents[d] : SendEvent(d, j)) \/ Continue(d) \/ TimesOut(d)
      PROVE  WakesNext
  <2>1. call'[c] = call[c]
    BY <1>5, <1>t, CallOfOthers
  <2>2. syncMap'[i] = syncMap[i] /\ (i \in waitSet => i \in waitSet')
    BY <1>5, <1>t, <2>1, OthersLeaveIt
  <2>3. HasJob(c, i) => HasJob(c, i)'
    BY <1>5, <1>t, JobMoves
  <2> QED BY <1>w, <2>1, <2>2, <2>3
<1>6. ASSUME NEW j \in ClientIntents[c], SendEvent(c, j) PROVE WakesNext
  <2>1. i = j /\ ~Full /\ j \in waitSet'
    BY <1>6, <1>t, OwnCall DEF SendEvent
  <2> QED BY <1>6, <1>t, <2>1, JobBegins
<1>7. CASE PushEnds(c)
  <2>1. call[c].intent = i /\ i \in waitSet'
    BY <1>7, <1>t, OwnCall DEF PushEnds, CallInv
  <2> QED BY <1>7, <1>t, <2>1, JobBegins
<1>8. CASE TakeAnswer(c) \/ TimesOut(c) \/ PrepareReturns(c)
  <2>1. call'[c].at # "waiting"
    BY <1>8, <1>t, OwnCall
  <2> QED BY <2>1
<1>9. ASSUME NEW e \in Events, Post(e) PROVE WakesNext
  <2>1. UNCHANGED <<waitSet, syncMap, call>>
    BY <1>9 DEF Post, syncVars
  <2> QED BY <1>1, <1>9, <1>t, <2>1, JobMoves
<1>10. CASE PostEnds \/ UNCHANGED vars
  <2>1. UNCHANGED <<waitSet, syncMap, call>>
    BY <1>10 DEF PostEnds, vars, syncVars
  <2> QED BY <1>1, <1>10, <1>t, <2>1, JobMoves
<1> QED BY <1>2, <1>3, <1>4, <1>5, <1>6, <1>7, <1>8, <1>9, <1>10 DEF Next, MachineSteps, Continue

\* While each intent has one sender at most, a client sleeps in SendEvent only as
\* long as an answer is there or a job with its intent is still to be answered,
\* even if other calls have given up after 30 s and left their jobs behind.
THEOREM NobodySleepsForever ==
    ASSUME \A i \in Intents : OneSender(i)
    PROVE  Spec => []SleeperWakes
<1>1. Init => SleepInv
  BY InitTypes, InitCalls DEF Init, SleepInv, SleeperWakes
<1>2. SleepInv => SleeperWakes
  BY DEF SleepInv
<1> QED BY <1>1, <1>2, StepSleeps, PTL DEF Spec

-----------------------------------------------------------------------------
(* Prepare.                                                                *)

\* An answer is kept for the one client that waits for it, and is not waited for
\* any more; what is waited for has a client that waits.
AnswerInv(i) ==
    /\ syncMap[i] # NoAnswer =>
          i \notin waitSet /\ \E c \in Clients : call[c].at = "waiting" /\ call[c].intent = i
    /\ i \in waitSet =>
          \E c \in Clients : call[c].at \in {"waiting", "pushing"} /\ call[c].intent = i

LEMMA StepAnswers ==
    ASSUME NEW i \in Intents, OneSender(i)
    PROVE  TypeInv /\ CallInv /\ AnswerInv(i) /\ [Next]_vars => AnswerInv(i)'
<1> SUFFICES ASSUME TypeInv, CallInv, AnswerInv(i), [Next]_vars PROVE AnswerInv(i)'
  OBVIOUS
<1>t. TypeOK
  BY DEF TypeInv
<1>s. syncMap \in [Intents -> [result : {"none", "ok", "error"}, by : Senders]]
  BY <1>t DEF TypeOK
<1>1. CASE PopJob \/ RunPending
  BY <1>1, ExecutionFrame DEF AnswerInv
<1>2. CASE OnIntentPending
  BY <1>2 DEF OnIntentPending, syncVars, AnswerInv
<1>3. CASE OnIntentExecuted
  <2>1. /\ call' = call /\ Tell(fsm.job.intent, fsm.result, fsm.job.by)
        /\ \A c \in Clients : call[c].at # "pushing"
    BY <1>3, SenderTypes DEF OnIntentExecuted, CallInv
  <2>2. CASE fsm.job.intent # i \/ i \notin waitSet
    BY <1>s, <2>1, <2>2 DEF Tell, AnswerInv
  <2>3. CASE fsm.job.intent = i /\ i \in waitSet
    <3>1. /\ \E c \in Clients : call[c].at = "waiting" /\ call[c].intent = i
          /\ i \notin waitSet'
      BY <2>1, <2>3 DEF Tell, AnswerInv
    <3> QED BY <2>1, <3>1 DEF AnswerInv
  <2> QED BY <2>2, <2>3
<1>4. ASSUME NEW c \in Clients, NEW j \in ClientIntents[c], SendEvent(c, j)
      PROVE  AnswerInv(i)'
  <2>1. /\ call[c].at = "idle" /\ waitSet' = waitSet \cup {j} /\ syncMap' = syncMap
        /\ call'[c].at \in {"waiting", "pushing"} /\ call'[c].intent = j
    BY <1>4, <1>t, OwnCall DEF SendEvent
  <2>2. \A d \in Clients : d # c => call'[d] = call[d]
    BY <1>4, <1>t, CallOfOthers
  <2>3. CASE j = i
    <3>1. syncMap[i] = NoAnswer
      BY <2>1, <2>3 DEF AnswerInv, OneSender, CallInv
    <3> QED BY <2>1, <2>3, <3>1 DEF AnswerInv
  <2>4. CASE j # i
    <3>1. \A d \in Clients : call[d].at # "idle" => call'[d] = call[d]
      BY <2>1, <2>2
    <3> QED BY <2>1, <2>4, <3>1 DEF AnswerInv
  <2> QED BY <2>3, <2>4
<1>5. ASSUME NEW c \in Clients, PushEnds(c) PROVE AnswerInv(i)'
  <2>1. /\ call[c].at = "pushing" /\ UNCHANGED <<waitSet, syncMap>>
        /\ call'[c].at = "waiting" /\ call'[c].intent = call[c].intent
    BY <1>5, <1>t, OwnCall DEF PushEnds
  <2>2. \A d \in Clients : d # c => call'[d] = call[d]
    BY <1>5, <1>t, CallOfOthers DEF Continue
  <2>3. \A d \in Clients : /\ call[d].at = "waiting" => call'[d] = call[d]
                           /\ call[d].at = "pushing" => call'[d].at \in {"waiting", "pushing"}
                           /\ call'[d].intent = call[d].intent
    BY <2>1, <2>2
  <2> QED BY <2>1, <2>3 DEF AnswerInv
<1>6. ASSUME NEW c \in Clients, TakeAnswer(c) PROVE AnswerInv(i)'
  <2>1. /\ call[c].at = "waiting" /\ syncMap[call[c].intent] # NoAnswer
        /\ syncMap' = [syncMap EXCEPT ![call[c].intent] = NoAnswer] /\ waitSet' = waitSet
    BY <1>6 DEF TakeAnswer
  <2>2. \A d \in Clients : d # c => call'[d] = call[d]
    BY <1>6, <1>t, CallOfOthers DEF Continue
  <2>3. CASE call[c].intent = i
    BY <1>s, <2>1, <2>3 DEF AnswerInv
  <2>4. CASE call[c].intent # i
    <3>1. syncMap'[i] = syncMap[i]
      BY <1>s, <2>1, <2>4
    <3> QED BY <2>1, <2>2, <2>4, <3>1 DEF AnswerInv
  <2> QED BY <2>3, <2>4
<1>7. ASSUME NEW c \in Clients, TimesOut(c) PROVE AnswerInv(i)'
  <2>1. /\ call[c].at = "waiting" /\ syncMap[call[c].intent] = NoAnswer
        /\ waitSet' = waitSet \ {call[c].intent} /\ syncMap' = syncMap
    BY <1>7 DEF TimesOut
  <2>2. \A d \in Clients : d # c => call'[d] = call[d]
    BY <1>7, <1>t, CallOfOthers
  <2> QED BY <2>1, <2>2 DEF AnswerInv
<1>8. ASSUME NEW c \in Clients, PrepareReturns(c) PROVE AnswerInv(i)'
  <2>1. call[c].at = "preparing" /\ UNCHANGED <<waitSet, syncMap>>
    BY <1>8 DEF PrepareReturns, syncVars
  <2>2. \A d \in Clients : d # c => call'[d] = call[d]
    BY <1>8, <1>t, CallOfOthers DEF Continue
  <2>3. \A d \in Clients : call[d].at \in {"waiting", "pushing"} => call'[d] = call[d]
    BY <2>1, <2>2
  <2> QED BY <2>1, <2>3 DEF AnswerInv
<1>9. ASSUME NEW e \in Events, Post(e) PROVE AnswerInv(i)'
  BY <1>9 DEF Post, syncVars, AnswerInv
<1>10. CASE PostEnds \/ UNCHANGED vars
  BY <1>10 DEF PostEnds, vars, syncVars, AnswerInv
<1> QED BY <1>1, <1>2, <1>3, <1>4, <1>5, <1>6, <1>7, <1>8, <1>9, <1>10
           DEF Next, MachineSteps, Continue

\* A PREPARE that succeeds leaves the machine in PREPARING until its answer is
\* there; the client that has been answered has seen the READY that came since.
PreparedInv ==
    /\ fsm.at \in {"notify", "notifyPending"} /\ fsm.job.intent = "PREPARE" /\ fsm.result = "ok"
       => curState = "PREPARING"
    /\ \A c \in Clients :
          /\ call[c].intent = "PREPARE" /\ curState = "READY"
          /\ \/ call[c].at = "preparing"
             \/ call[c].at = "waiting" /\ syncMap["PREPARE"].result = "ok"
          => call[c].readySeen

PrepareInv == TypeInv /\ CallInv /\ AnswerInv("PREPARE") /\ PreparedInv /\ PrepareIsReady

LEMMA PrepareLeadsTo ==
    ASSUME TypeOK, NEW job \in Job, ProcessIntent(job), job.intent = "PREPARE", fsm'.result = "ok"
    PROVE  curState' = "PREPARING"
<1>1. \A t \in Transitions : t[2] = "PREPARE" => t[3] = "PREPARING"
  <2>1. TAKE t \in Transitions
  <2>2. \/ t = <<{"IDLE", "INIT"}, "SET_SOURCE", "INIT">>
        \/ t = <<{"INIT"}, "PREPARE", "PREPARING">>
        \/ t = <<{"READY", "PAUSE", "EOS"}, "PLAY", "PLAYING">>
        \/ t = <<{"PLAYING"}, "PAUSE", "PAUSE">>
        \/ t = <<{"PAUSE"}, "RESUME", "PLAYING">>
        \/ t = <<States \ {"IDLE", "STOPPED"}, "STOP", "STOPPED">>
        \/ t = <<States, "RESET", "IDLE">>
        \/ t = <<{"PREPARING"}, "NOTIFY_READY", "READY">>
        \/ t = <<IF FALSE \in Looping THEN {"PLAYING"} ELSE {}, "NOTIFY_COMPLETE", "EOS">>
        \/ t = <<States, "NOTIFY_ERROR", "INIT">>
    BY Zenon DEF Transitions
  <2>3. ASSUME NEW from, NEW i, NEW to, t = <<from, i, to>>, i # "PREPARE"
        PROVE  t[2] # "PREPARE"
    BY <2>3
  <2>4. ASSUME NEW from, t = <<from, "PREPARE", "PREPARING">>
        PROVE  t[3] = "PREPARING"
    BY <2>4
  <2> QED BY <2>2, <2>3, <2>4
<1>2. CASE Move(job)
  BY <1>1, <1>2 DEF Move
<1>3. CASE Stay(job)
  BY <1>3 DEF Stay, Stays, Done
<1>4. CASE PlayAgain(job) \/ Pend(job)
  BY <1>4 DEF PlayAgain, Pend
<1> QED BY <1>2, <1>3, <1>4 DEF ProcessIntent

\* Executing a job: what Prepare depends on.
LEMMA ExecutionPrepares ==
    ASSUME TypeInv, CallInv, PreparedInv, PopJob \/ RunPending
    PROVE  PreparedInv'
<1>t. TypeOK /\ PendingIsThere
  BY DEF TypeInv
<1>1. PICK job \in Job : ProcessIntent(job) /\ fsm.at \in {"pop", "pending"}
  <2>1. PopJob => Head(jobs) \in Job
    BY <1>t, NextJob DEF PopJob, TypeOK
  <2>2. RunPending => Head(pending) \in Job
    BY <1>t, NextJob DEF RunPending, TypeOK, PendingIsThere
  <2> QED BY <2>1, <2>2 DEF PopJob, RunPending
<1>2. fsm'.job.intent = "PREPARE" /\ fsm'.result = "ok" => curState' = "PREPARING"
  <2>1. fsm'.job = job
    BY <1>t, <1>1, Processed
  <2> QED BY <1>t, <1>1, <2>1, PrepareLeadsTo
<1>3. /\ \A c \in Clients : call'[c].at = call[c].at /\ call'[c].intent = call[c].intent
      /\ syncMap' = syncMap
      /\ (curState' = curState /\ call' = call) \/ SeeState(curState')
  BY <1>1, ExecutionFrame
<1>4. CASE curState' = curState /\ call' = call
  BY <1>2, <1>3, <1>4 DEF PreparedInv
<1>5. CASE SeeState(curState')
  <2>1. ASSUME NEW c \in Clients, call[c].at \in {"waiting", "preparing"},
               call[c].intent = "PREPARE", curState' = "READY"
        PROVE  call'[c].readySeen
    <3>1. call[c] \in Call
      BY <1>t DEF TypeOK
    <3>2. call'[c] = [call[c] EXCEPT !.readySeen = curState' = "READY" \/ (@ /\ curState' # "PREPARING")]
      BY <1>5, <2>1 DEF SeeState
    <3> QED BY <2>1, <3>1, <3>2 DEF Call
  <2> QED BY <1>2, <1>3, <2>1 DEF PreparedInv
<1> QED BY <1>3, <1>4, <1>5

LEMMA StepPrepares ==
    ASSUME OneSender("PREPARE")
    PROVE  PrepareInv /\ [Next]_vars => PrepareInv'
<1> SUFFICES ASSUME PrepareInv, [Next]_vars PROVE PrepareInv'
  OBVIOUS
<1>t. TypeInv /\ TypeOK /\ CallInv /\ AnswerInv("PREPARE") /\ PreparedInv /\ PrepareIsReady
  BY DEF PrepareInv, TypeInv
<1>i. "PREPARE" \in Intents
  BY DEF Intents, AppIntents
<1>n. TypeInv' /\ CallInv' /\ AnswerInv("PREPARE")'
  BY <1>t, <1>i, StepTypes, StepCalls, StepAnswers
<1> SUFFICES PreparedInv' /\ PrepareIsReady'
  BY <1>n DEF PrepareInv
<1>s. syncMap \in [Intents -> [result : {"none", "ok", "error"}, by : Senders]]
  BY <1>t DEF TypeOK
<1>1. CASE PopJob \/ RunPending
  <2>1. PrepareIsReady'
    <3>1. \A c \in Clients :
              /\ call'[c].at = call[c].at /\ call'[c].intent = call[c].intent
              /\ call'[c].result = call[c].result
              /\ call[c].at = "idle" => call'[c].readySeen = call[c].readySeen
      BY <1>1, <1>t, ExecutionFrame DEF SeeState
    <3> QED BY <1>t, <3>1 DEF PrepareIsReady
  <2> QED BY <1>1, <1>t, <2>1, ExecutionPrepares
<1>2. CASE OnIntentPending
  BY <1>2, <1>t DEF OnIntentPending, AtPop, syncVars, PreparedInv, PrepareIsReady
<1>3. CASE OnIntentExecuted
  <2>1. /\ UNCHANGED <<curState, call>> /\ Tell(fsm.job.intent, fsm.result, fsm.job.by)
        /\ fsm'.at \notin {"notify", "notifyPending"} /\ fsm.at \in {"notify", "notifyPending"}
    BY <1>3 DEF OnIntentExecuted, AtPop
  <2>2. syncMap'["PREPARE"].result = "ok" /\ curState = "READY" => syncMap["PREPARE"].result = "ok"
    <3>1. CASE fsm.job.intent = "PREPARE" /\ fsm.result = "ok"
      BY <1>t, <2>1, <3>1 DEF PreparedInv
    <3>2. CASE fsm.job.intent = "PREPARE" /\ fsm.result # "ok"
      BY <1>i, <1>s, <2>1, <3>2 DEF Tell
    <3>3. CASE fsm.job.intent # "PREPARE"
      BY <1>i, <1>s, <2>1, <3>3 DEF Tell
    <3> QED BY <3>1, <3>2, <3>3
  <2> QED BY <1>t, <2>1, <2>2 DEF PreparedInv, PrepareIsReady
<1>4. ASSUME NEW c \in Clients, NEW j \in ClientIntents[c], SendEvent(c, j)
      PROVE  PreparedInv' /\ PrepareIsReady'
  <2>1. /\ call[c].at = "idle" /\ UNCHANGED <<curState, fsm, syncMap>>
        /\ call'[c].at \in {"waiting", "pushing"} /\ call'[c].intent = j
    BY <1>4, <1>t, OwnCall DEF SendEvent
  <2>2. \A d \in Clients : d # c => call'[d] = call[d]
    BY <1>4, <1>t, CallOfOthers
  <2>3. j = "PREPARE" => syncMap["PREPARE"] = NoAnswer
    BY <1>t, <2>1 DEF AnswerInv, OneSender, CallInv
  <2> QED BY <1>t, <2>1, <2>2, <2>3 DEF PreparedInv, PrepareIsReady, NoAnswer
<1>5. ASSUME NEW c \in Clients, PushEnds(c)
      PROVE  PreparedInv' /\ PrepareIsReady'
  <2>1. /\ call[c].at = "pushing" /\ UNCHANGED <<curState, fsm, syncMap>>
        /\ call'[c].at = "waiting" /\ call'[c].intent = call[c].intent
    BY <1>5, <1>t, OwnCall DEF PushEnds
  <2>2. \A d \in Clients : d # c => call'[d] = call[d]
    BY <1>5, <1>t, CallOfOthers DEF Continue
  <2>3. call[c].intent = "PREPARE" => syncMap["PREPARE"] = NoAnswer
    BY <1>t, <2>1 DEF AnswerInv, OneSender, CallInv
  <2> QED BY <1>t, <2>1, <2>2, <2>3 DEF PreparedInv, PrepareIsReady, NoAnswer
<1>6. ASSUME NEW c \in Clients, TakeAnswer(c)
      PROVE  PreparedInv' /\ PrepareIsReady'
  <2>1. /\ call[c].at = "waiting" /\ UNCHANGED <<curState, fsm>>
        /\ syncMap' = [syncMap EXCEPT ![call[c].intent] = NoAnswer]
        /\ call'[c].at = IF call[c].intent = "PREPARE" /\ syncMap[call[c].intent].result = "ok"
                         THEN "preparing" ELSE "idle"
        /\ call'[c].intent = call[c].intent /\ call'[c].result = syncMap[call[c].intent].result
        /\ call'[c].readySeen = call[c].readySeen
    BY <1>6, <1>t, OwnCall DEF TakeAnswer
  <2>2. \A d \in Clients : d # c => call'[d] = call[d]
    BY <1>6, <1>t, CallOfOthers DEF Continue
  <2>3. syncMap'["PREPARE"].result = "ok" => syncMap["PREPARE"].result = "ok"
    BY <1>i, <1>s, <2>1 DEF NoAnswer
  <2>4. PreparedInv'
    BY <1>t, <2>1, <2>2, <2>3 DEF PreparedInv
  <2>5. PrepareIsReady'
    BY <1>t, <2>1, <2>2 DEF PrepareIsReady
  <2> QED BY <2>4, <2>5, SMTT(60)
<1>7. ASSUME NEW c \in Clients, TimesOut(c)
      PROVE  PreparedInv' /\ PrepareIsReady'
  <2>1. /\ UNCHANGED <<curState, syncMap>>
        /\ call'[c].at = "idle" /\ call'[c].result = "timeout"
    BY <1>7, <1>t, OwnCall DEF TimesOut
  <2>2. \A d \in Clients : d # c => call'[d] = call[d]
    BY <1>7, <1>t, CallOfOthers
  <2>3. /\ fsm'.at = fsm.at /\ fsm'.result = fsm.result
        /\ fsm'.job.intent = fsm.job.intent
    <3>1. fsm' = [fsm EXCEPT !.job = Abandon(c, @)] /\ fsm.job \in Job
      BY <1>7, <1>t DEF TimesOut, TypeOK
    <3>2. Abandon(c, fsm.job).intent = fsm.job.intent
      BY <3>1 DEF Abandon, Job
    <3>3. fsm \in [at : {"pop", "notify", "pending", "notifyPending"}, job : Job,
                   result : Results, action : Actions]
      BY <1>t DEF TypeOK
    <3> QED BY <3>1, <3>2, <3>3
  <2> QED BY <1>t, <2>1, <2>2, <2>3 DEF PreparedInv, PrepareIsReady
<1>8. ASSUME NEW c \in Clients, PrepareReturns(c)
      PROVE  PreparedInv' /\ PrepareIsReady'
  <2>1. /\ call[c].at = "preparing" /\ UNCHANGED <<curState, fsm, syncMap>>
        /\ call'[c].at = "idle" /\ call'[c].intent = call[c].intent
        /\ call'[c].result = IF curState = "READY" THEN "ok" ELSE "error"
        /\ call'[c].readySeen = call[c].readySeen
    BY <1>8, <1>t, OwnCall DEF PrepareReturns, syncVars
  <2>2. \A d \in Clients : d # c => call'[d] = call[d]
    BY <1>8, <1>t, CallOfOthers DEF Continue
  <2> QED BY <1>t, <2>1, <2>2 DEF PreparedInv, PrepareIsReady
<1>9. ASSUME NEW e \in Events, Post(e)
      PROVE  PreparedInv' /\ PrepareIsReady'
  BY <1>9, <1>t DEF Post, syncVars, PreparedInv, PrepareIsReady
<1>10. CASE PostEnds \/ UNCHANGED vars
  BY <1>10, <1>t DEF PostEnds, vars, syncVars, PreparedInv, PrepareIsReady
<1> QED BY <1>1, <1>2, <1>3, <1>4, <1>5, <1>6, <1>7, <1>8, <1>9, <1>10
           DEF Next, MachineSteps, Continue

\* Prepare succeeds only after a READY that came while it waited, whatever fails,
\* gives up or is posted meanwhile, as long as one client prepares the player.
THEOREM PreparedMeansReady ==
    ASSUME OneSender("PREPARE")
    PROVE  Spec => []PrepareIsReady
<1>1. Init => PrepareInv
  <2>1. Init => AnswerInv("PREPARE") /\ PreparedInv /\ PrepareIsReady
    BY DEF Init, AnswerInv, PreparedInv, PrepareIsReady, AtPop, NoAnswer,
           Intents, AppIntents
  <2> QED BY <2>1, InitTypes, InitCalls DEF PrepareInv
<1>2. PrepareInv => PrepareIsReady
  BY DEF PrepareInv
<1> QED BY <1>1, <1>2, StepPrepares, PTL DEF Spec

-----------------------------------------------------------------------------
(* Each job has its call, while no call gives up.                          *)

\* The job the machine executes, until it has told the Synchronizer.
Running == IF fsm.at \in {"notify", "notifyPending"} THEN {fsm.job} ELSE {}

\* The jobs of a client are one at most: only the pipeline sends without waiting.
Apart(j, k) == j.by = k.by => j.by = Pipeline

Distinct(js, ps, run) ==
    /\ \A m, n \in DOMAIN js : m # n => Apart(js[m], js[n])
    /\ \A m, n \in DOMAIN ps : m # n => Apart(ps[m], ps[n])
    /\ \A m \in DOMAIN js, n \in DOMAIN ps : Apart(js[m], ps[n])
    /\ \A r \in run, n \in DOMAIN js : Apart(r, js[n])
    /\ \A r \in run, n \in DOMAIN ps : Apart(r, ps[n])

Everyone(js, ps, run) == {js[n] : n \in DOMAIN js} \cup {ps[n] : n \in DOMAIN ps} \cup run

\* The job of a client that waits for it and has no answer, or one of the pipeline.
Own(job) ==
    \/ /\ job.by \in Clients
       /\ call[job.by].at = "waiting" /\ call[job.by].intent = job.intent
       /\ job.intent \in waitSet /\ syncMap[job.intent] = NoAnswer
    \/ job.by = Pipeline /\ job.intent \in AllEvents

QueueInv ==
    /\ Distinct(jobs, pending, Running)
    /\ \A job \in Everyone(jobs, pending, Running) : Own(job)

LEMMA AppendedList ==
    ASSUME NEW list \in Seq(Job), NEW new \in Job
    PROVE  /\ Append(list, new) \in Seq(Job)
           /\ \A n \in DOMAIN Append(list, new) :
                 \/ n \in DOMAIN list /\ Append(list, new)[n] = list[n]
                 \/ n = Len(list) + 1 /\ n \notin DOMAIN list /\ Append(list, new)[n] = new
<1>1. /\ Append(list, new) \in Seq(Job) /\ Len(Append(list, new)) = Len(list) + 1
      /\ \A n \in 1 .. Len(list) : Append(list, new)[n] = list[n]
      /\ Append(list, new)[Len(list) + 1] = new
  BY AppendProperties
<1>2. /\ DOMAIN list = 1 .. Len(list) /\ Len(list) \in Nat
      /\ DOMAIN Append(list, new) = 1 .. Len(list) + 1
  BY <1>1, LenProperties
<1> QED BY <1>1, <1>2

\* The first job is executed.
LEMMA DistinctPop ==
    ASSUME NEW js \in Seq(Job), NEW ps \in Seq(Job), js # <<>>, Distinct(js, ps, {})
    PROVE  /\ Distinct(Tail(js), ps, {Head(js)})
           /\ Everyone(Tail(js), ps, {Head(js)}) \subseteq Everyone(js, ps, {})
<1>1. /\ Head(js) = js[1] /\ 1 \in DOMAIN js
      /\ \A n \in DOMAIN Tail(js) : n + 1 \in DOMAIN js /\ n + 1 # 1 /\ Tail(js)[n] = js[n + 1]
      /\ \A m, n \in DOMAIN Tail(js) : m # n => m + 1 # n + 1
  BY NextJob, LenProperties
<1> QED BY <1>1 DEF Distinct, Everyone, Apart

LEMMA DistinctTry ==
    ASSUME NEW js \in Seq(Job), NEW ps \in Seq(Job), ps # <<>>, Distinct(js, ps, {})
    PROVE  /\ Distinct(js, Tail(ps), {Head(ps)})
           /\ Everyone(js, Tail(ps), {Head(ps)}) \subseteq Everyone(js, ps, {})
<1>1. /\ Head(ps) = ps[1] /\ 1 \in DOMAIN ps
      /\ \A n \in DOMAIN Tail(ps) : n + 1 \in DOMAIN ps /\ n + 1 # 1 /\ Tail(ps)[n] = ps[n + 1]
      /\ \A m, n \in DOMAIN Tail(ps) : m # n => m + 1 # n + 1
  BY NextJob, LenProperties
<1> QED BY <1>1 DEF Distinct, Everyone, Apart

\* The job in progress is kept for later.
LEMMA DistinctKeep ==
    ASSUME NEW js \in Seq(Job), NEW ps \in Seq(Job), NEW r \in Job, Distinct(js, ps, {r})
    PROVE  /\ Distinct(js, Append(ps, r), {})
           /\ Everyone(js, Append(ps, r), {}) \subseteq Everyone(js, ps, {r})
  BY AppendedList DEF Distinct, Everyone, Apart

\* A job is pushed.
LEMMA DistinctPush ==
    ASSUME NEW js \in Seq(Job), NEW ps \in Seq(Job), NEW run, NEW new \in Job,
           Distinct(js, ps, run),
           \A job \in Everyone(js, ps, run) : Apart(new, job)
    PROVE  /\ Distinct(Append(js, new), ps, run)
           /\ Everyone(Append(js, new), ps, run) \subseteq Everyone(js, ps, run) \cup {new}
  BY AppendedList DEF Distinct, Everyone, Apart

LEMMA NobodyGivesUp ==
    ASSUME MaxAbandoned = 0, TypeInv, NEW c \in Clients
    PROVE  ~TimesOut(c)
<1>1. ASSUME NEW list \in Seq(Job) PROVE Abandoned(list) \in Nat
  <2>1. IsFiniteSet(1 .. Len(list)) /\ DOMAIN list = 1 .. Len(list)
    BY FS_Interval, LenProperties
  <2>2. IsFiniteSet({n \in DOMAIN list : list[n].by = Nobody})
    BY <2>1, FS_Subset
  <2> QED BY <2>2, FS_CardinalityType DEF Abandoned
<1>2. Abandoned(jobs) \in Nat /\ Abandoned(pending) \in Nat
  BY <1>1 DEF TypeInv, TypeOK
<1> QED BY <1>2 DEF TimesOut

\* A client has no job in the queues unless it waits without an answer.
LEMMA NoJobYet ==
    ASSUME QueueInv, NEW c \in Clients,
           call[c].at # "waiting" \/ syncMap[call[c].intent] # NoAnswer
    PROVE  \A job \in Everyone(jobs, pending, Running) : job.by # c
  BY SenderTypes DEF QueueInv, Own

AnswersInv == \A i \in Intents : AnswerInv(i)

\* The step of a client: its own job is new.
LEMMA ClientQueues ==
    ASSUME \A i \in Intents : OneSender(i), TypeInv, CallInv, AnswersInv, QueueInv, NEW c \in Clients,
           (\E i \in ClientIntents[c] : SendEvent(c, i)) \/ Continue(c)
    PROVE  QueueInv'
<1>t. TypeOK /\ jobs \in Seq(Job) /\ pending \in Seq(Job)
  BY DEF TypeInv, TypeOK
<1>s. syncMap \in [Intents -> [result : {"none", "ok", "error"}, by : Senders]]
  BY <1>t DEF TypeOK
<1>o. \A d \in Clients : d # c => call'[d] = call[d]
  BY <1>t, CallOfOthers
<1>f. fsm' = fsm /\ Running' = Running /\ pending' = pending
  BY DEF SendEvent, Continue, PushEnds, TakeAnswer, PrepareReturns, Running
<1>p. call[c].at # "waiting" \/ TakeAnswer(c)
  BY DEF SendEvent, Continue, PushEnds, TakeAnswer, PrepareReturns
<1>j. \A job \in Everyone(jobs, pending, Running) : job.by # c
  BY <1>p, NoJobYet DEF TakeAnswer
<1>1. ASSUME NEW job \in Everyone(jobs, pending, Running) PROVE Own(job)'
  <2>1. Own(job)
    BY DEF QueueInv
  <2>2. CASE job.by = Pipeline
    BY <2>1, <2>2, SenderTypes DEF Own
  <2>3. CASE job.by \in Clients
    <3> DEFINE d == job.by
    <3>1. /\ d # c /\ call[d].at = "waiting" /\ call[d].intent = job.intent
          /\ job.intent \in waitSet /\ syncMap[job.intent] = NoAnswer
      BY <1>j, <2>1, <2>3, SenderTypes DEF Own
    <3>2. job.intent \in Intents
      BY <1>t, <2>3, <3>1 DEF TypeOK, Call
    <3>3. syncMap'[job.intent] = syncMap[job.intent] /\ job.intent \in waitSet'
      BY <2>3, <3>1, <3>2, OthersLeaveIt
    <3> QED BY <1>o, <2>3, <3>1, <3>3 DEF Own
  <2> QED BY <2>1, <2>2, <2>3 DEF Own
<1>2. ASSUME UNCHANGED jobs PROVE QueueInv'
  BY <1>1, <1>2, <1>f DEF QueueInv
<1>3. ASSUME NEW i \in ClientIntents[c], jobs' = Append(jobs, [intent |-> i, by |-> c]),
             call'[c].at = "waiting", call'[c].intent = i, i \in waitSet', syncMap' = syncMap,
             call[c].at \in {"idle", "pushing"}
      PROVE  QueueInv'
  <2> DEFINE new == [intent |-> i, by |-> c]
  <2>1. new \in Job /\ i \in Intents
    BY PlayerAssumption, SenderTypes DEF Job, Intents
  <2>2. /\ Distinct(jobs', pending', Running')
        /\ Everyone(jobs', pending', Running') \subseteq Everyone(jobs, pending, Running) \cup {new}
    BY <1>3, <1>f, <1>j, <1>t, <2>1, DistinctPush DEF QueueInv, Apart
  <2>3. syncMap[i] = NoAnswer
    <3>1. \A d \in Clients : call[d].at = "waiting" => call[d].intent # i
      BY <1>3, <2>1 DEF CallInv, OneSender
    <3> QED BY <2>1, <3>1 DEF AnswersInv, AnswerInv
  <2>4. Own(new)'
    BY <1>3, <2>1, <2>3 DEF Own
  <2> QED BY <1>1, <2>2, <2>4 DEF QueueInv
<1>4. ASSUME NEW i \in ClientIntents[c], SendEvent(c, i) PROVE QueueInv'
  <2>1. /\ call'[c].at = IF Full THEN "pushing" ELSE "waiting"
        /\ call'[c].intent = i /\ call[c].at = "idle" /\ i \in waitSet' /\ syncMap' = syncMap
        /\ IF Full THEN UNCHANGED jobs ELSE jobs' = Append(jobs, [intent |-> i, by |-> c])
    BY <1>4, <1>t, OwnCall DEF SendEvent
  <2> QED BY <1>2, <1>3, <2>1
<1>5. CASE PushEnds(c)
  <2>1. /\ call'[c].at = "waiting" /\ call'[c].intent = call[c].intent
        /\ call[c].at = "pushing" /\ syncMap' = syncMap /\ waitSet' = waitSet
        /\ jobs' = Append(jobs, [intent |-> call[c].intent, by |-> c])
    BY <1>5, <1>t, OwnCall DEF PushEnds, NewJob
  <2>2. call[c].intent \in ClientIntents[c] /\ call[c].intent \in waitSet
    BY <2>1 DEF CallInv
  <2>3. PICK i \in ClientIntents[c] : i = call[c].intent
    BY <2>2
  <2> QED BY <1>3, <2>1, <2>2, <2>3
<1>6. CASE TakeAnswer(c) \/ PrepareReturns(c)
  BY <1>2, <1>6 DEF TakeAnswer, PrepareReturns
<1> QED BY <1>4, <1>5, <1>6 DEF Continue

LEMMA StepQueues ==
    ASSUME \A i \in Intents : OneSender(i), MaxAbandoned = 0
    PROVE  TypeInv /\ CallInv /\ AnswersInv /\ QueueInv /\ [Next]_vars => QueueInv'
<1> SUFFICES ASSUME TypeInv, CallInv, AnswersInv, QueueInv, [Next]_vars PROVE QueueInv'
  OBVIOUS
<1>t. TypeOK /\ PendingIsThere /\ jobs \in Seq(Job) /\ pending \in Seq(Job) /\ fsm.job \in Job
  BY DEF TypeInv, TypeOK
<1>1. ASSUME UNCHANGED <<waitSet, syncMap>>,
             \A c \in Clients : call'[c].at = call[c].at /\ call'[c].intent = call[c].intent,
             NEW job, Own(job)
      PROVE  Own(job)'
  BY <1>1 DEF Own
<1>2. ASSUME UNCHANGED <<waitSet, syncMap>>,
             \A c \in Clients : call'[c].at = call[c].at /\ call'[c].intent = call[c].intent,
             Distinct(jobs', pending', Running'),
             Everyone(jobs', pending', Running') \subseteq Everyone(jobs, pending, Running)
      PROVE  QueueInv'
  BY <1>1, <1>2 DEF QueueInv
<1>3. CASE PopJob
  <2>1. fsm'.at = "notify" /\ fsm'.job = Head(jobs)
    BY <1>3, <1>t, NextJob, Processed DEF PopJob
  <2>2. Running = {} /\ Running' = {Head(jobs)} /\ jobs # <<>> /\ jobs' = Tail(jobs) /\ pending' = pending
    BY <1>3, <2>1 DEF Running, PopJob
  <2>3. /\ Distinct(jobs', pending', Running')
        /\ Everyone(jobs', pending', Running') \subseteq Everyone(jobs, pending, Running)
    BY <1>t, <2>2, DistinctPop DEF QueueInv
  <2> QED BY <1>2, <1>3, <2>3, ExecutionFrame
<1>4. CASE RunPending
  <2>1. pending # <<>> /\ fsm.at = "pending"
    BY <1>4, <1>t DEF RunPending, PendingIsThere
  <2>2. fsm'.at = "notifyPending" /\ fsm'.job = Head(pending)
    BY <1>4, <1>t, <2>1, NextJob, Processed DEF RunPending
  <2>3. Running = {} /\ Running' = {Head(pending)} /\ jobs' = jobs /\ pending' = Tail(pending)
    BY <1>4, <2>1, <2>2 DEF Running, RunPending
  <2>4. /\ Distinct(jobs', pending', Running')
        /\ Everyone(jobs', pending', Running') \subseteq Everyone(jobs, pending, Running)
    BY <1>t, <2>1, <2>3, DistinctTry DEF QueueInv
  <2> QED BY <1>2, <1>4, <2>4, ExecutionFrame
<1>5. CASE OnIntentPending
  <2>1. /\ Running = {fsm.job} /\ Running' = {} /\ jobs' = jobs /\ pending' = Append(pending, fsm.job)
        /\ UNCHANGED <<call, waitSet, syncMap>>
    BY <1>5 DEF OnIntentPending, Running, AtPop, syncVars
  <2>2. /\ Distinct(jobs', pending', Running')
        /\ Everyone(jobs', pending', Running') \subseteq Everyone(jobs, pending, Running)
    BY <1>t, <2>1, DistinctKeep DEF QueueInv
  <2> QED BY <1>2, <2>1, <2>2
<1>6. CASE OnIntentExecuted
  <2>1. /\ Running = {fsm.job} /\ Running' = {} /\ UNCHANGED <<jobs, pending, call>>
        /\ Tell(fsm.job.intent, fsm.result, fsm.job.by)
    BY <1>6 DEF OnIntentExecuted, Running, AtPop
  <2>2. Distinct(jobs, pending, {}) /\ Own(fsm.job)
    BY <2>1 DEF QueueInv, Distinct, Everyone
  <2>3. ASSUME NEW job \in Everyone(jobs, pending, {})
        PROVE  Own(job) /\ Apart(fsm.job, job)
    BY <2>1 DEF QueueInv, Distinct, Everyone
  <2>4. ASSUME NEW job \in Everyone(jobs, pending, {}), job.by \in Clients
        PROVE  job.intent # fsm.job.intent
    <3>1. /\ call[job.by].at = "waiting" /\ call[job.by].intent = job.intent
          /\ job.intent \in ClientIntents[job.by] /\ job.by # Pipeline
      BY <2>3, <2>4, SenderTypes DEF Own, CallInv
    <3>2. job.intent \in AppIntents /\ job.intent \notin AllEvents
      BY <2>4, <3>1, PlayerAssumption DEF AppIntents, AllEvents
    <3>3. CASE fsm.job.by \in Clients
      <4>1. /\ call[fsm.job.by].at = "waiting" /\ call[fsm.job.by].intent = fsm.job.intent
            /\ fsm.job.intent \in ClientIntents[fsm.job.by] /\ fsm.job.by # job.by
        BY <2>2, <2>3, <3>1, <3>3, SenderTypes DEF Own, CallInv, Apart
      <4>2. job.intent \in Intents
        BY <3>2 DEF Intents
      <4> QED BY <2>4, <3>1, <3>3, <4>1, <4>2 DEF OneSender
    <3>4. CASE fsm.job.by \notin Clients
      BY <2>2, <3>2, <3>4 DEF Own
    <3> QED BY <3>3, <3>4
  <2>5. ASSUME NEW job \in Everyone(jobs, pending, {}) PROVE Own(job)'
    <3>1. CASE job.by \in Clients
      <4>1. job.intent # fsm.job.intent /\ Own(job) /\ job.by # Pipeline
        BY <2>3, <2>4, <3>1, SenderTypes
      <4>2. syncMap'[job.intent] = syncMap[job.intent] /\ job.intent \in waitSet'
        BY <1>t, <2>1, <4>1 DEF Tell, Own, TypeOK
      <4> QED BY <2>1, <3>1, <4>1, <4>2 DEF Own
    <3>2. CASE job.by \notin Clients
      BY <2>3, <3>2 DEF Own
    <3> QED BY <3>1, <3>2
  <2> QED BY <2>1, <2>2, <2>5 DEF QueueInv
<1>7. ASSUME NEW c \in Clients,
             (\E i \in ClientIntents[c] : SendEvent(c, i)) \/ Continue(c) \/ TimesOut(c)
      PROVE  QueueInv'
  BY <1>7, NobodyGivesUp, ClientQueues
<1>8. ASSUME (\E e \in Events : Post(e)) \/ UNCHANGED vars PROVE QueueInv'
  <2>1. UNCHANGED <<jobs, pending, fsm, call, waitSet, syncMap>>
    BY <1>8 DEF Post, vars, syncVars
  <2> QED BY <1>2, <2>1 DEF QueueInv, Running
<1>9. CASE PostEnds
  <2>e. PICK e \in Events : e = poster
    BY <1>9, <1>t DEF PostEnds, TypeOK
  <2> DEFINE new == [intent |-> e, by |-> Pipeline]
  <2>1. new \in Job /\ new.by = Pipeline /\ e \in AllEvents
    BY PlayerAssumption, SenderTypes DEF Job, Intents
  <2>2. jobs' = Append(jobs, new) /\ UNCHANGED <<pending, fsm, call, waitSet, syncMap>>
    BY <1>9, <2>e DEF PostEnds, syncVars
  <2>3. Running' = Running
    BY <2>2 DEF Running
  <2>4. /\ Distinct(jobs', pending', Running')
        /\ Everyone(jobs', pending', Running') \subseteq Everyone(jobs, pending, Running) \cup {new}
    BY <1>t, <2>1, <2>2, <2>3, DistinctPush DEF QueueInv, Apart
  <2>5. Own(new)'
    BY <2>1 DEF Own
  <2>6. \A job \in Everyone(jobs, pending, Running) : Own(job)'
    BY <1>1, <2>2 DEF QueueInv
  <2> QED BY <2>4, <2>5, <2>6 DEF QueueInv
<1> QED BY <1>3, <1>4, <1>5, <1>6, <1>7, <1>8, <1>9 DEF Next, MachineSteps, Continue

ServedInv ==
    TypeInv /\ CallInv /\ AnswersInv /\ QueueInv /\ WaiterIsServed /\ AnswerIsOwn

\* The job that is answered is the one the client that gets the answer waits for.
LEMMA AnswerGoesHome ==
    ASSUME \A i \in Intents : OneSender(i), TypeInv, CallInv, AnswersInv, QueueInv, OnIntentExecuted,
           fsm.job.intent \in waitSet
    PROVE  /\ fsm.job.by \in Clients /\ syncMap[fsm.job.intent] = NoAnswer
           /\ \A c \in Clients : call[c].at = "waiting" /\ call[c].intent = fsm.job.intent
                                 <=> c = fsm.job.by
<1>1. fsm.job \in Job /\ fsm.job.intent \in Intents
  BY DEF TypeInv, TypeOK, Job
<1>2. Own(fsm.job)
  BY DEF OnIntentExecuted, Running, QueueInv, Everyone
<1>3. fsm.job.intent \notin AllEvents
  <2>1. PICK c \in Clients : call[c].at \in {"waiting", "pushing"} /\ call[c].intent = fsm.job.intent
    BY <1>1 DEF AnswersInv, AnswerInv
  <2>2. fsm.job.intent \in AppIntents
    BY <2>1, PlayerAssumption DEF CallInv
  <2> QED BY <2>2 DEF AppIntents, AllEvents
<1>4. /\ fsm.job.by \in Clients /\ syncMap[fsm.job.intent] = NoAnswer
      /\ call[fsm.job.by].at = "waiting" /\ call[fsm.job.by].intent = fsm.job.intent
  BY <1>2, <1>3 DEF Own
<1>5. ASSUME NEW c \in Clients, call[c].at = "waiting", call[c].intent = fsm.job.intent
      PROVE  c = fsm.job.by
  BY <1>1, <1>4, <1>5 DEF CallInv, OneSender
<1> QED BY <1>4, <1>5

LEMMA StepOwns ==
    ASSUME \A i \in Intents : OneSender(i), MaxAbandoned = 0
    PROVE  ServedInv /\ [Next]_vars => AnswerIsOwn'
<1> SUFFICES ASSUME ServedInv, [Next]_vars, NEW i \in Intents, syncMap'[i] # NoAnswer
             PROVE  /\ syncMap'[i].by \in Clients /\ call'[syncMap'[i].by].intent = i
                    /\ call'[syncMap'[i].by].at = "waiting"
  BY DEF AnswerIsOwn
<1>t. TypeInv /\ TypeOK /\ CallInv /\ AnswersInv /\ QueueInv /\ AnswerIsOwn
  BY DEF ServedInv, TypeInv
<1>s. syncMap \in [Intents -> [result : {"none", "ok", "error"}, by : Senders]]
  BY <1>t DEF TypeOK
<1> DEFINE OwnNext == /\ syncMap'[i].by \in Clients /\ call'[syncMap'[i].by].intent = i
                      /\ call'[syncMap'[i].by].at = "waiting"
<1>1. ASSUME syncMap'[i] = syncMap[i],
             \A c \in Clients : c = syncMap[i].by =>
                 call'[c].at = call[c].at /\ call'[c].intent = call[c].intent
      PROVE  OwnNext
  BY <1>1, <1>t DEF AnswerIsOwn
<1>2. CASE PopJob \/ RunPending
  BY <1>1, <1>2, <1>t, ExecutionFrame
<1>3. CASE OnIntentPending \/ PostEnds \/ (\E e \in Events : Post(e)) \/ UNCHANGED vars
  <2>1. UNCHANGED <<syncMap, call>>
    BY <1>3 DEF OnIntentPending, PostEnds, Post, vars, syncVars
  <2> QED BY <1>1, <2>1
<1>4. CASE OnIntentExecuted
  <2>1. call' = call /\ Tell(fsm.job.intent, fsm.result, fsm.job.by)
    BY <1>4 DEF OnIntentExecuted
  <2>2. CASE i = fsm.job.intent /\ i \in waitSet
    <3>1. syncMap'[i].by = fsm.job.by
      BY <1>4, <1>s, <1>t, <2>1, <2>2, AnswerGoesHome DEF Tell
    <3> QED BY <1>4, <1>t, <2>1, <2>2, <3>1, AnswerGoesHome
  <2>3. CASE ~(i = fsm.job.intent /\ i \in waitSet)
    <3>1. syncMap'[i] = syncMap[i]
      BY <1>s, <2>1, <2>3 DEF Tell
    <3> QED BY <1>1, <2>1, <3>1
  <2> QED BY <2>2, <2>3
<1>5. ASSUME NEW c \in Clients,
             (\E j \in ClientIntents[c] : SendEvent(c, j)) \/ Continue(c) \/ TimesOut(c)
      PROVE  OwnNext
  <2>1. (\E j \in ClientIntents[c] : SendEvent(c, j)) \/ Continue(c)
    BY <1>5, <1>t, NobodyGivesUp, SMTT(60)
  <2>2. syncMap'[i] = syncMap[i] /\ (TakeAnswer(c) => call[c].intent # i)
    BY <1>s, <2>1 DEF SendEvent, Continue, PushEnds, TakeAnswer, PrepareReturns, syncVars
  <2>3. c # syncMap[i].by
    BY <1>t, <2>1, <2>2 DEF AnswerIsOwn, SendEvent, Continue, PushEnds, TakeAnswer, PrepareReturns
  <2>4. \A d \in Clients : d # c => call'[d] = call[d]
    BY <1>t, <2>1, CallOfOthers
  <2> QED BY <1>1, <2>2, <2>3, <2>4
<1> QED BY <1>2, <1>3, <1>4, <1>5 DEF Next, MachineSteps

LEMMA StepServes ==
    ASSUME \A i \in Intents : OneSender(i), MaxAbandoned = 0
    PROVE  ServedInv /\ [Next]_vars => WaiterIsServed'
<1> SUFFICES ASSUME ServedInv, [Next]_vars, NEW c \in Clients, NEW i \in Intents,
                    call'[c].at = "waiting", call'[c].intent = i
             PROVE  (HasJob(c, i)' /\ i \in waitSet') \/ syncMap'[i].by = c
  <2>1. ServedInv /\ [Next]_vars => TypeInv'
    BY StepTypes DEF ServedInv
  <2>2. TypeInv' => \A c \in Clients : call'[c].intent \in Intents
    BY DEF TypeInv, TypeOK, Call
  <2> QED BY <2>1, <2>2 DEF WaiterIsServed
<1>t. TypeInv /\ TypeOK /\ CallInv /\ AnswersInv /\ QueueInv /\ WaiterIsServed
  BY DEF ServedInv, TypeInv
<1>s. syncMap \in [Intents -> [result : {"none", "ok", "error"}, by : Senders]]
  BY <1>t DEF TypeOK
<1> DEFINE ServedNext == (HasJob(c, i)' /\ i \in waitSet') \/ syncMap'[i].by = c
<1>w. call[c].at = "waiting" /\ call[c].intent = i
      => (HasJob(c, i) /\ i \in waitSet) \/ syncMap[i].by = c
  BY <1>t DEF WaiterIsServed
<1>1. ASSUME UNCHANGED <<waitSet, syncMap>>, call'[c].at = call[c].at, call'[c].intent = call[c].intent,
             HasJob(c, i) => HasJob(c, i)'
      PROVE  ServedNext
  BY <1>1, <1>w
<1>2. CASE PopJob \/ RunPending
  BY <1>1, <1>2, <1>t, ExecutionFrame, JobMoves
<1>3. CASE OnIntentPending
  <2>1. UNCHANGED <<waitSet, syncMap, call>>
    BY <1>3 DEF OnIntentPending, syncVars
  <2> QED BY <1>1, <1>3, <1>t, <2>1, JobMoves
<1>4. CASE OnIntentExecuted
  <2>1. /\ call' = call /\ Tell(fsm.job.intent, fsm.result, fsm.job.by)
        /\ (HasJob(c, i) /\ i \in waitSet) \/ syncMap[i].by = c
    BY <1>4, <1>w DEF OnIntentExecuted
  <2>2. CASE syncMap[i].by = c
    <3>1. syncMap[i] # NoAnswer
      BY <2>2, SenderTypes DEF NoAnswer
    <3> QED BY <1>s, <2>1, <2>2, <3>1 DEF Tell
  <2>3. CASE HasJob(c, i) /\ i \in waitSet /\ fsm.job.intent = i
    <3>1. fsm.job.by = c /\ syncMap[i] = NoAnswer
      BY <1>4, <1>t, <2>1, <2>3, AnswerGoesHome
    <3> QED BY <1>s, <2>1, <2>3, <3>1 DEF Tell
  <2>4. CASE HasJob(c, i) /\ i \in waitSet /\ fsm.job.intent # i
    <3>1. HasJob(c, i)'
      <4>1. fsm.job # [intent |-> i, by |-> c]
        BY <2>4
      <4>2. HasJob(c, i)' \/ fsm.job = [intent |-> i, by |-> c]
        BY <1>4, <1>t, <2>4, JobMoves, Zenon
      <4> QED BY <4>1, <4>2
    <3>2. i \in waitSet'
      BY <2>1, <2>4 DEF Tell
    <3> QED BY <3>1, <3>2
  <2> QED BY <2>1, <2>2, <2>3, <2>4
<1>5. ASSUME NEW d \in Clients, d # c,
             (\E j \in ClientIntents[d] : SendEvent(d, j)) \/ Continue(d) \/ TimesOut(d)
      PROVE  ServedNext
  <2>1. call'[c] = call[c]
    BY <1>5, <1>t, CallOfOthers
  <2>2. syncMap'[i] = syncMap[i] /\ (i \in waitSet => i \in waitSet')
    BY <1>5, <1>t, <2>1, OthersLeaveIt
  <2>3. HasJob(c, i) => HasJob(c, i)'
    BY <1>5, <1>t, JobMoves
  <2> QED BY <1>w, <2>1, <2>2, <2>3
<1>6. ASSUME NEW j \in ClientIntents[c], SendEvent(c, j) PROVE ServedNext
  <2>1. i = j /\ ~Full /\ j \in waitSet'
    BY <1>6, <1>t, OwnCall DEF SendEvent
  <2> QED BY <1>6, <1>t, <2>1, JobBegins
<1>7. CASE PushEnds(c)
  <2>1. call[c].intent = i /\ i \in waitSet'
    BY <1>7, <1>t, OwnCall DEF PushEnds, CallInv
  <2> QED BY <1>7, <1>t, <2>1, JobBegins
<1>8. CASE TakeAnswer(c) \/ TimesOut(c) \/ PrepareReturns(c)
  <2>1. call'[c].at # "waiting"
    BY <1>8, <1>t, OwnCall
  <2> QED BY <2>1
<1>9. ASSUME NEW e \in Events, Post(e) PROVE ServedNext
  <2>1. UNCHANGED <<waitSet, syncMap, call>>
    BY <1>9 DEF Post, syncVars
  <2> QED BY <1>1, <1>9, <1>t, <2>1, JobMoves
<1>10. CASE PostEnds \/ UNCHANGED vars
  <2>1. UNCHANGED <<waitSet, syncMap, call>>
    BY <1>10 DEF PostEnds, vars, syncVars
  <2> QED BY <1>1, <1>10, <1>t, <2>1, JobMoves
<1> QED BY <1>2, <1>3, <1>4, <1>5, <1>6, <1>7, <1>8, <1>9, <1>10 DEF Next, MachineSteps, Continue

LEMMA InitServes == Init => ServedInv
<1>1. Init => QueueInv /\ AnswersInv /\ WaiterIsServed /\ AnswerIsOwn
  <2> SUFFICES ASSUME Init PROVE QueueInv /\ AnswersInv /\ WaiterIsServed /\ AnswerIsOwn
    OBVIOUS
  <2>1. DOMAIN jobs = {} /\ DOMAIN pending = {} /\ Running = {}
    BY DEF Init, Running, AtPop
  <2>2. QueueInv
    BY <2>1 DEF QueueInv, Distinct, Everyone
  <2> QED BY <2>2 DEF Init, AnswersInv, AnswerInv, WaiterIsServed, AnswerIsOwn
<1> QED BY <1>1, InitTypes, InitCalls DEF ServedInv

LEMMA StepServed ==
    ASSUME \A i \in Intents : OneSender(i), MaxAbandoned = 0
    PROVE  ServedInv /\ [Next]_vars => ServedInv'
<1> SUFFICES ASSUME ServedInv, [Next]_vars PROVE ServedInv'
  OBVIOUS
<1>1. TypeInv' /\ CallInv' /\ QueueInv'
  BY StepTypes, StepCalls, StepQueues DEF ServedInv
<1>2. AnswersInv'
  <2>1. ASSUME NEW i \in Intents PROVE AnswerInv(i)'
    BY StepAnswers DEF ServedInv, AnswersInv
  <2> QED BY <2>1 DEF AnswersInv
<1> QED BY <1>1, <1>2, StepOwns, StepServes DEF ServedInv

\* While each intent has one sender at most and no call gives up, a client that
\* sleeps in SendEvent has its job under way or its answer ready.
THEOREM CallersAreServed ==
    ASSUME \A i \in Intents : OneSender(i), MaxAbandoned = 0
    PROVE  Spec => []WaiterIsServed
<1>1. ServedInv => WaiterIsServed
  BY DEF ServedInv
<1> QED BY <1>1, InitServes, StepServed, PTL DEF Spec

\* Under the same hypotheses the answer that a client finds is the one to its own job.
THEOREM AnswersAreOwn ==
    ASSUME \A i \in Intents : OneSender(i), MaxAbandoned = 0
    PROVE  Spec => []AnswerIsOwn
<1>1. ServedInv => AnswerIsOwn
  BY DEF ServedInv
<1> QED BY <1>1, InitServes, StepServed, PTL DEF Spec

-----------------------------------------------------------------------------
(* An intent takes hold.                                                   *)

\* Where a PLAY may be kept: in PREPARING, and in the states that a STOP or a RESET
\* of it leaves behind when the pipeline fails, where it is refused in the end.
Keeps == {"PREPARING", "STOPPED", "IDLE"}

\* Where one that was kept may be tried again.
Tries == {"STOPPED", "IDLE", "INIT", "READY"}

HeldState(i) == CASE i = "PAUSE" -> "PAUSE" [] i = "STOP" -> "STOPPED" [] i = "RESET" -> "IDLE"

HoldInv ==
    /\ \A n \in DOMAIN pending : pending[n].intent = "PLAY"
    /\ Len(pending) <= 1
    /\ fsm.at = "pop" /\ pending # <<>> => curState \in Keeps
    /\ fsm.at = "notify" /\ pending # <<>> =>
          curState \in IF fsm.action = "trans" THEN Tries ELSE Keeps
    /\ fsm.at = "pending" => curState \in Tries
    /\ fsm.at = "notifyPending" => pending = <<>> /\ fsm.action # "pending"
    /\ fsm.at = "notify" /\ fsm.action = "pending" =>
          curState = "PREPARING" /\ fsm.job.intent = "PLAY"
    /\ took # "none" => curState = HeldState(took)

\* What a job makes of the state it meets.
LEMMA WhereItLeads ==
    ASSUME NEW t \in Transitions
    PROVE  /\ t[2] \in Holding => t[3] = HeldState(t[2])
           /\ t[1] \cap Keeps # {} /\ t[3] # "PREPARING" => t[3] \in Tries
           /\ t[3] = "PREPARING" => t[1] = {"INIT"}
           /\ t[2] = "PLAY" => t[1] = {"READY", "PAUSE", "EOS"} /\ t[3] = "PLAYING"
<1>1. \/ t = <<{"IDLE", "INIT"}, "SET_SOURCE", "INIT">>
      \/ t = <<{"INIT"}, "PREPARE", "PREPARING">>
      \/ t = <<{"READY", "PAUSE", "EOS"}, "PLAY", "PLAYING">>
      \/ t = <<{"PLAYING"}, "PAUSE", "PAUSE">>
      \/ t = <<{"PAUSE"}, "RESUME", "PLAYING">>
      \/ t = <<States \ {"IDLE", "STOPPED"}, "STOP", "STOPPED">>
      \/ t = <<States, "RESET", "IDLE">>
      \/ t = <<{"PREPARING"}, "NOTIFY_READY", "READY">>
      \/ t = <<IF FALSE \in Looping THEN {"PLAYING"} ELSE {}, "NOTIFY_COMPLETE", "EOS">>
      \/ t = <<States, "NOTIFY_ERROR", "INIT">>
  BY Zenon DEF Transitions
<1> DEFINE Leads(from, i, to) ==
               /\ i \in Holding => to = HeldState(i)
               /\ from \cap Keeps # {} /\ to # "PREPARING" => to \in Tries
               /\ to = "PREPARING" => from = {"INIT"}
               /\ i = "PLAY" => from = {"READY", "PAUSE", "EOS"} /\ to = "PLAYING"
<1>2. /\ \A from : Leads(from, "SET_SOURCE", "INIT") /\ Leads(from, "STOP", "STOPPED")
                   /\ Leads(from, "RESET", "IDLE") /\ Leads(from, "NOTIFY_READY", "READY")
                   /\ Leads(from, "NOTIFY_ERROR", "INIT")
      /\ Leads({"INIT"}, "PREPARE", "PREPARING")
      /\ Leads({"READY", "PAUSE", "EOS"}, "PLAY", "PLAYING")
      /\ Leads({"PLAYING"}, "PAUSE", "PAUSE") /\ Leads({"PAUSE"}, "RESUME", "PLAYING")
      /\ Leads(IF FALSE \in Looping THEN {"PLAYING"} ELSE {}, "NOTIFY_COMPLETE", "EOS")
  BY DEF Holding, HeldState, Keeps, Tries
<1>3. ASSUME NEW from, NEW i, NEW to, t = <<from, i, to>>, Leads(from, i, to)
      PROVE  Leads(t[1], t[2], t[3])
  <2> HIDE DEF Leads
  <2> QED BY <1>3
<1>4. Leads(t[1], t[2], t[3])
  <2> HIDE DEF Leads
  <2> QED BY <1>1, <1>2, <1>3, Zenon
<1> QED BY <1>4

\* A job popped: what is kept stays where it may be kept, or is tried again where it
\* may be tried; what the machine took stays in force.
LEMMA PoppedHolds ==
    ASSUME TypeOK, HoldInv, NEW job \in Job, ProcessIntent(job), fsm.at = "pop"
    PROVE  /\ pending # <<>> => curState' \in IF fsm'.action = "trans" THEN Tries ELSE Keeps
           /\ fsm'.action = "pending" => curState' = "PREPARING" /\ fsm'.job.intent = "PLAY"
           /\ took' # "none" => curState' = HeldState(took')
<1>1. CASE Move(job)
  <2>1. PICK t \in Transitions :
            /\ curState \in t[1] /\ job.intent = t[2] /\ curState' = t[3]
            /\ \/ Done(job, "ok", "trans")
               \/ t[3] \in EnterMayFail \ {curState} /\ Done(job, "error", "none")
    BY <1>1 DEF Move
  <2>2. pending # <<>> => curState \in Keeps
    BY DEF HoldInv
  <2>3. t[3] = "PREPARING" => pending = <<>>
    BY <2>1, <2>2, WhereItLeads DEF Keeps
  <2>4. pending # <<>> => t[3] \in Tries
    BY <2>1, <2>2, <2>3, WhereItLeads
  <2>5. CASE Done(job, "ok", "trans")
    <3>1. fsm'.action = "trans" /\ took' = IF job.intent \in Holding THEN job.intent ELSE "none"
      BY <2>5 DEF Done
    <3> QED BY <2>1, <2>4, <3>1, WhereItLeads
  <2>6. CASE t[3] \in EnterMayFail /\ Done(job, "error", "none")
    <3>1. fsm'.action = "none" /\ took' = "none"
      BY <2>6 DEF Done
    <3>2. pending # <<>> => t[3] \in Keeps
      BY <2>4, <2>6 DEF EnterMayFail, Tries, Keeps
    <3> QED BY <2>1, <3>1, <3>2
  <2> QED BY <2>1, <2>5, <2>6
<1>2. CASE Stay(job)
  <2>1. curState' = curState /\ fsm'.action = "none"
    BY <1>2 DEF Stay, Done
  <2>2. took' # "none" => took' = "PAUSE" /\ curState = "PAUSE"
    BY <1>2 DEF Stay, Stays, Done, Holding
  <2> QED BY <2>1, <2>2 DEF HoldInv, HeldState
<1>3. CASE PlayAgain(job)
  <2>1. curState' = curState /\ fsm'.action = "none" /\ took' = "none"
    BY <1>3 DEF PlayAgain, Done, Holding
  <2> QED BY <2>1 DEF HoldInv
<1>4. CASE Pend(job)
  <2>1. /\ curState = "PREPARING" /\ curState' = curState /\ fsm'.action = "pending"
        /\ fsm'.job = job /\ job.intent = "PLAY" /\ took' = "none"
    BY <1>4 DEF Pend, Done, Holding
  <2> QED BY <2>1 DEF Keeps
<1> QED BY <1>1, <1>2, <1>3, <1>4 DEF ProcessIntent

\* A PLAY that was kept, tried again: it plays in READY and is refused elsewhere.
LEMMA TriedHolds ==
    ASSUME TypeOK, HoldInv, NEW job \in Job, ProcessIntent(job), fsm.at = "pending", job.intent = "PLAY"
    PROVE  /\ fsm'.action # "pending"
           /\ took' # "none" => curState' = HeldState(took')
<1>1. curState \in Tries /\ (took # "none" => curState = HeldState(took))
  BY DEF HoldInv
<1>2. \A result \in Results, action \in Actions : Done(job, result, action) => took' = took /\ fsm'.action = action
  BY DEF Done
<1>3. CASE Move(job)
  <2>1. PICK t \in Transitions :
            /\ curState \in t[1] /\ job.intent = t[2] /\ curState' = t[3]
            /\ Done(job, "ok", "trans") \/ Done(job, "error", "none")
    BY <1>3 DEF Move
  <2>2. curState = "READY" /\ fsm'.action # "pending" /\ took' = took
    BY <1>1, <1>2, <2>1, WhereItLeads DEF Tries, Results, Actions
  <2>3. took = "none"
    BY <1>1, <2>2 DEF HeldState, TypeOK, Holding
  <2> QED BY <2>2, <2>3
<1>4. CASE Stay(job) \/ PlayAgain(job)
  <2>1. curState' = curState /\ took' = took /\ fsm'.action # "pending"
    BY <1>2, <1>4 DEF Stay, PlayAgain, Results, Actions
  <2> QED BY <1>1, <2>1
<1>5. ~Pend(job)
  BY <1>1 DEF Pend, Tries
<1> QED BY <1>3, <1>4, <1>5 DEF ProcessIntent

LEMMA StepHolds ==
    ASSUME \A i \in Intents : OneSender(i), MaxAbandoned = 0
    PROVE  ServedInv /\ HoldInv /\ [Next]_vars => HoldInv'
<1> SUFFICES ASSUME ServedInv, HoldInv, [Next]_vars PROVE HoldInv'
  OBVIOUS
<1>t. /\ TypeInv /\ TypeOK /\ PendingIsThere /\ CallInv /\ QueueInv
      /\ jobs \in Seq(Job) /\ pending \in Seq(Job) /\ Len(pending) \in Nat
  BY LenProperties DEF ServedInv, TypeInv, TypeOK
<1>1. ASSUME UNCHANGED <<curState, pending, fsm, took>> PROVE HoldInv'
  BY <1>1 DEF HoldInv
<1>2. CASE PopJob
  <2>1. PICK job \in Job : ProcessIntent(job) /\ fsm.at = "pop" /\ pending' = pending
    BY <1>2, <1>t, NextJob DEF PopJob
  <2>2. fsm'.at = "notify"
    BY <1>t, <2>1, Processed
  <2>3. /\ pending # <<>> => curState' \in IF fsm'.action = "trans" THEN Tries ELSE Keeps
        /\ fsm'.action = "pending" => curState' = "PREPARING" /\ fsm'.job.intent = "PLAY"
        /\ took' # "none" => curState' = HeldState(took')
    BY <1>t, <2>1, PoppedHolds
  <2> QED BY <2>1, <2>2, <2>3 DEF HoldInv
<1>3. CASE RunPending
  <2>1. pending # <<>> /\ fsm.at = "pending" /\ ProcessIntent(Head(pending)) /\ pending' = Tail(pending)
    BY <1>3, <1>t DEF RunPending, PendingIsThere
  <2>2. Head(pending) \in Job /\ Head(pending).intent = "PLAY"
    BY <1>t, <2>1, NextJob DEF HoldInv
  <2>3. pending' = <<>>
    <3>1. Tail(pending) \in Seq(Job) /\ Len(Tail(pending)) = Len(pending) - 1 /\ Len(Tail(pending)) \in Nat
      BY <1>t, <2>1, NextJob, LenProperties
    <3>2. Len(Tail(pending)) = 0
      BY <1>t, <3>1 DEF HoldInv
    <3> QED BY <2>1, <3>1, <3>2, EmptySeq
  <2>4. fsm'.at = "notifyPending"
    BY <1>t, <2>1, <2>2, Processed
  <2>5. fsm'.action # "pending" /\ (took' # "none" => curState' = HeldState(took'))
    BY <1>t, <2>1, <2>2, TriedHolds
  <2>6. Len(<<>>) = 0 /\ DOMAIN <<>> = {}
    OBVIOUS
  <2> QED BY <2>3, <2>4, <2>5, <2>6 DEF HoldInv
<1>4. CASE OnIntentPending
  <2>1. /\ fsm.at = "notify" /\ fsm.action = "pending" /\ curState = "PREPARING" /\ fsm.job.intent = "PLAY"
        /\ pending' = Append(pending, fsm.job) /\ fsm' = AtPop /\ UNCHANGED <<curState, took>>
    BY <1>4 DEF OnIntentPending, HoldInv
  <2>2. pending = <<>>
    <3> SUFFICES ASSUME pending # <<>> PROVE FALSE
      OBVIOUS
    <3>1. 1 \in DOMAIN pending /\ pending[1].intent = "PLAY"
      BY <1>t, NextJob DEF HoldInv
    <3>2. Own(pending[1]) /\ Own(fsm.job) /\ Apart(fsm.job, pending[1])
      BY <1>t, <2>1, <3>1 DEF QueueInv, Distinct, Everyone, Running
    <3>3. /\ fsm.job.by \in Clients /\ pending[1].by \in Clients /\ fsm.job.by # pending[1].by
          /\ "PLAY" \in ClientIntents[fsm.job.by] /\ "PLAY" \in ClientIntents[pending[1].by]
      BY <1>t, <2>1, <3>1, <3>2, SenderTypes, ZenonT(60) DEF Own, Apart, CallInv, AllEvents
    <3>4. "PLAY" \in Intents
      BY DEF Intents, AppIntents
    <3> QED BY <3>3, <3>4 DEF OneSender
  <2>3. fsm.job \in Job
    BY <1>t DEF TypeOK
  <2>4. pending' \in Seq(Job) /\ Len(pending') = 1 /\ \A n \in DOMAIN pending' : pending'[n] = fsm.job
    <3>1. Len(pending) = 0 /\ DOMAIN pending = {}
      BY <2>2
    <3> QED BY <1>t, <2>1, <2>3, <3>1, AppendProperties, AppendedList
  <2> QED BY <2>1, <2>4 DEF HoldInv, AtPop, Keeps
<1>5. CASE OnIntentExecuted
  <2>1. /\ fsm.at \in {"notify", "notifyPending"} /\ fsm.action # "pending"
        /\ UNCHANGED <<curState, took, pending>>
    BY <1>5 DEF OnIntentExecuted
  <2>2. CASE RunsPending
    <3>1. fsm.at = "notify" /\ fsm.action = "trans" /\ pending # <<>> /\ fsm'.at = "pending"
      BY <1>5, <2>2 DEF OnIntentExecuted, RunsPending, AtPop
    <3>2. curState \in Tries
      BY <3>1 DEF HoldInv
    <3> QED BY <2>1, <3>1, <3>2 DEF HoldInv
  <2>3. CASE ~RunsPending
    <3>1. fsm'.at = "pop"
      BY <1>5, <2>3 DEF OnIntentExecuted, AtPop
    <3>2. pending # <<>> => curState \in Keeps
      BY <2>1, <2>3 DEF HoldInv, RunsPending
    <3> QED BY <2>1, <3>1, <3>2 DEF HoldInv
  <2> QED BY <2>2, <2>3
<1>6. ASSUME NEW c \in Clients,
             (\E i \in ClientIntents[c] : SendEvent(c, i)) \/ Continue(c) \/ TimesOut(c)
      PROVE  HoldInv'
  <2>1. (\E i \in ClientIntents[c] : SendEvent(c, i)) \/ Continue(c)
    BY <1>6, <1>t, NobodyGivesUp
  <2> QED BY <1>1, <2>1 DEF SendEvent, Continue, PushEnds, TakeAnswer, PrepareReturns
<1>7. CASE (\E e \in Events : Post(e)) \/ PostEnds \/ UNCHANGED vars
  BY <1>1, <1>7 DEF Post, PostEnds, vars
<1> QED BY <1>2, <1>3, <1>4, <1>5, <1>6, <1>7 DEF Next, MachineSteps

\* While each intent has one sender at most and no call gives up, an intent that has
\* succeeded holds until the next one: no PLAY that was kept undoes it, even if
\* operations of the pipeline fail.
THEOREM IntentsTakeHold ==
    ASSUME \A i \in Intents : OneSender(i), MaxAbandoned = 0
    PROVE  Spec => []IntentTakesHold
<1>1. Init => HoldInv
  BY DEF Init, HoldInv, AtPop
<1>2. TypeOK /\ HoldInv => IntentTakesHold
  BY DEF HoldInv, IntentTakesHold, HeldState
<1>3. ServedInv => TypeOK
  BY DEF ServedInv, TypeInv
<1> QED BY <1>1, <1>2, <1>3, InitServes, StepServed, StepHolds, PTL DEF Spec
=============================================================================
