------------------------- MODULE PlayerStateMachine -------------------------
(***************************************************************************)
(* The player's StateMachine (src/engine/scene/player/internal), the       *)
(* Synchronizer on which its callers wait, the BlockingQueue of its jobs,  *)
(* and the calls of HiPlayerImpl that use them.                            *)
(*                                                                         *)
(* A client sends an intent and sleeps until the machine's thread has      *)
(* executed it; threads of the pipeline post NOTIFY_* events and do not    *)
(* wait.  The machine's thread executes a job in one step (only it changes *)
(* the state), and tells the Synchronizer in another.  What the executor   *)
(* does to the pipeline is abstract: it succeeds or, with ExecutorMayFail, *)
(* fails.                                                                  *)
(*                                                                         *)
(* TransitionsReplay, TellAnyway, OnIntentDropped, RunsPendingNever        *)
(* and PrepareReturnsOk are faulty versions of the operators               *)
(* below them, with which a property is shown to fail.                     *)
(***************************************************************************)
EXTENDS Integers, FiniteSets, SequencesExt

CONSTANTS
    Clients,          \* threads that call the player
    ClientIntents,    \* ClientIntents[c]: the intents client c sends
    Events,           \* the events that threads of the pipeline post
    Capacity,         \* capacity of jobs_, DEFAULT_QUEUE_SIZE
    Looping,          \* the values SetLoop gives singleLoop_ at any time
    ExecutorMayFail,  \* operations of the pipeline may fail
    MaxAbandoned      \* bound of the jobs whose clients gave up after 30 s

States == {"IDLE", "INIT", "PREPARING", "READY", "PAUSE", "PLAYING", "STOPPED", "EOS"}
AppIntents == {"SET_SOURCE", "PREPARE", "SEEK", "PLAY", "PAUSE", "RESUME", "STOP", "RESET"}
AllEvents == {"NOTIFY_READY", "NOTIFY_COMPLETE", "NOTIFY_ERROR"}
Intents == AppIntents \cup AllEvents

\* Who sent a job: a client, the pipeline, or a client that has given up.
Pipeline == "pipeline"
Nobody == "nobody"
Senders == Clients \cup {Pipeline, Nobody}

ASSUME PlayerAssumption ==
    /\ ClientIntents \in [Clients -> SUBSET AppIntents]
    /\ Events \subseteq AllEvents
    /\ Capacity \in Nat \ {0}
    /\ Looping \in SUBSET BOOLEAN \ {{}} /\ ExecutorMayFail \in BOOLEAN
    /\ MaxAbandoned \in Nat
    /\ {Pipeline, Nobody} \cap Clients = {}

VARIABLES
    curState,   \* curState_, and curFsmState_ of the player
    jobs,       \* jobs_
    pending,    \* pendingJobs_
    fsm,        \* where DoTask is, and the job it executes
    took,       \* the job popped last, if it succeeded and was one of Holding
    waitSet,    \* waitSet_ of intentSync_
    syncMap,    \* syncMap_ of intentSync_, with the sender of the job answered
    syncLock,   \* the client that holds the mutex of intentSync_ while it pushes
    call,       \* the call each client is in
    poster,     \* the event a thread of the pipeline is about to push
    due         \* the events the pipeline will still post

syncVars == <<waitSet, syncMap, syncLock>>
vars == <<curState, jobs, pending, fsm, took, syncVars, call, poster, due>>

Job == [intent : Intents, by : Senders]

\* Intents after which the player stays in their state until another one.
Holding == {"PAUSE", "STOP", "RESET"}

Results == {"ok", "error"}
Actions == {"trans", "pending", "none"}

NoAnswer == [result |-> "none", by |-> Nobody]

\* result: what a client has been told; readySeen: the state has been READY
\* since the client began to wait for it.
Call == [at : {"idle", "pushing", "waiting", "preparing"},
         intent : Intents, result : {"none", "ok", "error", "timeout"}, readySeen : BOOLEAN]

TypeOK ==
    /\ curState \in States
    /\ jobs \in Seq(Job) /\ Len(jobs) <= Capacity
    /\ pending \in Seq(Job)
    /\ fsm \in [at : {"pop", "notify", "pending", "notifyPending"}, job : Job,
                result : Results, action : Actions]
    /\ took \in Holding \cup {"none"}
    /\ waitSet \subseteq Intents
    /\ syncMap \in [Intents -> [result : {"none", "ok", "error"}, by : Senders]]
    /\ syncLock \in Clients \cup {Nobody}
    /\ call \in [Clients -> Call]
    /\ poster \in Events \cup {"none"}
    /\ due \subseteq AllEvents

\* DoTask between two jobs.
AtPop == [at |-> "pop", job |-> [intent |-> "RESET", by |-> Nobody],
          result |-> "ok", action |-> "none"]

Init ==
    /\ curState = "IDLE"
    /\ jobs = <<>>
    /\ pending = <<>>
    /\ fsm = AtPop
    /\ took = "none"
    /\ waitSet = {}
    /\ syncMap = [i \in Intents |-> NoAnswer]
    /\ syncLock = Nobody
    /\ call = [c \in Clients |-> [at |-> "idle", intent |-> "RESET", result |-> "none",
                                  readySeen |-> FALSE]]
    /\ poster = "none"
    /\ due = {}

-----------------------------------------------------------------------------
(* What the states do with an intent.                                      *)

TransitionsReplay ==
    {<<{"IDLE", "INIT"}, "SET_SOURCE", "INIT">>,
     <<{"INIT"}, "PREPARE", "PREPARING">>,
     <<{"READY", "PAUSE", "EOS", "STOPPED"}, "PLAY", "PLAYING">>,
     <<{"PLAYING"}, "PAUSE", "PAUSE">>,
     <<{"PAUSE"}, "RESUME", "PLAYING">>,
     <<States \ {"IDLE", "STOPPED"}, "STOP", "STOPPED">>,
     <<States, "RESET", "IDLE">>,
     <<{"PREPARING"}, "NOTIFY_READY", "READY">>,
     <<IF FALSE \in Looping THEN {"PLAYING"} ELSE {}, "NOTIFY_COMPLETE", "EOS">>,
     <<States, "NOTIFY_ERROR", "INIT">>}

\* <<the states that handle it, the intent, the state it leads to>>
Transitions ==
    {<<{"IDLE", "INIT"}, "SET_SOURCE", "INIT">>,
     <<{"INIT"}, "PREPARE", "PREPARING">>,
     <<{"READY", "PAUSE", "EOS"}, "PLAY", "PLAYING">>,
     <<{"PLAYING"}, "PAUSE", "PAUSE">>,
     <<{"PAUSE"}, "RESUME", "PLAYING">>,
     <<States \ {"IDLE", "STOPPED"}, "STOP", "STOPPED">>,
     <<States, "RESET", "IDLE">>,
     <<{"PREPARING"}, "NOTIFY_READY", "READY">>,
     <<IF FALSE \in Looping THEN {"PLAYING"} ELSE {}, "NOTIFY_COMPLETE", "EOS">>,
     <<States, "NOTIFY_ERROR", "INIT">>}

\* Handled without a transition.
Stays == {<<"PLAYING", "PLAY">>, <<"PAUSE", "PAUSE">>}

\* An operation of the executor comes before the transition.
ExecutedFirst == {<<"IDLE", "SET_SOURCE">>, <<"INIT", "SET_SOURCE">>, <<"EOS", "PLAY">>}
                    \cup (IF TRUE \in Looping THEN {<<"PLAYING", "NOTIFY_COMPLETE">>} ELSE {})

Seeks == {"READY", "PLAYING", "PAUSE"}

\* An operation of the executor is what Enter of the state does.
EnterMayFail == {"IDLE", "PREPARING", "PLAYING", "PAUSE", "STOPPED", "EOS"}

Refused(s, i) ==
    /\ \A t \in Transitions : ~(s \in t[1] /\ t[2] = i)
    /\ <<s, i>> \notin Stays \cup ExecutedFirst \cup {<<"PREPARING", "PLAY">>}
    /\ ~(i = "SEEK" /\ s \in Seeks)

Done(job, result, action) ==
    /\ fsm' = [at |-> IF fsm.at = "pop" THEN "notify" ELSE "notifyPending",
               job |-> job, result |-> result, action |-> action]
    /\ took' = IF fsm.at # "pop" THEN took
               ELSE IF result = "ok" /\ job.intent \in Holding THEN job.intent ELSE "none"

\* What the pipeline will post because Enter of a state has succeeded.
DueIn(s) == CASE s = "PREPARING"         -> due \cup {"NOTIFY_READY"}
              [] s = "PLAYING"           -> due \cup {"NOTIFY_COMPLETE"}
              [] s \in {"STOPPED", "IDLE"} -> {}
              [] OTHER                   -> due

\* A client in Prepare sees the state only when it runs: readySeen remembers
\* a READY that may be over by then.
SeeState(s) ==
    call' = [c \in Clients |->
                IF call[c].at \in {"waiting", "preparing"} /\ call[c].intent = "PREPARE"
                THEN [call[c] EXCEPT !.readySeen = s = "READY" \/ (@ /\ s # "PREPARING")]
                ELSE call[c]]

\* The handler asks for a transition.  When Enter of the new state fails,
\* curState_ is the new state all the same, and what Enter asked for (INIT,
\* after PREPARING) is dropped.
Move(job) ==
    \E t \in Transitions :
        /\ curState \in t[1] /\ job.intent = t[2]
        /\ curState' = t[3]
        /\ \/ /\ Done(job, "ok", "trans")
              /\ due' = IF t[3] = curState THEN due ELSE DueIn(t[3])
           \/ /\ ExecutorMayFail /\ t[3] \in EnterMayFail \ {curState}
              /\ Done(job, "error", "none")
              /\ UNCHANGED due
        /\ SeeState(t[3])

\* The handler has nothing to do, refuses the intent, or fails before it asks
\* for a transition.  A SEEK tells its client of success before it begins.
Stay(job) ==
    /\ \/ <<curState, job.intent>> \in Stays /\ Done(job, "ok", "none")
       \/ job.intent = "SEEK" /\ curState \in Seeks /\ Done(job, "ok", "none")
       \/ Refused(curState, job.intent) /\ Done(job, "error", "none")
       \/ /\ ExecutorMayFail /\ <<curState, job.intent>> \in ExecutedFirst
          /\ Done(job, "error", "none")
    /\ UNCHANGED <<curState, due, call>>

\* At the end of a loop the player goes back to its beginning.
PlayAgain(job) ==
    /\ TRUE \in Looping
    /\ curState = "PLAYING" /\ job.intent = "NOTIFY_COMPLETE"
    /\ Done(job, "ok", "none")
    /\ due' = due \cup {"NOTIFY_COMPLETE"}
    /\ UNCHANGED <<curState, call>>

\* A PLAY in PREPARING is kept for later.
Pend(job) ==
    /\ curState = "PREPARING" /\ job.intent = "PLAY"
    /\ Done(job, "ok", "pending")
    /\ UNCHANGED <<curState, due, call>>

ProcessIntent(job) == Move(job) \/ Stay(job) \/ PlayAgain(job) \/ Pend(job)

-----------------------------------------------------------------------------
(* The thread of the machine, DoTask.                                      *)

PopJob ==
    /\ fsm.at = "pop"
    /\ jobs # <<>>
    /\ jobs' = Tail(jobs)
    /\ ProcessIntent(Head(jobs))
    /\ UNCHANGED <<pending, syncVars, poster>>

\* After a transition one pending job is tried again.
RunPending ==
    /\ fsm.at = "pending"
    /\ pending' = Tail(pending)
    /\ ProcessIntent(Head(pending))
    /\ UNCHANGED <<jobs, syncVars, poster>>

TellAnyway(i, result, by) ==
    /\ waitSet' = waitSet \ {i}
    /\ syncMap' = [syncMap EXCEPT ![i] = [result |-> result, by |-> by]]

\* Notify of the Synchronizer: an answer nobody waits for is dropped.
Tell(i, result, by) ==
    IF i \in waitSet
    THEN /\ waitSet' = waitSet \ {i}
         /\ syncMap' = [syncMap EXCEPT ![i] = IF @ = NoAnswer THEN [result |-> result, by |-> by]
                                              ELSE @]
    ELSE UNCHANGED <<waitSet, syncMap>>

OnIntentDropped ==
    /\ fsm.at \in {"notify", "notifyPending"}
    /\ fsm.action = "pending"
    /\ fsm' = AtPop
    /\ UNCHANGED <<curState, took, jobs, pending, syncVars, call, poster, due>>

\* A PLAY that stays pending is answered later.
OnIntentPending ==
    /\ fsm.at \in {"notify", "notifyPending"}
    /\ fsm.action = "pending"
    /\ pending' = Append(pending, fsm.job)
    /\ fsm' = AtPop
    /\ UNCHANGED <<curState, took, jobs, syncVars, call, poster, due>>

RunsPendingNever == FALSE
RunsPending == fsm.at = "notify" /\ fsm.action = "trans" /\ pending # <<>>

OnIntentExecuted ==
    /\ fsm.at \in {"notify", "notifyPending"}
    /\ fsm.action # "pending"
    /\ syncLock = Nobody
    /\ Tell(fsm.job.intent, fsm.result, fsm.job.by)
    /\ fsm' = IF RunsPending THEN [AtPop EXCEPT !.at = "pending"] ELSE AtPop
    /\ UNCHANGED <<curState, took, jobs, pending, syncLock, call, poster, due>>

-----------------------------------------------------------------------------
(* The clients: SendEvent, and HiPlayerImpl::Prepare.                      *)

Full == Len(jobs) >= Capacity

NewJob(c) == [intent |-> call[c].intent, by |-> c]

\* The Synchronizer's mutex is held while the job is pushed, however long.
SendEvent(c, i) ==
    /\ call[c].at = "idle"
    /\ syncLock = Nobody
    /\ waitSet' = waitSet \cup {i}
    /\ \/ /\ ~Full
          /\ jobs' = Append(jobs, [intent |-> i, by |-> c])
          /\ call' = [call EXCEPT ![c] = [at |-> "waiting", intent |-> i, result |-> "none",
                                          readySeen |-> FALSE]]
          /\ UNCHANGED syncLock
       \/ /\ Full
          /\ call' = [call EXCEPT ![c] = [at |-> "pushing", intent |-> i, result |-> "none",
                                          readySeen |-> FALSE]]
          /\ syncLock' = c
          /\ UNCHANGED jobs
    /\ UNCHANGED <<curState, pending, fsm, took, syncMap, poster, due>>

PushEnds(c) ==
    /\ call[c].at = "pushing"
    /\ ~Full
    /\ jobs' = Append(jobs, NewJob(c))
    /\ call' = [call EXCEPT ![c].at = "waiting"]
    /\ syncLock' = Nobody
    /\ UNCHANGED <<curState, pending, fsm, took, waitSet, syncMap, poster, due>>

\* The client wakes and takes the answer; Prepare then waits on cond_.
TakeAnswer(c) ==
    LET i == call[c].intent
        answer == syncMap[i].result
    IN /\ call[c].at = "waiting"
       /\ syncLock = Nobody
       /\ syncMap[i] # NoAnswer
       /\ syncMap' = [syncMap EXCEPT ![i] = NoAnswer]
       /\ call' = [call EXCEPT ![c].at = IF i = "PREPARE" /\ answer = "ok" THEN "preparing"
                                         ELSE "idle",
                               ![c].result = answer]
       /\ UNCHANGED <<curState, jobs, pending, fsm, took, waitSet, syncLock, poster, due>>

Abandoned(list) == Cardinality({n \in DOMAIN list : list[n].by = Nobody})

Abandon(c, job) == IF job.by = c THEN [job EXCEPT !.by = Nobody] ELSE job

\* 30 s are over: the job stays where it is.
TimesOut(c) ==
    /\ call[c].at = "waiting"
    /\ syncLock = Nobody
    /\ syncMap[call[c].intent] = NoAnswer
    /\ Abandoned(jobs) + Abandoned(pending) < MaxAbandoned
    /\ waitSet' = waitSet \ {call[c].intent}
    /\ call' = [call EXCEPT ![c].at = "idle", ![c].result = "timeout"]
    /\ jobs' = [n \in DOMAIN jobs |-> Abandon(c, jobs[n])]
    /\ pending' = [n \in DOMAIN pending |-> Abandon(c, pending[n])]
    /\ fsm' = [fsm EXCEPT !.job = Abandon(c, @)]
    /\ UNCHANGED <<curState, took, syncMap, syncLock, poster, due>>

PrepareReturnsOk(c) ==
    /\ call[c].at = "preparing"
    /\ curState # "PREPARING"
    /\ call' = [call EXCEPT ![c].at = "idle", ![c].result = "ok"]
    /\ UNCHANGED <<curState, jobs, pending, fsm, took, syncVars, poster, due>>

PrepareReturns(c) ==
    /\ call[c].at = "preparing"
    /\ curState # "PREPARING"
    /\ call' = [call EXCEPT ![c].at = "idle",
                            ![c].result = IF curState = "READY" THEN "ok" ELSE "error"]
    /\ UNCHANGED <<curState, jobs, pending, fsm, took, syncVars, poster, due>>

-----------------------------------------------------------------------------
(* The pipeline: OnEvent, SendEventAsync.                                  *)

\* A filter may fail while the pipeline is in use.
ErrorPossible == curState \notin {"IDLE", "INIT", "STOPPED"}

\* At most one event of each kind is queued at a time, to bound the runs.
Post(e) ==
    /\ poster = "none"
    /\ e \in due \/ (e = "NOTIFY_ERROR" /\ ErrorPossible)
    /\ \A n \in DOMAIN jobs : jobs[n].intent # e
    /\ poster' = e
    /\ due' = due \ {e}
    /\ UNCHANGED <<curState, jobs, pending, fsm, took, syncVars, call>>

PostEnds ==
    /\ poster # "none"
    /\ ~Full
    /\ jobs' = Append(jobs, [intent |-> poster, by |-> Pipeline])
    /\ poster' = "none"
    /\ UNCHANGED <<curState, pending, fsm, took, syncVars, call, due>>

-----------------------------------------------------------------------------

MachineSteps == PopJob \/ RunPending \/ OnIntentPending \/ OnIntentExecuted

Continue(c) == PushEnds(c) \/ TakeAnswer(c) \/ PrepareReturns(c)

Next ==
    \/ MachineSteps
    \/ \E c \in Clients :
          \/ \E i \in ClientIntents[c] : SendEvent(c, i)
          \/ Continue(c) \/ TimesOut(c)
    \/ \E e \in Events : Post(e)
    \/ PostEnds

Spec == Init /\ [][Next]_vars

\* The machine's thread, a client that can go on and the threads of the
\* pipeline are scheduled; a pipeline that has been prepared becomes ready.
Fairness ==
    /\ WF_vars(MachineSteps)
    /\ \A c \in Clients : SF_vars(Continue(c))
    /\ WF_vars(Post("NOTIFY_READY")) /\ SF_vars(PostEnds)

FairSpec == Spec /\ Fairness

-----------------------------------------------------------------------------
(* Properties.                                                             *)

HasJob(c, i) ==
    LET job == [intent |-> i, by |-> c] IN
    \/ \E n \in DOMAIN jobs : jobs[n] = job
    \/ \E n \in DOMAIN pending : pending[n] = job
    \/ fsm.at \in {"notify", "notifyPending"} /\ fsm.job = job

\* No answer is lost: while a client sleeps in SendEvent its job is still to
\* be executed and its intent is waited for, or its answer is there.
WaiterIsServed ==
    \A c \in Clients : call[c].at = "waiting" =>
        LET i == call[c].intent IN
        \/ HasJob(c, i) /\ i \in waitSet
        \/ syncMap[i].by = c

\* synchronizer.h:98: with calls that gave up after 30 s, an answer may be the
\* one of an earlier job, but a client still sleeps only while one will come.
SleeperWakes ==
    \A c \in Clients : call[c].at = "waiting" =>
        LET i == call[c].intent IN
        syncMap[i] # NoAnswer \/ (HasJob(c, i) /\ i \in waitSet)

\* A client is told the result of its own job and of no other one.
AnswerIsOwn ==
    \A i \in Intents : syncMap[i] # NoAnswer =>
        syncMap[i].by \in Clients /\ call[syncMap[i].by].intent = i
                                  /\ call[syncMap[i].by].at = "waiting"

\* state_machine.cpp:153: an intent that has succeeded is not undone by one
\* that was sent before it and kept pending.  (TestStateMachine.cpp,
\* test_pause: after SendEvent(PAUSE) the state is PauseState.)
IntentTakesHold ==
    fsm.at = "pop" =>
        /\ took = "PAUSE" => curState = "PAUSE"
        /\ took = "STOP" => curState = "STOPPED"
        /\ took = "RESET" => curState = "IDLE"

\* A PLAY is kept only as long as there is a PREPARING to wait for: none is
\* left over to fire at some later transition.
PendingWhilePreparing == fsm.at = "pop" /\ pending # <<>> => curState = "PREPARING"

\* hiplayer_impl.cpp:158: Prepare waits for the change to READY, and so does
\* not report an error when that change came.
PrepareSeesReady ==
    [][\A c \in Clients : PrepareReturns(c) /\ call[c].readySeen => call'[c].result = "ok"]_vars

\* The answer to a PREPARE comes with the outcome of the preparation: Prepare
\* succeeds only after a READY that came while it waited.  Whose READY that was
\* the machine does not know: one of an earlier preparation would pass.
PrepareIsReady ==
    \A c \in Clients : call[c].at = "idle" /\ call[c].intent = "PREPARE" /\ call[c].result = "ok"
        => call[c].readySeen

\* No deadlock and no lost wake-up: every call of the player returns.
EveryCallReturns == \A c \in Clients : call[c].at # "idle" ~> call[c].at = "idle"

=============================================================================
