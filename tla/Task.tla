-------------------------------- MODULE Task --------------------------------
(***************************************************************************)
(* Task (src/src/osal/task/pthread/task.cpp, and the same code once more   *)
(* in src/engine/foundation/osal/thread/task.cpp): a thread that runs a    *)
(* job over and over, and that other threads start, pause and stop.  Most  *)
(* moving parts of the player are Tasks: the readers of the source and of  *)
(* the demuxer, the codecs' loops, the state machine, the downloader.      *)
(*                                                                         *)
(* One action is one critical section of stateMutex_, or one step the      *)
(* worker takes without it.  The job is abstract: it ends at some time,    *)
(* and it may call the Task's own asynchronous operations, as the jobs of  *)
(* the demuxer, the media source and the type finder do.                   *)
(*                                                                         *)
(* The operators CreateFailsStale, CreateWorkerOnce, StopWakesUnchecked,   *)
(* JoinKeepsThread, RunJobPaused and LeaveSilently are faulty versions of  *)
(* the ones below them, with which a property is shown to fail.            *)
(***************************************************************************)
EXTENDS Naturals, FiniteSets

CONSTANTS
    Clients,        \* the threads that control the Task
    Operations,     \* Operations[c]: what client c calls
    JobOperations,  \* what the job itself calls: StopAsync, PauseAsync
    Alone,          \* operations that do not overlap with another client's call
    CreateMayFail   \* pthread_create may fail

AllOperations == {"Start", "Stop", "StopAsync", "Pause", "PauseAsync"}

ASSUME ClientsAssumption ==
    /\ Operations \in [Clients -> SUBSET AllOperations]
    /\ JobOperations \subseteq {"StopAsync", "PauseAsync"}
    /\ Alone \subseteq AllOperations
    /\ CreateMayFail \in BOOLEAN

VARIABLES
    runningState,   \* runningState_
    loop,           \* loop_: "null", "fresh" (a Thread with no pthread) or "thread"
    worker,         \* where Run() is; "none" when there is no pthread
    waitset,        \* clients asleep on syncCond_, not yet notified
    call,           \* the call each client is in
    quiet           \* a Stop or a Pause has returned and no Start was called since

vars == <<runningState, loop, worker, waitset, call, quiet>>

RunningStates == {"STARTED", "PAUSING", "PAUSED", "STOPPING", "STOPPED"}

\* "check": about to read runningState_; "job": in job_(); "lock": about to
\* lock stateMutex_; "paused": in WaitFor; "leaving": out of the loop.
WorkerPlaces == {"none", "check", "job", "lock", "paused", "leaving", "exited"}

Calls == {"idle", "stop", "join", "pause", "pausePausing", "pauseStopping"}

TypeOK ==
    /\ runningState \in RunningStates
    /\ loop \in {"null", "fresh", "thread"}
    /\ worker \in WorkerPlaces
    /\ waitset \subseteq Clients
    /\ call \in [Clients -> Calls]
    /\ quiet \in BOOLEAN

Init ==
    /\ runningState = "STOPPED"
    /\ loop = "fresh"
    /\ worker = "none"
    /\ waitset = {}
    /\ call = [c \in Clients |-> "idle"]
    /\ quiet = FALSE

-----------------------------------------------------------------------------

\* Stop holds stateMutex_ while it deletes loop_ and joins the thread.
MutexFree == \A c \in Clients : call[c] # "join"

OperationOf(c) == IF call[c] \in {"stop", "join"} THEN "Stop" ELSE "Pause"

Calling(c, operation) ==
    /\ operation \in Operations[c]
    /\ call[c] = "idle"
    /\ MutexFree
    /\ \A d \in Clients : call[d] # "idle" => {operation, OperationOf(d)} \cap Alone = {}

\* The predicate of the wait a client is in.
Awaited(c) == CASE call[c] = "pause"        -> {"PAUSED", "STOPPED"}
                [] call[c] = "pausePausing" -> {"PAUSED"}
                [] OTHER                    -> {"STOPPED"}

Wait(c, label) == call' = [call EXCEPT ![c] = label]

Return(c) == call' = [call EXCEPT ![c] = "idle"]

-----------------------------------------------------------------------------
(* The clients.                                                            *)

\* loop_->HasThread() says that a pthread was created, not that it runs.
StartAgain(c) ==
    /\ Calling(c, "Start")
    /\ loop = "thread"
    /\ runningState' = "STARTED"
    /\ waitset' = {}
    /\ quiet' = FALSE
    /\ UNCHANGED <<loop, worker, call>>

CreateWorkerOnce(c) ==
    /\ Calling(c, "Start")
    /\ loop # "thread"
    /\ runningState' = "STARTED"
    /\ loop' = IF loop = "fresh" THEN "thread" ELSE loop
    /\ worker' = IF loop = "fresh" THEN "check" ELSE worker
    /\ waitset' = {}
    /\ quiet' = FALSE
    /\ UNCHANGED call

CreateWorker(c) ==
    /\ Calling(c, "Start")
    /\ loop # "thread"
    /\ runningState' = "STARTED"
    /\ loop' = "thread"
    /\ worker' = "check"
    /\ waitset' = {}
    /\ quiet' = FALSE
    /\ UNCHANGED call

CreateFailsStale(c) ==
    /\ CreateMayFail
    /\ Calling(c, "Start")
    /\ loop # "thread"
    /\ runningState' = "STARTED"
    /\ loop' = "thread"
    /\ quiet' = FALSE
    /\ UNCHANGED <<worker, waitset, call>>

CreateFails(c) ==
    /\ CreateMayFail
    /\ Calling(c, "Start")
    /\ loop # "thread"
    /\ runningState' = "STARTED"
    /\ loop' = "fresh"
    /\ quiet' = FALSE
    /\ UNCHANGED <<worker, waitset, call>>

Stop(c) ==
    /\ Calling(c, "Stop")
    /\ runningState # "STOPPED"
    /\ runningState' = "STOPPING"
    /\ waitset' = {c}
    /\ Wait(c, "stop")
    /\ UNCHANGED <<loop, worker, quiet>>

StopAsync(c) ==
    /\ Calling(c, "StopAsync")
    /\ runningState # "STOPPED"
    /\ runningState' = "STOPPING"
    /\ UNCHANGED <<loop, worker, waitset, call, quiet>>

Pause(c) ==
    /\ Calling(c, "Pause")
    /\ \/ runningState = "STARTED"  /\ runningState' = "PAUSING" /\ Wait(c, "pause")
       \/ runningState = "STOPPING" /\ UNCHANGED runningState    /\ Wait(c, "pauseStopping")
       \/ runningState = "PAUSING"  /\ UNCHANGED runningState    /\ Wait(c, "pausePausing")
    /\ waitset' = waitset \cup {c}
    /\ UNCHANGED <<loop, worker, quiet>>

\* A Stop of a task that is STOPPED, a Pause of one that is STOPPED or PAUSED.
ReturnAtOnce(c) ==
    /\ \/ Calling(c, "Stop") /\ runningState = "STOPPED"
       \/ Calling(c, "Pause") /\ runningState \in {"PAUSED", "STOPPED"}
    /\ quiet' = TRUE
    /\ UNCHANGED <<runningState, loop, worker, waitset, call>>

PauseAsync(c) ==
    /\ Calling(c, "PauseAsync")
    /\ runningState = "STARTED"
    /\ runningState' = "PAUSING"
    /\ UNCHANGED <<loop, worker, waitset, call, quiet>>

\* syncCond_.Wait: woken, and alone in the lock again.
Woken(c) == call[c] \notin {"idle", "join"} /\ c \notin waitset /\ MutexFree

WaitAgain(c) ==
    /\ Woken(c)
    /\ runningState \notin Awaited(c)
    /\ waitset' = waitset \cup {c}
    /\ UNCHANGED <<runningState, loop, worker, call, quiet>>

PauseReturns(c) ==
    /\ Woken(c)
    /\ call[c] # "stop"
    /\ runningState \in Awaited(c)
    /\ Return(c)
    /\ quiet' = TRUE
    /\ UNCHANGED <<runningState, loop, worker, waitset>>

StopWakesUnchecked(c) ==
    /\ Woken(c)
    /\ call[c] = "stop"
    /\ \/ loop = "thread" /\ Wait(c, "join") /\ UNCHANGED quiet
       \/ loop # "thread" /\ Return(c) /\ quiet' = TRUE
    /\ UNCHANGED <<runningState, loop, worker, waitset>>

\* loop_ = nullptr joins the thread; there is none to join when another Stop
\* has done it.
StopWakes(c) ==
    /\ Woken(c)
    /\ call[c] = "stop"
    /\ runningState = "STOPPED"
    /\ \/ loop = "thread" /\ Wait(c, "join") /\ UNCHANGED quiet
       \/ loop # "thread" /\ Return(c) /\ quiet' = TRUE
    /\ UNCHANGED <<runningState, loop, worker, waitset>>

JoinKeepsThread(c) ==
    /\ call[c] = "join"
    /\ worker = "exited"
    /\ Return(c)
    /\ quiet' = TRUE
    /\ UNCHANGED <<runningState, loop, worker, waitset>>

Join(c) ==
    /\ call[c] = "join"
    /\ worker = "exited"
    /\ loop' = "null"
    /\ worker' = "none"
    /\ Return(c)
    /\ quiet' = TRUE
    /\ UNCHANGED <<runningState, waitset>>

SpuriousWakeup(c) ==
    /\ c \in waitset
    /\ waitset' = waitset \ {c}
    /\ UNCHANGED <<runningState, loop, worker, call, quiet>>

-----------------------------------------------------------------------------
(* The worker, Run().                                                      *)

RunJobPaused ==
    /\ worker = "check" /\ runningState \in {"STARTED", "PAUSED"}
    /\ worker' = "job"
    /\ UNCHANGED <<runningState, loop, waitset, call, quiet>>

\* runningState_ is read without the lock: the job may begin although a
\* client has asked for a pause or a stop since.
RunJob ==
    /\ worker = "check" /\ runningState = "STARTED"
    /\ worker' = "job"
    /\ UNCHANGED <<runningState, loop, waitset, call, quiet>>

SkipJob ==
    /\ worker = "check" /\ runningState # "STARTED"
    /\ worker' = "lock"
    /\ UNCHANGED <<runningState, loop, waitset, call, quiet>>

JobStopsTask ==
    /\ worker = "job" /\ MutexFree
    /\ "StopAsync" \in JobOperations
    /\ runningState # "STOPPED"
    /\ runningState' = "STOPPING"
    /\ UNCHANGED <<loop, worker, waitset, call, quiet>>

JobPausesTask ==
    /\ worker = "job" /\ MutexFree
    /\ "PauseAsync" \in JobOperations
    /\ runningState = "STARTED"
    /\ runningState' = "PAUSING"
    /\ UNCHANGED <<loop, worker, waitset, call, quiet>>

JobEnds ==
    /\ worker = "job"
    /\ worker' = "lock"
    /\ UNCHANGED <<runningState, loop, waitset, call, quiet>>

GoOn ==
    /\ worker = "lock" /\ MutexFree
    /\ runningState = "STARTED"
    /\ worker' = "check"
    /\ UNCHANGED <<runningState, loop, waitset, call, quiet>>

PauseWorker ==
    /\ worker = "lock" /\ MutexFree
    /\ runningState \in {"PAUSING", "PAUSED"}
    /\ runningState' = "PAUSED"
    /\ worker' = "paused"
    /\ waitset' = {}
    /\ UNCHANGED <<loop, call, quiet>>

\* WaitFor(500 ms) ends: notified, or at its time, which no notification
\* hastens.
ResumeWorker ==
    /\ worker = "paused" /\ MutexFree
    /\ runningState \notin {"STOPPING", "STOPPED"}
    /\ worker' = "check"
    /\ UNCHANGED <<runningState, loop, waitset, call, quiet>>

LeaveSilently ==
    /\ worker \in {"lock", "paused"} /\ MutexFree
    /\ runningState \in {"STOPPING", "STOPPED"}
    /\ runningState' = "STOPPED"
    /\ worker' = "leaving"
    /\ UNCHANGED <<loop, waitset, call, quiet>>

Leave ==
    /\ worker \in {"lock", "paused"} /\ MutexFree
    /\ runningState \in {"STOPPING", "STOPPED"}
    /\ runningState' = "STOPPED"
    /\ worker' = "leaving"
    /\ waitset' = {}
    /\ UNCHANGED <<loop, call, quiet>>

\* The pthread ends; state_ of the Thread, and so HasThread(), stay.
ExitThread ==
    /\ worker = "leaving"
    /\ worker' = "exited"
    /\ UNCHANGED <<runningState, loop, waitset, call, quiet>>

-----------------------------------------------------------------------------

WorkerSteps ==
    \/ RunJob \/ SkipJob \/ JobEnds \/ GoOn \/ PauseWorker \/ ResumeWorker
    \/ Leave \/ ExitThread

ClientCalls(c) ==
    \/ StartAgain(c) \/ CreateWorker(c) \/ CreateFails(c)
    \/ Stop(c) \/ StopAsync(c) \/ Pause(c) \/ PauseAsync(c) \/ ReturnAtOnce(c)

Continue(c) == WaitAgain(c) \/ PauseReturns(c) \/ StopWakes(c) \/ Join(c)

Next ==
    \/ \E c \in Clients : ClientCalls(c) \/ Continue(c) \/ SpuriousWakeup(c)
    \/ WorkerSteps
    \/ JobStopsTask \/ JobPausesTask

Spec == Init /\ [][Next]_vars

\* The worker and the clients inside a call are scheduled, the job ends, a
\* timed wait ends, and stateMutex_ starves nobody.
Fairness ==
    /\ SF_vars(WorkerSteps)
    /\ \A c \in Clients : SF_vars(PauseReturns(c) \/ StopWakes(c) \/ Join(c)) /\ WF_vars(WaitAgain(c))

FairSpec == Spec /\ Fairness

-----------------------------------------------------------------------------
(* Properties.                                                             *)

\* task.cpp:75, :100: once a Stop or a Pause has returned, whoever called it
\* and whatever the others call, the job does not run until somebody calls
\* Start, although the worker reads runningState_ without the lock.
NoJobAfterReturn == quiet => worker # "job" /\ runningState # "STARTED"

\* task.cpp:84: loop_ is deleted and made anew while threads of it may exist;
\* there is never a second worker, and none is left behind without its loop_.
OneWorker == (worker = "none") <=> (loop # "thread")

\* No wake-up is lost: a client asleep on syncCond_ whose condition holds has
\* been notified, although StopAsync and PauseAsync change the state without
\* a notification.
SleepersAreNotReady == \A c \in waitset : runningState \notin Awaited(c)

\* task.cpp:85: the join under stateMutex_ does not wait for a worker that
\* needs the lock.
JoinedWorkerIsLeaving ==
    \A c \in Clients : call[c] = "join" => worker \in {"leaving", "exited"}

\* task.cpp:65, :68: a task that is STARTED has a thread to run its job.
StartedHasWorker == runningState = "STARTED" => worker \notin {"none", "leaving", "exited"}

\* Pause and Stop return, also when the job pauses the task itself.
EveryCallReturns == \A c \in Clients : call[c] # "idle" ~> call[c] = "idle"

\* A task that is started and that nobody stops or pauses runs its job.
StartedRunsJob == runningState = "STARTED" ~> worker = "job" \/ runningState # "STARTED"

=============================================================================
