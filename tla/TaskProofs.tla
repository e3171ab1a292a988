----------------------------- MODULE TaskProofs -----------------------------
(***************************************************************************)
(* For any number of clients and whatever they call, a Stop or a Pause     *)
(* that has returned keeps the job from running, the task has one worker   *)
(* at most, joins it only when it is on its way out, and loses no wake-up. *)
(***************************************************************************)
EXTENDS Task, TLAPS

\* The worker is past the job whenever the state says so.  STOPPED is the
\* worker's own last word, and PAUSED leaves it in no place from where it
\* could enter the job without reading STARTED first.
WorkerObeys ==
    /\ runningState = "STOPPED" => worker \in {"none", "leaving", "exited"}
    /\ runningState = "PAUSED" => worker # "job"

\* stateMutex_ keeps the state as it is while a Stop joins the worker.
JoinIsAlone ==
    \A c \in Clients : call[c] = "join" =>
        /\ runningState = "STOPPED" /\ loop = "thread"
        /\ \A d \in Clients : call[d] = "join" => d = c

IInv ==
    /\ TypeOK
    /\ NoJobAfterReturn
    /\ OneWorker
    /\ SleepersAreNotReady
    /\ WorkerObeys
    /\ JoinIsAlone

-----------------------------------------------------------------------------

\* The constructor establishes the invariant.
LEMMA InitIInv == Init => IInv
  BY ClientsAssumption
     DEF Init, IInv, TypeOK, NoJobAfterReturn, OneWorker, SleepersAreNotReady, WorkerObeys,
         JoinIsAlone, RunningStates, WorkerPlaces, Calls

\* A client's own step, from the call to its return, preserves it.
LEMMA ClientIInv ==
    ASSUME IInv, NEW c \in Clients, ClientCalls(c) \/ Continue(c) \/ SpuriousWakeup(c)
    PROVE  IInv'
<1> USE DEF IInv, TypeOK, NoJobAfterReturn, OneWorker, SleepersAreNotReady, WorkerObeys,
            JoinIsAlone, RunningStates, WorkerPlaces, Calls, MutexFree, Awaited
<1>1. CASE StartAgain(c)
  BY <1>1 DEF StartAgain, Calling
<1>2. CASE CreateWorker(c)
  BY <1>2 DEF CreateWorker, Calling
<1>3. CASE CreateFails(c)
  BY <1>3 DEF CreateFails, Calling
<1>4. CASE Stop(c)
  BY <1>4 DEF Stop, Calling, Wait
<1>5. CASE StopAsync(c)
  BY <1>5 DEF StopAsync, Calling
<1>6. CASE Pause(c)
  BY <1>6 DEF Pause, Calling, Wait
<1>7. CASE PauseAsync(c)
  BY <1>7 DEF PauseAsync, Calling
<1>8. CASE ReturnAtOnce(c)
  BY <1>8 DEF ReturnAtOnce, Calling
<1>9. CASE WaitAgain(c)
  BY <1>9 DEF WaitAgain, Woken
<1>10. CASE PauseReturns(c)
  BY <1>10 DEF PauseReturns, Woken, Return
<1>11. CASE StopWakes(c)
  BY <1>11, ZenonT(60) DEF StopWakes, Woken, Return, Wait
<1>12. CASE Join(c)
  BY <1>12 DEF Join, Return
<1>13. CASE SpuriousWakeup(c)
  BY <1>13 DEF SpuriousWakeup
<1> QED
  BY <1>1, <1>2, <1>3, <1>4, <1>5, <1>6, <1>7, <1>8, <1>9, <1>10, <1>11, <1>12, <1>13
     DEF ClientCalls, Continue

\* A step of the worker, or a call its job makes, preserves it.
LEMMA WorkerIInv ==
    ASSUME IInv, WorkerSteps \/ JobStopsTask \/ JobPausesTask
    PROVE  IInv'
<1> USE DEF IInv, TypeOK, NoJobAfterReturn, OneWorker, SleepersAreNotReady, WorkerObeys,
            JoinIsAlone, RunningStates, WorkerPlaces, Calls, MutexFree, Awaited
<1>1. CASE RunJob
  BY <1>1 DEF RunJob
<1>2. CASE SkipJob
  BY <1>2 DEF SkipJob
<1>3. CASE JobEnds
  BY <1>3 DEF JobEnds
<1>4. CASE GoOn
  BY <1>4 DEF GoOn
<1>5. CASE PauseWorker
  BY <1>5 DEF PauseWorker
<1>6. CASE ResumeWorker
  BY <1>6 DEF ResumeWorker
<1>7. CASE Leave
  BY <1>7 DEF Leave
<1>8. CASE ExitThread
  BY <1>8 DEF ExitThread
<1>9. CASE JobStopsTask
  BY <1>9 DEF JobStopsTask
<1>10. CASE JobPausesTask
  BY <1>10 DEF JobPausesTask
<1> QED
  BY <1>1, <1>2, <1>3, <1>4, <1>5, <1>6, <1>7, <1>8, <1>9, <1>10 DEF WorkerSteps

\* The invariant is inductive.
LEMMA InductiveInvariant == Spec => []IInv
<1>1. Init => IInv
  BY InitIInv
<1>2. IInv /\ [Next]_vars => IInv'
  <2> SUFFICES ASSUME IInv, [Next]_vars PROVE IInv'
    OBVIOUS
  <2>1. CASE Next
    BY <2>1, ClientIInv, WorkerIInv DEF Next
  <2>2. CASE UNCHANGED vars
    BY <2>2 DEF vars, IInv, TypeOK, NoJobAfterReturn, OneWorker, SleepersAreNotReady,
                WorkerObeys, JoinIsAlone, Awaited
  <2> QED
    BY <2>1, <2>2
<1> QED
  BY <1>1, <1>2, PTL DEF Spec

-----------------------------------------------------------------------------

\* task.cpp:75, :100: after a Stop or a Pause has returned the job does not
\* run until the next Start, for any number of clients.
THEOREM ReturnedMeansQuiet == Spec => []NoJobAfterReturn
<1>1. IInv => NoJobAfterReturn
  BY DEF IInv
<1> QED
  BY <1>1, InductiveInvariant, PTL

\* task.cpp:68, :85: a pthread is created only when there is none, and joined
\* under the lock only when it no longer needs the lock.
THEOREM WorkerIsUnique == Spec => [](OneWorker /\ JoinedWorkerIsLeaving)
<1>1. IInv => OneWorker /\ JoinedWorkerIsLeaving
  BY DEF IInv, OneWorker, JoinIsAlone, WorkerObeys, JoinedWorkerIsLeaving
<1> QED
  BY <1>1, InductiveInvariant, PTL

\* task.cpp:82, :158, :165: nobody sleeps on syncCond_ unnotified while its
\* condition holds.
THEOREM NoLostTaskWakeup == Spec => []SleepersAreNotReady
<1>1. IInv => SleepersAreNotReady
  BY DEF IInv
<1> QED
  BY <1>1, InductiveInvariant, PTL

=============================================================================
