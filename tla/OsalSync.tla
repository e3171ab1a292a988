------------------------------ MODULE OsalSync ------------------------------
(***************************************************************************)
(* Mutex, AutoLock (ScopedLock) and ConditionVariable, on which every       *)
(* component sleeps, with the deadlines of the timed waits.                 *)
(*                                                                         *)
(* A thread has AutoLocks, each of which names the mutex it is to unlock,   *)
(* or none; waits name the one of SyGuard.  The predicate of a wait is      *)
(* syReady.  pthread is external: a condition wait gives the mutex up and   *)
(* sleeps in one step, may wake for no reason, has the mutex when it        *)
(* returns, and refuses a deadline whose nanoseconds make a second.         *)
(*                                                                         *)
(* A second is SyGiga nanoseconds and SyGiga milliseconds: one tick is what *)
(* both are counted in.                                                     *)
(***************************************************************************)
EXTENDS Integers, FiniteSets

CONSTANTS
    SyThreads,
    SyMutexes,      \* SyGuard and others
    SyGuard,        \* the mutex of the condition variable
    SyLockNames,    \* the AutoLock objects of a thread
    SyWaits,        \* [kind, ms]: the waits that threads make
    SyGiga,         \* ticks of a second
    MaxSyTime,      \* ticks the clock runs
    MaxSyCalls      \* waits and changes of the predicate

ASSUME SyAssumption == SyGuard \in SyMutexes /\ SyGiga \in Nat \ {0} /\ "none" \notin SyMutexes

VARIABLES
    syClock,    \* CLOCK_MONOTONIC
    syInited,   \* condInited_
    syOwner,    \* of each mutex, or "none"
    syLocks,    \* thread -> AutoLock -> mutex_
    syReady,    \* what the predicates test
    syCall,     \* thread -> its wait: at, wait, begun, deadline, woken, answer
    syCalls

syVars == <<syClock, syInited, syOwner, syLocks, syReady, syCall, syCalls>>

TmToNs(tm) == tm.sec * SyGiga + tm.nsec
NsToTm(ns) == [sec |-> ns \div SyGiga, nsec |-> ns % SyGiga]
SyNow == NsToTm(syClock)

\* WaitFor without a predicate carries the nanoseconds into the seconds; the one with a
\* predicate adds each part for itself.
SyDeadline(wait) ==
    IF wait.kind = "for" THEN NsToTm(TmToNs(SyNow) + wait.ms)
    ELSE [sec |-> SyNow.sec + wait.ms \div SyGiga, nsec |-> SyNow.nsec + (wait.ms % SyGiga)]
SyDeadlineTwice(wait) == [sec |-> SyNow.sec + wait.ms \div SyGiga, nsec |-> (SyNow.nsec + wait.ms) % SyGiga]

SyTimed(wait) == wait.kind \in {"for", "for predicate"}
SyTests(wait) == wait.kind \in {"predicate", "for predicate"}
DeadlineAccepted(tm) == tm.nsec \in 0 .. SyGiga - 1

SyIdle == [at |-> "idle", wait |-> [kind |-> "none", ms |-> 0], begun |-> 0,
           deadline |-> [sec |-> 0, nsec |-> 0], woken |-> FALSE, answer |-> FALSE]

SyInit ==
    /\ syClock = 0 /\ syInited \in BOOLEAN
    /\ syOwner = [m \in SyMutexes |-> "none"]
    /\ syLocks = [t \in SyThreads |-> [x \in SyLockNames |-> "none"]]
    /\ syReady = FALSE /\ syCalls = 0
    /\ syCall = [t \in SyThreads |-> SyIdle]

-----------------------------------------------------------------------------
(* AutoLock.                                                               *)

\* The constructor, when its lock() gets the mutex.
SyLocked(t, x, m) ==
    /\ syCall[t].at = "idle" /\ syLocks[t][x] = "none" /\ syOwner[m] = "none"
    /\ syOwner' = [syOwner EXCEPT ![m] = t]
    /\ syLocks' = [syLocks EXCEPT ![t][x] = m]
    /\ UNCHANGED <<syClock, syInited, syReady, syCall, syCalls>>

\* The destructor.
SyUnlocked(t, x) ==
    /\ syCall[t].at = "idle" /\ syLocks[t][x] # "none"
    /\ syOwner' = [syOwner EXCEPT ![syLocks[t][x]] = "none"]
    /\ syLocks' = [syLocks EXCEPT ![t][x] = "none"]
    /\ UNCHANGED <<syClock, syInited, syReady, syCall, syCalls>>

\* x = std::move(y): what x had is unlocked, and y is left without a mutex.
AfterMove(locks, x, y) == [locks EXCEPT ![x] = locks[y], ![y] = "none"]
AfterCopy(locks, x, y) == [locks EXCEPT ![x] = locks[y]]
SyMoved(t, x, y) ==
    /\ syCall[t].at = "idle" /\ x # y
    /\ syOwner' = [m \in SyMutexes |-> IF m = syLocks[t][x] THEN "none" ELSE syOwner[m]]
    /\ syLocks' = [syLocks EXCEPT ![t] = AfterMove(syLocks[t], x, y)]
    /\ UNCHANGED <<syClock, syInited, syReady, syCall, syCalls>>

-----------------------------------------------------------------------------
(* ConditionVariable.                                                      *)

SyAnswers(t, answer) == syCall' = [syCall EXCEPT ![t].at = "returned", ![t].answer = answer]

\* Wait and WaitFor, up to the test of the predicate: a negative time and a condition
\* variable that was not made end them.
SyCallsWait(t, wait) ==
    /\ syCall[t].at = "idle" /\ syCalls < MaxSyCalls
    /\ SyGuard \in {syLocks[t][x] : x \in SyLockNames}
    /\ LET call == [SyIdle EXCEPT !.wait = wait, !.begun = syClock] IN
       syCall' = [syCall EXCEPT ![t] =
           IF (SyTimed(wait) /\ wait.ms < 0) \/ ~syInited
           THEN [call EXCEPT !.at = "returned"]
           ELSE [call EXCEPT !.at = "test", !.deadline = IF SyTimed(wait) THEN SyDeadline(wait) ELSE @]]
    /\ syCalls' = syCalls + 1
    /\ UNCHANGED <<syClock, syInited, syOwner, syLocks, syReady>>

\* The predicate holds, or pthread_cond_(timed)wait is called, which refuses a deadline.
SyTestsOrSleeps(t) ==
    /\ syCall[t].at = "test"
    /\ LET wait == syCall[t].wait IN
       CASE SyTests(wait) /\ syReady -> SyAnswers(t, TRUE) /\ UNCHANGED syOwner
         [] ~(SyTests(wait) /\ syReady) /\ SyTimed(wait) /\ ~DeadlineAccepted(syCall[t].deadline) ->
                SyAnswers(t, FALSE) /\ UNCHANGED syOwner
         [] OTHER -> /\ syCall' = [syCall EXCEPT ![t].at = "asleep"]
                     /\ syOwner' = [syOwner EXCEPT ![SyGuard] = "none"]
    /\ UNCHANGED <<syClock, syInited, syLocks, syReady, syCalls>>

\* The thread is notified, or wakes for no reason.
SyWakes(t) ==
    /\ syCall[t].at = "asleep" /\ syOwner[SyGuard] = "none"
    /\ syOwner' = [syOwner EXCEPT ![SyGuard] = t]
    /\ syCall' = [syCall EXCEPT ![t].woken = FALSE, ![t].at = IF SyTests(syCall[t].wait) THEN "test" ELSE "returned",
                                ![t].answer = ~SyTests(syCall[t].wait)]
    /\ UNCHANGED <<syClock, syInited, syLocks, syReady, syCalls>>

\* ETIMEDOUT: with a predicate the answer is what it says now.
AfterTimeout(wait) == SyTests(wait) /\ syReady
AfterTimeoutFails(wait) == FALSE
SyTimesOut(t) ==
    /\ syCall[t].at = "asleep" /\ SyTimed(syCall[t].wait) /\ TmToNs(syCall[t].deadline) <= syClock
    /\ syOwner[SyGuard] = "none"
    /\ syOwner' = [syOwner EXCEPT ![SyGuard] = t]
    /\ SyAnswers(t, AfterTimeout(syCall[t].wait))
    /\ UNCHANGED <<syClock, syInited, syLocks, syReady, syCalls>>

SyGoesOn(t) ==
    /\ syCall[t].at = "returned"
    /\ syCall' = [syCall EXCEPT ![t] = SyIdle]
    /\ UNCHANGED <<syClock, syInited, syOwner, syLocks, syReady, syCalls>>

\* A thread changes what the sleepers wait for and notifies them all; or it notifies one.
Sleepers == {t \in SyThreads : syInited /\ syCall[t].at = "asleep" /\ ~syCall[t].woken}
Woken(woken) == [t \in SyThreads |-> IF t \in woken THEN [syCall[t] EXCEPT !.woken = TRUE] ELSE syCall[t]]
SyNotifiesAll(t, ready) ==
    /\ syCall[t].at = "idle" /\ syOwner[SyGuard] = t /\ syCalls < MaxSyCalls
    /\ syReady' = ready /\ syCall' = Woken(Sleepers) /\ syCalls' = syCalls + 1
    /\ UNCHANGED <<syClock, syInited, syOwner, syLocks>>
SyNotifiesOne(t) ==
    /\ syCall[t].at = "idle" /\ syCalls < MaxSyCalls
    /\ \E s \in Sleepers : syCall' = Woken({s})
    /\ syCalls' = syCalls + 1
    /\ UNCHANGED <<syClock, syInited, syOwner, syLocks, syReady>>

SyTicks == syClock < MaxSyTime /\ syClock' = syClock + 1 /\ UNCHANGED <<syInited, syOwner, syLocks, syReady, syCall, syCalls>>

SyNext ==
    \/ SyTicks
    \/ \E t \in SyThreads :
        \/ \E x \in SyLockNames : SyUnlocked(t, x) \/ \E m \in SyMutexes : SyLocked(t, x, m)
        \/ \E x, y \in SyLockNames : SyMoved(t, x, y)
        \/ \E wait \in SyWaits : SyCallsWait(t, wait)
        \/ SyTestsOrSleeps(t) \/ SyWakes(t) \/ SyTimesOut(t) \/ SyGoesOn(t)
        \/ SyNotifiesOne(t) \/ \E ready \in BOOLEAN : SyNotifiesAll(t, ready)

SySpec == SyInit /\ [][SyNext]_syVars

SyTypeOK ==
    /\ syClock \in 0 .. MaxSyTime /\ syCalls \in 0 .. MaxSyCalls
    /\ \A m \in SyMutexes : syOwner[m] \in SyThreads \cup {"none"}

-----------------------------------------------------------------------------
\* A mutex that is locked has one AutoLock, in the thread that owns it and is not asleep.
LocksAreOwned ==
    \A m \in SyMutexes :
        LET who == {<<t, x>> \in SyThreads \X SyLockNames :
                        syLocks[t][x] = m /\ (m = SyGuard => syCall[t].at # "asleep")} IN
        IF syOwner[m] = "none" THEN who = {} ELSE Cardinality(who) = 1 /\ \A h \in who : h[1] = syOwner[m]

\* A wait for a predicate that answers true has it, and one that answers false has not, unless its
\* deadline was refused; a timed wait that gives up has lasted its time, with the same exception;
\* nobody sleeps over a predicate that holds without having been woken.
WaitsAreKept ==
    syInited => \A t \in SyThreads :
        LET call == syCall[t] IN
        /\ call.at = "returned" /\ SyTests(call.wait) /\ call.answer => syReady
        /\ call.at = "returned" /\ SyTimed(call.wait) /\ call.wait.ms >= 0 /\ ~call.answer /\ DeadlineAccepted(call.deadline) =>
              ~(SyTests(call.wait) /\ syReady) /\ syClock >= call.begun + call.wait.ms
        /\ call.at = "asleep" /\ SyTests(call.wait) /\ syReady => call.woken

WaitsAndLocks == LocksAreOwned /\ WaitsAreKept

\* NOT so: nanoseconds that make a second are not carried, and the wait ends at once.
LastsItsTime ==
    \A t \in SyThreads : syInited /\ syCall[t].at = "returned" /\ SyTimed(syCall[t].wait) /\ ~syCall[t].answer =>
        syClock >= syCall[t].begun + syCall[t].wait.ms
\* NOT so: a condition variable that was not made returns from Wait at once.
PredicateHolds ==
    \A t \in SyThreads : syCall[t].at = "returned" /\ syCall[t].wait.kind = "predicate" => syReady
=============================================================================
