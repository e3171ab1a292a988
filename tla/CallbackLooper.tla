--------------------------- MODULE CallbackLooper ---------------------------
(***************************************************************************)
(* HiPlayerCallbackLooper: the thread that tells the observer of a player  *)
(* what happens, from a queue ordered by the time an event is due.         *)
(*                                                                         *)
(* Information and errors are due at once.  While progress is reported one *)
(* event goes round: the looper that handles it puts it back, one interval *)
(* later, if progress is still to be reported.                             *)
(***************************************************************************)
EXTENDS Integers, Sequences, SequencesExt

CONSTANTS ReportInterval,   \* reportProgressIntervalMs_
          MaxLooperTime,    \* bound of the clock
          MaxEvents         \* bound of the events in the queue

ASSUME LooperAssumption ==
    ReportInterval \in Nat \ {0} /\ MaxLooperTime \in Nat /\ MaxEvents \in Nat

VARIABLES
    clock,          \* SteadyClock::GetCurrentTimeMs
    events,         \* queue_
    hasQuit,        \* quit_
    looperAt,       \* where LoopOnce is
    dozeUntil,      \* when a WaitFor ends
    reporting,      \* reportMediaProgress_
    startAt,        \* where a call of StartReportMediaProgress is
    posting         \* the event a caller has made and not queued yet

looperVars == <<clock, events, hasQuit, looperAt, dozeUntil, reporting, startAt, posting>>

Event(what, when) == [what |-> what, when |-> when]
NoEvent == Event("none", 0)

LooperTypeOK ==
    /\ clock \in 0 .. MaxLooperTime /\ dozeUntil \in 0 .. MaxLooperTime + ReportInterval
    /\ \A i \in DOMAIN events : events[i].what \in {"progress", "info"}
    /\ looperAt \in {"next", "asleep", "dozing", "progress", "renew", "info", "over"}
    /\ startAt \in {"idle", "queue"}
    /\ reporting \in BOOLEAN /\ hasQuit \in BOOLEAN

LooperInit ==
    /\ clock = 0 /\ events = <<>> /\ hasQuit = FALSE
    /\ looperAt = "next" /\ dozeUntil = 0
    /\ reporting = FALSE /\ startAt = "idle" /\ posting = NoEvent

-----------------------------------------------------------------------------
\* Behind the events that are due no later.
Place(e) == Len(SelectSeq(events, LAMBDA x : x.when <= e.when)) + 1
Inserted(e) == SubSeq(events, 1, Place(e) - 1) \o <<e>> \o SubSeq(events, Place(e), Len(events))

\* A faulty notification, of the first event alone.
NotifiesWhenEmpty(e) == events = <<>>

\* The looper is notified when the head of the queue has changed.
Notifies(e) == Place(e) = 1

Wakes == looperAt' = IF looperAt \in {"asleep", "dozing"} THEN "next" ELSE looperAt

\* Enqueue, by a thread that is not the looper's.
Enqueue(e) ==
    IF hasQuit THEN UNCHANGED <<events, looperAt>>
    ELSE /\ events' = Inserted(e)
         /\ IF Notifies(e) THEN Wakes ELSE UNCHANGED looperAt

\* OnInfo, OnError, ManualReportMediaProgressOnce: the time is taken before the lock.
Posts(what) ==
    /\ posting = NoEvent /\ Len(events) < MaxEvents
    /\ posting' = Event(what, clock)
    /\ UNCHANGED <<clock, events, hasQuit, looperAt, dozeUntil, reporting, startAt>>

Queues ==
    /\ posting # NoEvent
    /\ Enqueue(posting) /\ posting' = NoEvent
    /\ UNCHANGED <<clock, hasQuit, dozeUntil, reporting, startAt>>

StartReportMediaProgress ==
    /\ startAt = "idle" /\ Len(events) < MaxEvents
    /\ reporting' = TRUE
    /\ startAt' = IF reporting THEN "idle" ELSE "queue"
    /\ UNCHANGED <<clock, events, hasQuit, looperAt, dozeUntil, posting>>

StartQueues ==
    /\ startAt = "queue"
    /\ Enqueue(Event("progress", clock)) /\ startAt' = "idle"
    /\ UNCHANGED <<clock, hasQuit, dozeUntil, reporting, posting>>

StopReportMediaProgress ==
    /\ startAt = "idle" /\ reporting
    /\ reporting' = FALSE
    /\ UNCHANGED <<clock, events, hasQuit, looperAt, dozeUntil, startAt, posting>>

Quit ==
    /\ ~hasQuit /\ startAt = "idle"
    /\ hasQuit' = TRUE /\ Wakes
    /\ UNCHANGED <<clock, events, dozeUntil, reporting, startAt, posting>>

-----------------------------------------------------------------------------
(* The looper: LoopOnce.                                                   *)

LooperGoes(from, to) == looperAt = from /\ looperAt' = to
LooperKeeps == UNCHANGED <<clock, hasQuit, reporting, startAt, posting>>

LooperTakes ==
    /\ looperAt = "next"
    /\ IF hasQuit THEN looperAt' = "over" /\ UNCHANGED <<events, dozeUntil>>
       ELSE IF events = <<>> THEN looperAt' = "asleep" /\ UNCHANGED <<events, dozeUntil>>
       ELSE IF Head(events).when <= clock
       THEN looperAt' = Head(events).what /\ events' = Tail(events) /\ UNCHANGED dozeUntil
       ELSE looperAt' = "dozing" /\ dozeUntil' = Head(events).when /\ UNCHANGED events
    /\ LooperKeeps

DozeEnds ==
    /\ LooperGoes("dozing", "next") /\ clock >= dozeUntil
    /\ UNCHANGED <<events, dozeUntil>> /\ LooperKeeps

ReportsInfo == LooperGoes("info", "next") /\ UNCHANGED <<events, dozeUntil>> /\ LooperKeeps

\* A faulty DoReportMediaProgress, which does not renew the event.
ReportsOnce == LooperGoes("progress", "next") /\ UNCHANGED <<events, dozeUntil>> /\ LooperKeeps

\* DoReportMediaProgress: the position is told, then the event renewed.
ReportsProgress ==
    /\ LooperGoes("progress", IF reporting THEN "renew" ELSE "next")
    /\ UNCHANGED <<events, dozeUntil>> /\ LooperKeeps

Renews ==
    /\ LooperGoes("renew", "next")
    /\ events' = IF hasQuit THEN events ELSE Inserted(Event("progress", clock + ReportInterval))
    /\ UNCHANGED dozeUntil /\ LooperKeeps

LooperTicks ==
    /\ clock < MaxLooperTime /\ clock' = clock + 1
    /\ UNCHANGED <<events, hasQuit, looperAt, dozeUntil, reporting, startAt, posting>>

LooperNext ==
    \/ Posts("info") \/ Posts("progress") \/ Queues
    \/ StartReportMediaProgress \/ StartQueues \/ StopReportMediaProgress \/ Quit
    \/ LooperTakes \/ DozeEnds \/ ReportsInfo \/ ReportsProgress \/ Renews
    \/ LooperTicks

LooperSpec == LooperInit /\ [][LooperNext]_looperVars

-----------------------------------------------------------------------------
\* The looper never sleeps past an event: it sleeps without end only with nothing to
\* tell, and dozes no longer than until the first event is due, although callers queue
\* events before it and it is notified of some of them only (EventQueue::Enqueue, Next).
SleepsNoLonger ==
    /\ looperAt = "asleep" => events = <<>> /\ ~hasQuit
    /\ looperAt = "dozing" => events # <<>> /\ dozeUntil <= Head(events).when /\ ~hasQuit

\* While progress is to be reported there is an event that will report it, in the queue
\* or in the looper's hands, however starts and stops cross the looper's look at the flag.
ProgressGoesOn ==
    reporting /\ ~hasQuit =>
        \/ startAt = "queue"
        \/ looperAt \in {"progress", "renew"}
        \/ \E i \in DOMAIN events : events[i].what = "progress"

LooperKeepsTime == SleepsNoLonger /\ ProgressGoesOn

=============================================================================
