--------------------------- MODULE AVBufferQueue ---------------------------
(***************************************************************************)
(* AVBufferQueueImpl (src/src/buffer/avbuffer_queue/avbuffer_queue.cpp):   *)
(* the buffer queue a producer and a consumer of media data share.  It     *)
(* owns a cache of buffers, a list of idle ones (freeBufferList_) and a    *)
(* list of filled ones waiting for the consumer (dirtyBufferList_).        *)
(*                                                                         *)
(* Any number of threads call it.  One action is one critical section of   *)
(* queueMutex_, or one step the code takes outside it: the hand-over to    *)
(* the broker and the notifications of the listeners, the unlocked growth  *)
(* of size_, and the unlocked forced detach.  call[t].at is where thread t *)
(* is between two such steps.                                              *)
(*                                                                         *)
(* Clients are disciplined: a thread passes to the queue only buffers that *)
(* it has in its hands (held): those it obtained, created or got back with *)
(* an error.                                                               *)
(*                                                                         *)
(* An operator that stands above another one with a suffix to its name     *)
(* (AppendFree, GrowPastMax, NotifyOne, ...) is a faulty version of it,  *)
(* with which a property is shown to fail.                                 *)
(***************************************************************************)
EXTENDS Integers, FiniteSets, SequencesExt

CONSTANTS
    Ids,            \* unique ids of AVBuffers; cachedBufferMap_ is ordered by them
    Producers, Consumers, Brokers,   \* the threads, by their role
    Attachers,      \* the threads that call AttachBuffer and DetachBuffer
    Resizers,       \* the threads that call SetQueueSize
    Capacities,     \* sizes of buffers, requested or attached
    MemTypes,       \* memory types other than UNKNOWN_MEMORY
    UnknownMemory,  \* MemoryType::UNKNOWN_MEMORY
    InitSize,       \* size_ given to the constructor
    MaxQueueSize,   \* AVBUFFER_QUEUE_MAX_QUEUE_SIZE
    UintRange,      \* 2^32: size_ - size is computed in uint32_t
    DisableAlloc,   \* disableAlloc_
    ListenerFirst,  \* the consumer's listener is installed before any push
    MaxSignals      \* bound of the consumer's count of notifications

Threads == Producers \cup Consumers \cup Brokers

NoId == 0

ASSUME ThreadsAssumption ==
    /\ Attachers \subseteq Producers \cup Consumers
    /\ Resizers \subseteq Producers \cup Consumers
    /\ IsFiniteSet(Threads)

ASSUME IdsAssumption == Ids \subseteq Nat \ {NoId} /\ IsFiniteSet(Ids)

ASSUME SizesAssumption ==
    /\ Capacities \subseteq Nat \ {0}
    /\ MaxQueueSize \in Nat \ {0}
    /\ InitSize \in 1..MaxQueueSize
    /\ UintRange \in Nat /\ UintRange > MaxQueueSize
    /\ MaxSignals \in Nat

ASSUME ChoicesAssumption ==
    /\ UnknownMemory \notin MemTypes
    /\ DisableAlloc \in BOOLEAN
    /\ ListenerFirst \in BOOLEAN

VARIABLES
    size,           \* size_
    memoryType,     \* memoryType_
    cache,          \* cachedBufferMap_, with the buffer's own capacity and type
    free,           \* freeBufferList_
    dirty,          \* dirtyBufferList_
    waitset,        \* threads asleep on requestCondition, not yet notified
    call,           \* the call each thread is in
    held,           \* the buffers each thread has in its hands
    hasListener,    \* consumerListener_ # nullptr
    signals,        \* OnBufferAvailable calls the consumer has not answered yet
    producerTold    \* a producer refused a buffer has been notified since

queueVars == <<size, memoryType, cache, free, dirty>>
signalVars == <<hasListener, signals, producerTold>>
vars == <<queueVars, waitset, call, held, signalVars>>

CachedStates == {"RELEASED", "REQUESTED", "PUSHED", "RETURNED", "ACQUIRED", "ATTACHED"}

Element == [state : CachedStates \cup {"ABSENT"}, isDeleting : BOOLEAN,
            capacity : Capacities \cup {0}, memType : MemTypes \cup {UnknownMemory}]

NoElement == [state |-> "ABSENT", isDeleting |-> FALSE,
              capacity |-> 0, memType |-> UnknownMemory]

Labels == {"idle", "enterTimed", "enterForever", "sleepTimed", "sleepForever",
           "pushed", "pushedCancel", "notifyConsumer", "notifyProducer",
           "attachPush", "attachRelease", "forceDetach", "grown", "shrink"}

\* at: the step the call is at; id: its buffer; size: the size it was given;
\* attaching: it is an AttachBuffer.
Call == {c \in [at : Labels, id : Ids \cup {NoId}, size : Nat, attaching : BOOLEAN] :
            /\ c.at \in {"enterTimed", "enterForever", "sleepTimed", "sleepForever"}
                  => c.size \in Capacities
            /\ c.at = "shrink" => c.size \in 1..MaxQueueSize
            /\ c.at \in {"pushed", "pushedCancel", "notifyConsumer", "attachPush",
                         "attachRelease", "forceDetach"} => c.id \in Ids}

NoCall == [at |-> "idle", id |-> NoId, size |-> 0, attaching |-> FALSE]

TypeOK ==
    /\ size \in 1..MaxQueueSize
    /\ memoryType \in MemTypes \cup {UnknownMemory}
    /\ cache \in [Ids -> Element]
    /\ free \in Seq(Ids)
    /\ dirty \in Seq(Ids)
    /\ waitset \subseteq Threads
    /\ call \in [Threads -> Call]
    /\ held \in [Threads -> SUBSET Ids]
    /\ hasListener \in BOOLEAN
    /\ signals \in 0..MaxSignals
    /\ producerTold \in BOOLEAN

Init ==
    /\ size = InitSize
    /\ memoryType = UnknownMemory
    /\ cache = [id \in Ids |-> NoElement]
    /\ free = <<>>
    /\ dirty = <<>>
    /\ waitset = {}
    /\ call = [t \in Threads |-> NoCall]
    /\ held = [t \in Threads |-> {}]
    /\ hasListener = ListenerFirst
    /\ signals = 0
    /\ producerTold = TRUE

-----------------------------------------------------------------------------
(* The cache and its lists.                                                *)

Cached == {id \in Ids : cache[id].state # "ABSENT"}

GetCachedBufferCount == Cardinality(Cached)

Elements(list) == {list[i] : i \in DOMAIN list}

\* Ids a new AVBuffer may have: an id is never given twice, so a fresh one is
\* referenced by nobody.
Fresh == {id \in Ids : /\ cache[id].state = "ABSENT"
                       /\ \A t \in Threads : id \notin held[t]
                       /\ id \notin Elements(dirty)}

\* queueMutex_ is held across two actions only by a thread that has found no
\* buffer and is about to sleep on requestCondition.
MutexFree == \A t \in Threads : call[t].at \notin {"enterTimed", "enterForever"}

CheckConfig(type) == memoryType \in {UnknownMemory, type} /\ memoryType' = type

\* config <= cachedBufferMap_[id].config, for equal memory types.
Fits(need, id) == need <= cache[id].capacity

\* The index PopFromFreeBufferList takes: the first buffer large enough, or
\* the front of the list when there is none.
IsPick(i, need) ==
    IF \E j \in DOMAIN free : Fits(need, free[j])
    THEN Fits(need, free[i]) /\ \A j \in 1..(i - 1) : ~Fits(need, free[j])
    ELSE i = 1

AppendFree(id) == free' = Append(free, id)

\* freeBufferList_ stays in the order of the capacities.
InsertFreeBufferInOrder(id) ==
    \E i \in 1..(Len(free) + 1) :
        /\ i <= Len(free) => cache[free[i]].capacity >= cache[id].capacity
        /\ \A j \in 1..(i - 1) : cache[free[j]].capacity < cache[id].capacity
        /\ free' = InsertAt(free, i, id)

Lesser(a, b) == IF a <= b THEN a ELSE b

\* DeleteBuffers(count) deletes idle buffers, then filled ones, from the front
\* of their lists, and marks cached buffers in the order of their ids for the
\* rest of count.
FreeDrop(count) == Lesser(count, Len(free))
DirtyDrop(count) == Lesser(count - FreeDrop(count), Len(dirty))
Victims(count) ==
    {free[i] : i \in 1..FreeDrop(count)} \cup {dirty[i] : i \in 1..DirtyDrop(count)}
Marked(count) ==
    LET left == Cached \ Victims(count)
    IN {id \in left : Cardinality({other \in left : other < id})
                          < count - FreeDrop(count) - DirtyDrop(count)}
CacheWithout(count) ==
    [id \in Ids |-> IF id \in Victims(count) THEN NoElement
                    ELSE [cache[id] EXCEPT !.isDeleting = @ \/ id \in Marked(count)]]
DropFromLists(count) ==
    /\ free' = SubSeq(free, FreeDrop(count) + 1, Len(free))
    /\ dirty' = SubSeq(dirty, DirtyDrop(count) + 1, Len(dirty))

Idle(t) == call[t].at = "idle"

Goto(t, label) == call' = [call EXCEPT ![t].at = label]

Return(t) == call' = [call EXCEPT ![t] = NoCall]

Hand(t, id) == held' = [held EXCEPT ![t] = @ \cup {id}]

GiveUp(t, id) == held' = [held EXCEPT ![t] = @ \ {id}]

\* requestCondition.notify_all()
NotifyOne == waitset' = IF waitset = {} THEN {} ELSE waitset \ {CHOOSE t \in waitset : TRUE}
NotifyAll == waitset' = {}

SetState(id, s) == cache' = [cache EXCEPT ![id].state = s]

-----------------------------------------------------------------------------
(* RequestBuffer.                                                          *)

NewElement(need, type) == [state |-> "REQUESTED", isDeleting |-> FALSE,
                           capacity |-> need, memType |-> type]

\* RequestReuseBuffer: a buffer large enough is lent as it is, another is
\* deleted and replaced, or lost when the allocation of its replacement fails.
LendUnmarked(t, id, need) == Fits(need, id) /\ UNCHANGED cache /\ Hand(t, id)
LendIdle(t, id, need) == Fits(need, id) /\ SetState(id, "REQUESTED") /\ Hand(t, id)

Replace(t, id, need, type) ==
    \E new \in Fresh :
        /\ ~Fits(need, id)
        /\ cache' = [cache EXCEPT ![id] = NoElement, ![new] = NewElement(need, type)]
        /\ Hand(t, new)

Lose(id, need) ==
    ~Fits(need, id) /\ cache' = [cache EXCEPT ![id] = NoElement] /\ UNCHANGED held

Reuse(t, need, type) ==
    \E i \in DOMAIN free :
        /\ IsPick(i, need)
        /\ free' = RemoveAt(free, i)
        /\ LendIdle(t, free[i], need) \/ Replace(t, free[i], need, type) \/ Lose(free[i], need)
        /\ UNCHANGED dirty

\* Nothing is idle but the queue may grow; the allocation may fail.
AllocBuffer(t, need, type) ==
    /\ free = <<>>
    /\ GetCachedBufferCount < size
    /\ \/ \E new \in Fresh :
             cache' = [cache EXCEPT ![new] = NewElement(need, type)] /\ Hand(t, new)
       \/ UNCHANGED <<cache, held>>
    /\ UNCHANGED <<free, dirty>>

Obtain(t, need, type) == Reuse(t, need, type) \/ AllocBuffer(t, need, type)

NoBuffer == free = <<>> /\ GetCachedBufferCount >= size

RequestBuffer(t, need, type) ==
    /\ Idle(t) /\ MutexFree
    /\ CheckConfig(type)
    /\ Obtain(t, need, type)
    /\ UNCHANGED <<size, waitset, call, signalVars>>

\* timeoutMs = 0: wait_for returns at once and there is still no buffer.
RequestRefused(t, type) ==
    /\ Idle(t) /\ MutexFree
    /\ CheckConfig(type)
    /\ NoBuffer
    /\ producerTold' = FALSE
    /\ UNCHANGED <<size, cache, free, dirty, waitset, call, held, hasListener, signals>>

\* Another timeoutMs: the thread has tested the queue and still has the lock.
RequestBlocks(t, need, type, label) ==
    /\ Idle(t) /\ MutexFree
    /\ CheckConfig(type)
    /\ NoBuffer
    /\ call' = [call EXCEPT ![t].at = label, ![t].size = need]
    /\ UNCHANGED <<size, cache, free, dirty, waitset, held, signalVars>>

\* requestCondition releases queueMutex_ and puts the thread to sleep.
EnterWait(t) ==
    /\ \/ call[t].at = "enterTimed" /\ Goto(t, "sleepTimed")
       \/ call[t].at = "enterForever" /\ Goto(t, "sleepForever")
    /\ waitset' = waitset \cup {t}
    /\ UNCHANGED <<queueVars, held, signalVars>>

SpuriousWakeup(t) ==
    /\ t \in waitset
    /\ waitset' = waitset \ {t}
    /\ UNCHANGED <<queueVars, call, held, signalVars>>

WaitEndsWoken(t) ==
    call[t].at \in {"sleepForever", "sleepTimed"} /\ t \notin waitset /\ MutexFree

\* A wait ends, and its thread has queueMutex_ again, when the thread was
\* woken or, in a timed wait, when the time is over.
WaitEnds(t) ==
    /\ \/ call[t].at = "sleepForever" /\ t \notin waitset
       \/ call[t].at = "sleepTimed"
    /\ MutexFree

\* The second attempt finds a buffer.
WakeAndObtain(t) ==
    /\ WaitEnds(t)
    /\ Obtain(t, call[t].size, memoryType)
    /\ waitset' = waitset \ {t}
    /\ Return(t)
    /\ UNCHANGED <<size, memoryType, signalVars>>

\* A thread woken in a timed wait whose predicate is false sleeps again.
WakeAndSleep(t) ==
    /\ WaitEnds(t)
    /\ call[t].at = "sleepTimed" /\ t \notin waitset
    /\ NoBuffer
    /\ waitset' = waitset \cup {t}
    /\ UNCHANGED <<queueVars, call, held, signalVars>>

\* The time is over (ERROR_WAIT_TIMEOUT), or a wait without a predicate has
\* ended and another thread was faster (ERROR_NO_FREE_BUFFER).
WakeRefused(t) ==
    /\ WaitEnds(t)
    /\ NoBuffer
    /\ waitset' = waitset \ {t}
    /\ producerTold' = FALSE
    /\ Return(t)
    /\ UNCHANGED <<queueVars, held, hasListener, signals>>

-----------------------------------------------------------------------------
(* PushBuffer and ReturnBuffer.                                            *)

\* A buffer that a shrink has marked leaves the cache when a client gives it
\* back.
DeleteMarked(t, id) ==
    /\ cache[id].isDeleting
    /\ cache' = [cache EXCEPT ![id] = NoElement]
    /\ GiveUp(t, id)
    /\ Return(t)
    /\ UNCHANGED <<size, memoryType, free, dirty, waitset, signalVars>>

\* The critical section of PushBuffer.
MarkPushed(t, id, available) ==
    /\ cache[id].state \in {"REQUESTED", "ATTACHED"}
    /\ ~cache[id].isDeleting
    /\ SetState(id, "PUSHED")
    /\ call' = [call EXCEPT ![t].at = IF available THEN "pushed" ELSE "pushedCancel",
                            ![t].id = id]
    /\ UNCHANGED <<size, memoryType, free, dirty, waitset, held, signalVars>>

PushBuffer(t, id, available) ==
    /\ Idle(t) /\ MutexFree
    /\ id \in held[t]
    /\ DeleteMarked(t, id) \/ MarkPushed(t, id, available)

\* brokerListener_->OnBufferFilled(buffer): the broker has the buffer now.
OnBufferFilled(t, b) ==
    /\ call[t].at = "pushed"
    /\ held' = [held EXCEPT ![t] = @ \ {call[t].id}, ![b] = @ \cup {call[t].id}]
    /\ Return(t)
    /\ UNCHANGED <<queueVars, waitset, signalVars>>

MakeIdleUnlisted(t, id) ==
    /\ ~cache[id].isDeleting
    /\ SetState(id, "RELEASED")
    /\ GiveUp(t, id)
    /\ Goto(t, "notifyProducer")
    /\ UNCHANGED <<size, memoryType, free, dirty, waitset, signalVars>>

\* A client or AttachBuffer gives a buffer back and it is idle again.
MakeIdle(t, id) ==
    /\ ~cache[id].isDeleting
    /\ InsertFreeBufferInOrder(id)
    /\ SetState(id, "RELEASED")
    /\ NotifyAll
    /\ GiveUp(t, id)
    /\ Goto(t, "notifyProducer")
    /\ UNCHANGED <<size, memoryType, dirty, signalVars>>

\* ReturnBuffer(id, false)
CancelBuffer(t, id) == cache[id].state = "PUSHED" /\ MakeIdle(t, id)

ReturnFilledFirst(t, id) ==
    /\ cache[id].state = "PUSHED" /\ ~cache[id].isDeleting
    /\ SetState(id, "RETURNED")
    /\ dirty' = <<id>> \o dirty
    /\ GiveUp(t, id)
    /\ call' = [call EXCEPT ![t].at = "notifyConsumer", ![t].id = id]
    /\ UNCHANGED <<size, memoryType, free, waitset, signalVars>>

ReturnFilledUnchecked(t, id) ==
    /\ cache[id].state # "ABSENT" /\ ~cache[id].isDeleting
    /\ SetState(id, "RETURNED")
    /\ dirty' = Append(dirty, id)
    /\ GiveUp(t, id)
    /\ call' = [call EXCEPT ![t].at = "notifyConsumer", ![t].id = id]
    /\ UNCHANGED <<size, memoryType, free, waitset, signalVars>>

\* ReturnBuffer(id, true) of a buffer with data, or with the EOS flag.
ReturnFilled(t, id) ==
    /\ cache[id].state = "PUSHED" /\ ~cache[id].isDeleting
    /\ SetState(id, "RETURNED")
    /\ dirty' = Append(dirty, id)
    /\ GiveUp(t, id)
    /\ call' = [call EXCEPT ![t].at = "notifyConsumer", ![t].id = id]
    /\ UNCHANGED <<size, memoryType, free, waitset, signalVars>>

\* PushBuffer, when there is no broker, goes on into ReturnBuffer.
PushReturns(t) ==
    /\ MutexFree
    /\ \/ /\ call[t].at = "pushed" /\ Brokers = {}
          /\ DeleteMarked(t, call[t].id) \/ ReturnFilled(t, call[t].id)
       \/ /\ call[t].at = "pushedCancel"
          /\ DeleteMarked(t, call[t].id) \/ CancelBuffer(t, call[t].id)

\* A broker returns a buffer it was handed, or a producer one that an earlier
\* call left PUSHED, with data or without.
ReturnBuffer(t, id) ==
    /\ Idle(t) /\ MutexFree
    /\ id \in held[t]
    /\ DeleteMarked(t, id) \/ ReturnFilled(t, id) \/ CancelBuffer(t, id)

\* The part of AttachBuffer after the lock fails: it detaches the buffer.  Any
\* other failed call returns its error, and the client still has the buffer.
Fail(t) == IF call[t].attaching THEN Goto(t, "forceDetach") ELSE Return(t)

\* ERROR_INVALID_BUFFER_SIZE: the buffer is empty, and stays PUSHED.  The refusal
\* of one that is not PUSHED (:414) needs no step: PushBuffer has left it PUSHED
\* or marked, and a client's own ReturnBuffer or ReleaseBuffer (:562) of such a
\* buffer changes nothing.
ReturnRefused(t) ==
    /\ call[t].at = "pushed" /\ Brokers = {} /\ MutexFree
    /\ ~cache[call[t].id].isDeleting
    /\ Fail(t)
    /\ UNCHANGED <<queueVars, waitset, held, signalVars>>

NotifyConsumerOfFirst(t) ==
    /\ call[t].at = "notifyConsumer" /\ hasListener
    /\ signals' = IF Len(dirty) <= 1 THEN Lesser(signals + 1, MaxSignals) ELSE signals
    /\ Return(t)
    /\ UNCHANGED <<queueVars, waitset, held, hasListener, producerTold>>

\* consumerListener_->OnBufferAvailable()
NotifyConsumer(t) ==
    /\ call[t].at = "notifyConsumer" /\ hasListener
    /\ signals' = Lesser(signals + 1, MaxSignals)
    /\ Return(t)
    /\ UNCHANGED <<queueVars, waitset, held, hasListener, producerTold>>

\* ERROR_NO_CONSUMER_LISTENER: the buffer is in dirtyBufferList_, but the
\* client is told that its call failed.
NoConsumerListener(t) ==
    /\ call[t].at = "notifyConsumer" /\ ~hasListener
    /\ Hand(t, call[t].id)
    /\ Fail(t)
    /\ UNCHANGED <<queueVars, waitset, signalVars>>

NotifyNoProducer(t) ==
    /\ call[t].at = "notifyProducer"
    /\ Return(t)
    /\ UNCHANGED <<queueVars, waitset, held, signalVars>>

\* producerListener_->OnBufferAvailable()
NotifyProducer(t) ==
    /\ call[t].at = "notifyProducer"
    /\ producerTold' = TRUE
    /\ Return(t)
    /\ UNCHANGED <<queueVars, waitset, held, hasListener, signals>>

-----------------------------------------------------------------------------
(* AcquireBuffer and ReleaseBuffer.                                        *)

AcquireWithoutPop(t) ==
    /\ Idle(t) /\ MutexFree
    /\ dirty # <<>>
    /\ SetState(Head(dirty), "ACQUIRED")
    /\ Hand(t, Head(dirty))
    /\ UNCHANGED <<size, memoryType, free, dirty, waitset, call, signalVars>>

\* An id that is no longer cached would make operator[] insert an element
\* without a buffer, and the code dereference it: ListsMatchStates excludes it.
AcquireBuffer(t) ==
    /\ Idle(t) /\ MutexFree
    /\ dirty # <<>>
    /\ cache[Head(dirty)].state # "ABSENT"
    /\ dirty' = Tail(dirty)
    /\ SetState(Head(dirty), "ACQUIRED")
    /\ Hand(t, Head(dirty))
    /\ signals' = IF signals > 0 THEN signals - 1 ELSE 0
    /\ UNCHANGED <<size, memoryType, free, waitset, call, hasListener, producerTold>>

\* ERROR_NO_DIRTY_BUFFER: a notification whose buffer is gone.
AcquireRefused(t) ==
    /\ Idle(t) /\ MutexFree
    /\ dirty = <<>>
    /\ signals > 0
    /\ signals' = signals - 1
    /\ UNCHANGED <<queueVars, waitset, call, held, hasListener, producerTold>>

Release(t, id) ==
    /\ cache[id].state \in {"ACQUIRED", "ATTACHED"}
    /\ DeleteMarked(t, id) \/ MakeIdle(t, id)

ReleaseBuffer(t, id) ==
    /\ Idle(t) /\ MutexFree
    /\ id \in held[t]
    /\ Release(t, id)

-----------------------------------------------------------------------------
(* AttachBuffer and DetachBuffer.                                          *)

\* The client has just created the buffer, or has it outside the queue.
IsAttachable(t, id, need, type) ==
    \/ id \in Fresh
    \/ /\ id \in held[t] /\ cache[id].state = "ABSENT"
       /\ cache[id].capacity = need /\ cache[id].memType = type

\* The number of buffers a full queue deletes to attach another.
RoomNeeded == IF GetCachedBufferCount >= size THEN GetCachedBufferCount - size + 1 ELSE 0

AttachBuffer(t, id, need, type, filled) ==
    /\ Idle(t) /\ MutexFree
    /\ IsAttachable(t, id, need, type)
    /\ CheckConfig(type)
    /\ Len(dirty) + Len(free) >= RoomNeeded
    /\ cache' = [CacheWithout(RoomNeeded) EXCEPT
                    ![id] = [state |-> "ATTACHED", isDeleting |-> FALSE,
                             capacity |-> need, memType |-> type]]
    /\ DropFromLists(RoomNeeded)
    /\ Hand(t, id)
    /\ call' = [call EXCEPT ![t].at = IF filled THEN "attachPush" ELSE "attachRelease",
                            ![t].id = id, ![t].attaching = TRUE]
    /\ UNCHANGED <<size, waitset, signalVars>>

\* The lock was free between: AttachBuffer calls PushBuffer or ReleaseBuffer.
AttachGoesOn(t) ==
    LET id == call[t].id IN
    /\ MutexFree
    /\ \/ call[t].at = "attachPush" /\ (DeleteMarked(t, id) \/ MarkPushed(t, id, TRUE))
       \/ call[t].at = "attachRelease" /\ Release(t, id)

\* DetachBuffer changes cachedBufferMap_ and nothing else.
EraseFromMap(id) ==
    cache' = [cache EXCEPT ![id].state = "ABSENT", ![id].isDeleting = FALSE]

\* DetachBuffer(uniqueId, true) is called without queueMutex_.
ForceDetach(t) ==
    /\ call[t].at = "forceDetach"
    /\ EraseFromMap(call[t].id)
    /\ Return(t)
    /\ UNCHANGED <<size, memoryType, free, dirty, waitset, held, signalVars>>

DetachBuffer(t, id) ==
    /\ Idle(t) /\ MutexFree
    /\ id \in held[t]
    /\ cache[id].state \in {"REQUESTED", "ACQUIRED"}
    /\ EraseFromMap(id)
    /\ UNCHANGED <<size, memoryType, free, dirty, waitset, call, held, signalVars>>

-----------------------------------------------------------------------------
(* SetQueueSize: the comparison with size_ and the growth are not locked.  *)

GrowPastMax(t, new) ==
    /\ Idle(t)
    /\ new >= size
    /\ size' = new + 1
    /\ Goto(t, "grown")
    /\ UNCHANGED <<memoryType, cache, free, dirty, waitset, held, signalVars>>

Grow(t, new) ==
    /\ Idle(t)
    /\ new > size
    /\ size' = new
    /\ IF DisableAlloc THEN UNCHANGED call ELSE Goto(t, "grown")
    /\ UNCHANGED <<memoryType, cache, free, dirty, waitset, held, signalVars>>

GrowNotifies(t) ==
    /\ call[t].at = "grown"
    /\ NotifyAll
    /\ Return(t)
    /\ UNCHANGED <<queueVars, held, signalVars>>

DecideShrink(t, new) ==
    /\ Idle(t)
    /\ new < size
    /\ call' = [call EXCEPT ![t].at = "shrink", ![t].size = new]
    /\ UNCHANGED <<queueVars, waitset, held, signalVars>>

ShrinkCountOneMore(t) == size - call[t].size + 1
ShrinkCount(t) == (size - call[t].size) % UintRange

Shrink(t) ==
    /\ call[t].at = "shrink" /\ MutexFree
    /\ cache' = CacheWithout(ShrinkCount(t))
    /\ DropFromLists(ShrinkCount(t))
    /\ size' = call[t].size
    /\ Return(t)
    /\ UNCHANGED <<memoryType, waitset, held, signalVars>>

SetConsumerListener ==
    /\ ~hasListener
    /\ hasListener' = TRUE
    /\ UNCHANGED <<queueVars, waitset, call, held, signals, producerTold>>

-----------------------------------------------------------------------------

ProducerCalls(t) ==
    \/ \E need \in Capacities, type \in MemTypes :
          \/ RequestBuffer(t, need, type)
          \/ RequestBlocks(t, need, type, "enterTimed")
          \/ RequestBlocks(t, need, type, "enterForever")
    \/ \E type \in MemTypes : RequestRefused(t, type)
    \/ \E id \in Ids, available \in BOOLEAN : PushBuffer(t, id, available)

ConsumerCalls(t) ==
    \/ AcquireBuffer(t) \/ AcquireRefused(t)
    \/ \E id \in Ids : ReleaseBuffer(t, id)

AttacherCalls(t) ==
    \E id \in Ids :
        \/ \E need \in Capacities, type \in MemTypes, filled \in BOOLEAN :
              AttachBuffer(t, id, need, type, filled)
        \/ DetachBuffer(t, id)

\* A call that has begun and does not wait goes on.
Proceed(t) ==
    \/ EnterWait(t)
    \/ \E b \in Brokers : OnBufferFilled(t, b)
    \/ PushReturns(t) \/ ReturnRefused(t)
    \/ NotifyConsumer(t) \/ NoConsumerListener(t) \/ NotifyProducer(t)
    \/ AttachGoesOn(t) \/ ForceDetach(t)
    \/ GrowNotifies(t) \/ Shrink(t)

Continue(t) == Proceed(t) \/ WakeAndObtain(t) \/ WakeAndSleep(t) \/ WakeRefused(t)

Next ==
    \/ \E t \in Producers : ProducerCalls(t)
    \/ \E t \in Consumers : ConsumerCalls(t)
    \/ \E t \in Producers \cup Brokers, id \in Ids : ReturnBuffer(t, id)
    \/ \E t \in Attachers : AttacherCalls(t)
    \/ \E t \in Resizers, new \in 1..MaxQueueSize : Grow(t, new) \/ DecideShrink(t, new)
    \/ \E t \in Threads : Continue(t) \/ SpuriousWakeup(t)
    \/ SetConsumerListener

Spec == Init /\ [][Next]_vars

\* Threads inside a call are scheduled and queueMutex_ does not starve one of
\* them for ever; the time of a timed wait passes; a consumer answers every
\* notification it was given.
Fairness ==
    /\ \A t \in Threads :
          /\ SF_vars(Proceed(t))
          /\ SF_vars(WakeAndObtain(t) \/ WakeRefused(t))
    /\ \A t \in Consumers : SF_vars(signals > 0 /\ (AcquireBuffer(t) \/ AcquireRefused(t)))

FairSpec == Spec /\ Fairness

-----------------------------------------------------------------------------
(* Properties.                                                             *)

NoDuplicates(list) == \A i, j \in DOMAIN list : list[i] = list[j] => i = j

\* The two lists and the states of the elements agree: freeBufferList_ holds
\* the RELEASED buffers and dirtyBufferList_ the RETURNED ones, each once.
ListsMatchStates ==
    /\ NoDuplicates(free) /\ NoDuplicates(dirty)
    /\ Elements(free) = {id \in Ids : cache[id].state = "RELEASED"}
    /\ Elements(dirty) = {id \in Ids : cache[id].state = "RETURNED"}

\* A buffer is in at most one place: no two threads have it in their hands,
\* and none has a buffer that the queue may lend to another.
ExclusiveOwnership ==
    /\ \A s, t \in Threads : s # t => held[s] \cap held[t] = {}
    /\ \A t \in Threads : held[t] \cap (Elements(free) \cup Elements(dirty)) = {}

\* No buffer is lost: a cached buffer that is in neither list is in the hands
\* of a thread, who can give it back.
NoBufferLost ==
    \A id \in Cached : \/ id \in Elements(free) \cup Elements(dirty)
                       \/ \E t \in Threads : id \in held[t]

\* impl.h:117: freeBufferList_ is in ascending order of the buffers' sizes,
\* also after replacements, cancels, attachments and shrinks.
FreeListSorted ==
    \A i, j \in DOMAIN free : i < j => cache[free[i]].capacity <= cache[free[j]].capacity

\* A buffer that a shrink has marked is in a client's hands: the queue never
\* lends it again (it would go on living).
MarkedIsOut == \A id \in Ids : cache[id].isDeleting =>
                  id \notin Elements(free) \cup Elements(dirty)

\* No wake-up is lost: a thread sleeps on requestCondition, unwoken, only
\* while freeBufferList_ is empty.
NoSleepWhileIdle == waitset # {} => free = <<>>

\* No notification is lost: for every filled buffer the consumer has an
\* OnBufferAvailable that it has not answered, or is about to get one.
FilledIsAnnounced ==
    Len(dirty) <= signals + Cardinality({t \in Threads : call[t].at = "notifyConsumer"})

\* A producer that was refused and then waits for OnBufferAvailable is told of
\* an idle buffer, or about to be.
IdleIsAnnounced ==
    free # <<>> /\ ~producerTold => \E t \in Threads : call[t].at = "notifyProducer"

\* SetQueueSize deletes at most as many buffers as it takes off the size.
ResizeDeletesAtMostItsExcess ==
    [][size' # size =>
          Cardinality(Cached) - Cardinality(Cached') <= IF size' < size THEN size - size' ELSE 0]_vars

\* impl.h:117: freeBufferList_ records buffers that are allocated and idle.
FreeListIdle == \A id \in Elements(free) : cache[id].state = "RELEASED"

\* The queue implements the hand-over of buffers by BufferHandoff: whatever
\* the threads do between its critical sections, no step of a call moves a
\* buffer in a way the promise does not know, and the order is first in,
\* first out.
Handoff == INSTANCE BufferHandoff WITH
    Buffers <- Ids, Clients <- Threads,
    idle <- Elements(free), filled <- dirty, out <- held
ImplementsHandoff == Handoff!Spec

\* Every call returns: the timed ones without anybody's help, one that waits
\* for ever as soon as it has been woken.
EveryCallReturns ==
    \A t \in Threads :
        /\ call[t].at \notin {"idle", "enterForever", "sleepForever"} ~> Idle(t)
        /\ call[t].at = "sleepForever" /\ t \notin waitset ~> Idle(t)

\* A filled buffer does not stay in the queue: the consumer is notified until
\* it has acquired it, or a shrink has deleted it.
FilledIsConsumed == \A id \in Ids : id \in Elements(dirty) ~> id \notin Elements(dirty)

=============================================================================
