------------------------------ MODULE RemoteQueue ------------------------------
(***************************************************************************)
(* The two other ends an AVBufferQueue may have.  In another process a     *)
(* producer calls it through AVBufferQueueProducerProxyImpl: every call is *)
(* a parcel that AVBufferQueueProducerStub takes apart, and every answer a *)
(* parcel back.  Or the queue is an AVBufferQueueSurfaceWrapper, which     *)
(* keeps no buffers of its own and asks a Surface for them.                *)
(*                                                                         *)
(* The queue behind the stub does what AVBufferQueue says, one call at a   *)
(* time here.  What is kept apart is what two processes keep apart: the    *)
(* buffer has an object on either side (size, and the frame it says it     *)
(* holds: pts), and only the bytes are shared.  The kernel (external) may  *)
(* fail to carry a call, or to carry its answer.  The consumer has set its *)
(* listener.  The Surface (external) counts its buffers by state; at its   *)
(* other end somebody produces, or consumes.                               *)
(***************************************************************************)
EXTENDS Integers, Sequences, SequencesExt, FiniteSets, FiniteSetsExt

CONSTANTS RqIds,           \* unique ids of AVBuffers
          RqMemories,      \* memory types a queue may have: "shared", "virtual"
          RqWorlds,        \* "remote", and the wrapper's types "producer", "consumer"
          RqSizes,         \* queue sizes
          RqMaxSize,       \* AVBUFFER_QUEUE_MAX_QUEUE_SIZE
          MaxRqFrames, MaxRqCalls, MaxRqLost   \* bounds: frames, the client's calls, parcels lost

ASSUME RqAssumption ==
    /\ RqIds \subseteq Nat \ {0} /\ IsFiniteSet(RqIds) /\ RqSizes \subseteq Nat \ {0}
    /\ {RqMaxSize, MaxRqFrames, MaxRqCalls, MaxRqLost} \subseteq Nat

VARIABLES
    rqWorld,     \* what the queue is
    rqMemory,    \* its memory type
    rqSize,      \* size_
    rqCache,     \* cachedBufferMap_: state, isDeleting, and the server's object (size, frame)
    rqFree, rqDirty,   \* freeBufferList_, dirtyBufferList_
    rqBytes,     \* the frame in the shared memory of a buffer
    rqMine,      \* the client's objects: whether they are in its hands, filled, their size and frame
    rqCall,      \* the call that is under way and how far it is
    rqBroker,    \* whether a broker listens, and the buffers it has
    rqTold,      \* what GetQueueSize answered last
    rqDoubt,     \* buffers of which the client does not know whether a call reached the queue
    rqGot,       \* what the consumer and the broker got: [said, bytes]
    rqTaken,     \* the buffer the consumer has
    rqNext, rqCalls, rqLost,   \* the next frame; calls and losses so far
    swCount,     \* length of the wrapper's freeBufferList_
    swSurface,   \* the Surface's buffers: requested, flushed, acquired, and its queue size
    swHeld       \* AVBuffers of the wrapper in the hands of clients

rqServer == <<rqWorld, rqMemory, rqSize, rqCache, rqFree, rqDirty, rqBytes>>
rqClient == <<rqMine, rqCall, rqTold, rqDoubt>>
rqSinks == <<rqBroker, rqGot, rqTaken>>
rqBounds == <<rqNext, rqCalls, rqLost>>
swVars == <<swCount, swSurface, swHeld>>
rqVars == <<rqServer, rqClient, rqSinks, rqBounds, swVars>>

RqStates == {"absent", "released", "requested", "pushed", "returned", "acquired", "attached"}
NoElem == [state |-> "absent", dying |-> FALSE, size |-> 0, frame |-> 0]
NotMine == [held |-> FALSE, filled |-> FALSE, size |-> 0, frame |-> 0]
NoRqCall == [at |-> "idle", op |-> "", id |-> 0, flag |-> FALSE, n |-> 0, size |-> 0, frame |-> 0, status |-> "OK"]

RqTypeOK ==
    /\ rqWorld \in RqWorlds /\ rqMemory \in RqMemories /\ rqSize \in 1 .. RqMaxSize
    /\ \A id \in RqIds : rqCache[id].state \in RqStates /\ rqCache[id].size \in {0, 1}
    /\ rqFree \in Seq(RqIds) /\ rqDirty \in Seq(RqIds)
    /\ rqCall.at \in {"idle", "sent", "answered"} /\ rqDoubt \subseteq RqIds
    /\ rqTaken \in RqIds \cup {0} /\ rqBroker.has \subseteq RqIds
    /\ swCount \in Nat /\ swHeld \in Nat /\ swSurface.size \in Nat

RqInit ==
    /\ rqWorld \in RqWorlds /\ rqMemory \in RqMemories /\ rqSize \in RqSizes
    /\ rqCache = [id \in RqIds |-> NoElem] /\ rqFree = <<>> /\ rqDirty = <<>>
    /\ rqBytes = [id \in RqIds |-> 0] /\ rqMine = [id \in RqIds |-> NotMine]
    /\ rqCall = NoRqCall /\ rqBroker = [listens |-> FALSE, has |-> {}] /\ rqTold = 0
    /\ rqDoubt = {} /\ rqGot = <<>> /\ rqTaken = 0 /\ rqNext = 1 /\ rqCalls = 0 /\ rqLost = 0
    /\ swCount = rqSize /\ swHeld = 0
    /\ swSurface = [requested |-> 0, flushed |-> 0, acquired |-> 0, size |-> rqSize]

RqCached == {id \in RqIds : rqCache[id].state # "absent"}
Unknown == {id \in RqIds : /\ rqCache[id].state = "absent" /\ ~rqMine[id].held /\ id \notin rqDoubt
                           /\ id # rqTaken /\ id \notin rqBroker.has /\ rqBytes[id] = 0}

-----------------------------------------------------------------------------
(* The proxy: a call is a parcel, an answer a Status and what follows it.  *)

MayCall == rqWorld = "remote" /\ rqCall.at = "idle" /\ rqCalls < MaxRqCalls
RqSends(c) == rqCall' = [c EXCEPT !.at = "sent"] /\ rqCalls' = rqCalls + 1

\* The client's code fills what it holds, and tells its own object so.
Fills(id) ==
    /\ rqWorld = "remote" /\ rqCall.at = "idle" /\ rqMine[id].held /\ ~rqMine[id].filled /\ id \notin rqDoubt
    /\ rqNext <= MaxRqFrames /\ rqNext' = rqNext + 1
    /\ rqBytes' = [rqBytes EXCEPT ![id] = rqNext]
    /\ rqMine' = [rqMine EXCEPT ![id] = [held |-> TRUE, filled |-> TRUE, size |-> 1, frame |-> rqNext]]
    /\ UNCHANGED <<rqWorld, rqMemory, rqSize, rqCache, rqFree, rqDirty, rqCall, rqTold, rqDoubt, rqSinks,
                   rqCalls, rqLost, swVars>>

\* It makes a buffer of its own, to attach it.
Creates(id) ==
    /\ MayCall /\ id \in Unknown
    /\ rqMine' = [rqMine EXCEPT ![id].held = TRUE]
    /\ rqCalls' = rqCalls + 1
    /\ UNCHANGED <<rqServer, rqCall, rqTold, rqDoubt, rqSinks, rqNext, rqLost, swVars>>

ProxyRequestBuffer == RqSends([NoRqCall EXCEPT !.op = "request"])
ProxyPushBuffer(id, available) == RqSends([NoRqCall EXCEPT !.op = "push", !.id = id, !.flag = available])
ProxyReturnBuffer(id, available) == RqSends([NoRqCall EXCEPT !.op = "return", !.id = id, !.flag = available])
ProxyDetachBuffer(id) == RqSends([NoRqCall EXCEPT !.op = "detach", !.id = id])
ProxySetQueueSize(n) == RqSends([NoRqCall EXCEPT !.op = "set size", !.n = n])
ProxyGetQueueSize == RqSends([NoRqCall EXCEPT !.op = "get size"])
ProxySetFilledListener == RqSends([NoRqCall EXCEPT !.op = "listen"])
\* A virtual memory writes nothing of the buffer into the parcel, and nobody looks.
ProxyAttachBuffer(id, isFilled) ==
    RqSends([NoRqCall EXCEPT !.op = "attach", !.flag = isFilled, !.id = IF rqMemory = "virtual" THEN 0 ELSE id,
                           !.n = id, !.size = rqMine[id].size, !.frame = rqMine[id].frame])

\* A client pushes what it filled, gives back what it did not, and gives back unpushed what was refused.
RqClientCalls ==
    /\ MayCall
    /\ \/ ProxyRequestBuffer
       \/ ProxyGetQueueSize
       \/ ~rqBroker.listens /\ ProxySetFilledListener
       \/ \E n \in RqSizes : ProxySetQueueSize(n)
       \/ \E id \in RqIds :
            /\ rqMine[id].held
            /\ \/ ProxyPushBuffer(id, rqMine[id].filled)
               \/ ProxyReturnBuffer(id, FALSE)
               \/ ProxyDetachBuffer(id)
               \/ ProxyAttachBuffer(id, rqMine[id].filled)
    /\ UNCHANGED <<rqServer, rqMine, rqTold, rqDoubt, rqSinks, rqNext, rqLost, swVars>>

-----------------------------------------------------------------------------
(* The stub, and the queue it calls.                                       *)

Reply(status) == rqCall' = [rqCall EXCEPT !.at = "answered", !.status = status]
Refuse(status) == Reply(status) /\ UNCHANGED <<rqMemory, rqSize, rqCache, rqFree, rqDirty, rqBroker, rqGot>>
Serving(op) == rqCall.at = "sent" /\ rqCall.op = op

Without(ids) == [id \in RqIds |-> IF id \in ids THEN NoElem ELSE rqCache[id]]
ToFront(id) == rqFree' = <<id>> \o rqFree   \* InsertFreeBufferInOrder, with capacities that are the same

Fewer(a, b) == IF a < b THEN a ELSE b

\* DeleteBuffers: idle ones, filled ones, and for the rest a mark.
Doomed(count) == LET lists == rqFree \o rqDirty IN ToSet(SubSeq(lists, 1, Fewer(count, Len(lists))))
DeletesBuffers(count) ==
    LET gone == Doomed(count)
        left == RqCached \ gone
        mark == {id \in left : Cardinality({o \in left : o < id}) < count - Cardinality(gone)}
    IN  /\ rqFree' = SelectSeq(rqFree, LAMBDA id : id \notin gone)
        /\ rqDirty' = SelectSeq(rqDirty, LAMBDA id : id \notin gone)
        /\ rqCache' = [id \in RqIds |-> IF id \in gone THEN NoElem
                                        ELSE [rqCache[id] EXCEPT !.dying = @ \/ id \in mark]]

\* The parcel's size comes after a Status that says OK.
OnGetQueueSize == Serving("get size") /\ Refuse("OK")

OnSetQueueSize ==
    /\ Serving("set size")
    /\ \/ rqCall.n = rqSize /\ Refuse("ERROR_INVALID_BUFFER_SIZE")
       \/ /\ rqCall.n > rqSize /\ rqSize' = rqCall.n /\ Reply("OK")
          /\ UNCHANGED <<rqMemory, rqCache, rqFree, rqDirty, rqBroker, rqGot>>
       \/ /\ rqCall.n < rqSize /\ DeletesBuffers(rqSize - rqCall.n) /\ rqSize' = rqCall.n /\ Reply("OK")
          /\ UNCHANGED <<rqMemory, rqBroker, rqGot>>

\* No timeout is in the parcel, and what is not there is read as 0: there is no wait.
Lent(id, e) == rqCall' = [rqCall EXCEPT !.at = "answered", !.status = "OK", !.id = IF rqMemory = "virtual" THEN 0 ELSE id,
                                        !.size = e.size, !.frame = e.frame]
OnRequestBuffer ==
    /\ Serving("request")
    /\ \/ /\ rqFree # <<>>
          /\ rqCache' = [rqCache EXCEPT ![Head(rqFree)].state = "requested"]
          /\ rqFree' = Tail(rqFree) /\ Lent(Head(rqFree), rqCache[Head(rqFree)])
          /\ UNCHANGED <<rqMemory, rqSize, rqDirty, rqBroker, rqGot>>
       \/ /\ rqFree = <<>> /\ Cardinality(RqCached) < rqSize
          /\ \E id \in Unknown : /\ rqCache' = [rqCache EXCEPT ![id].state = "requested"] /\ Lent(id, NoElem)
          /\ UNCHANGED <<rqMemory, rqSize, rqFree, rqDirty, rqBroker, rqGot>>
       \/ rqFree = <<>> /\ Cardinality(RqCached) >= rqSize /\ Refuse("ERROR_NO_FREE_BUFFER")

\* ReturnBuffer of a PUSHED buffer that is in cache c: dropped, cancelled, refused for its size, or to the consumer.
Returned(c, id, available) ==
    IF ~available
    THEN rqCache' = [c EXCEPT ![id].state = "released"] /\ ToFront(id) /\ rqDirty' = rqDirty
    ELSE /\ c[id].size > 0
         /\ rqCache' = [c EXCEPT ![id].state = "returned"] /\ rqDirty' = Append(rqDirty, id) /\ rqFree' = rqFree

Got(id) == rqGot' = Append(rqGot, [said |-> rqCache[id].frame, bytes |-> rqBytes[id]])

\* A bug a change could bring: the state is not looked at.
RqReturnsAgain(id, available) == rqCache[id].state # "absent" /\ Returned(rqCache, id, available)

RqReturns(id, available) == rqCache[id].state = "pushed" /\ Returned(rqCache, id, available)

\* PushBuffer marks the buffer PUSHED and hands it to the broker, or goes on with ReturnBuffer.
RqPushed(id) == [rqCache EXCEPT ![id].state = "pushed"]
Pushes(id, available) ==
    IF available /\ rqBroker.listens
    THEN /\ rqCache' = RqPushed(id) /\ rqBroker' = [rqBroker EXCEPT !.has = @ \cup {id}]
         /\ Got(id) /\ UNCHANGED <<rqFree, rqDirty>>
    ELSE Returned(RqPushed(id), id, available) /\ UNCHANGED <<rqBroker, rqGot>>
\* With ERROR_INVALID_BUFFER_SIZE the state stays PUSHED.
Stuck(id, available) == available /\ ~rqBroker.listens /\ rqCache[id].size = 0

OnPushBuffer ==
    /\ Serving("push")
    /\ LET id == rqCall.id IN
       \/ id \notin RqCached /\ Refuse("ERROR_INVALID_BUFFER_ID")
       \/ /\ id \in RqCached /\ rqCache[id].dying /\ rqCache' = Without({id}) /\ Reply("OK")
          /\ UNCHANGED <<rqMemory, rqSize, rqFree, rqDirty, rqBroker, rqGot>>
       \/ /\ id \in RqCached /\ ~rqCache[id].dying /\ rqCache[id].state \notin {"requested", "attached"}
          /\ Refuse("ERROR_INVALID_BUFFER_STATE")
       \/ /\ id \in RqCached /\ ~rqCache[id].dying /\ rqCache[id].state \in {"requested", "attached"}
          /\ \/ ~Stuck(id, rqCall.flag) /\ Pushes(id, rqCall.flag) /\ Reply("OK")
             \/ /\ Stuck(id, rqCall.flag) /\ rqCache' = RqPushed(id) /\ Reply("ERROR_INVALID_BUFFER_SIZE")
                /\ UNCHANGED <<rqFree, rqDirty, rqBroker, rqGot>>
          /\ UNCHANGED <<rqMemory, rqSize>>

OnReturnBuffer ==
    /\ Serving("return")
    /\ LET id == rqCall.id IN
       \/ id \notin RqCached /\ Refuse("ERROR_INVALID_BUFFER_ID")
       \/ /\ id \in RqCached /\ rqCache[id].dying /\ rqCache' = Without({id}) /\ Reply("OK")
          /\ UNCHANGED <<rqMemory, rqSize, rqFree, rqDirty, rqBroker, rqGot>>
       \/ /\ id \in RqCached /\ ~rqCache[id].dying /\ rqCache[id].state # "pushed"
          /\ Refuse("ERROR_INVALID_BUFFER_STATE")
       \/ /\ id \in RqCached /\ ~rqCache[id].dying /\ RqReturns(id, rqCall.flag) /\ Reply("OK")
          /\ UNCHANGED <<rqMemory, rqSize, rqBroker, rqGot>>

\* A buffer of virtual memory arrives without memory, id and type.  A full queue gives up an idle or a filled
\* buffer for the new one.  What is filled is pushed, and detached again when that fails; the rest is idle.
Attached(id) == [state |-> "attached", dying |-> FALSE, size |-> rqCall.size, frame |-> rqCall.frame]
Room(count) == Len(rqFree) + Len(rqDirty) > count
Enters(id, cache, free, dirty) ==
    IF ~rqCall.flag
    THEN /\ rqCache' = [cache EXCEPT ![id] = [Attached(id) EXCEPT !.state = "released"]]
         /\ rqFree' = <<id>> \o free /\ rqDirty' = dirty /\ UNCHANGED <<rqBroker, rqGot>> /\ Reply("OK")
    ELSE IF rqBroker.listens
    THEN /\ rqCache' = [cache EXCEPT ![id] = [Attached(id) EXCEPT !.state = "pushed"]]
         /\ rqBroker' = [rqBroker EXCEPT !.has = @ \cup {id}] /\ rqFree' = free /\ rqDirty' = dirty
         /\ rqGot' = Append(rqGot, [said |-> rqCall.frame, bytes |-> rqBytes[id]]) /\ Reply("OK")
    ELSE /\ rqCache' = [cache EXCEPT ![id] = [Attached(id) EXCEPT !.state = "returned"]]
         /\ rqFree' = free /\ rqDirty' = Append(dirty, id) /\ UNCHANGED <<rqBroker, rqGot>> /\ Reply("OK")

OnAttachBuffer ==
    /\ Serving("attach")
    /\ LET id == rqCall.id
           count == Cardinality(RqCached) - rqSize
           gone == Doomed(count + 1)
           Stays(q) == SelectSeq(q, LAMBDA o : o \notin gone)
       IN \/ id \in RqCached /\ Refuse("ERROR_INVALID_BUFFER_ID")
          \/ id = 0 /\ Refuse("ERROR_UNEXPECTED_MEMORY_TYPE")
          \/ id # 0 /\ id \notin RqCached /\ count >= 0 /\ ~Room(count) /\ Refuse("ERROR_OUT_OF_RANGE")
          \/ /\ id # 0 /\ id \notin RqCached /\ count >= 0 /\ Room(count)
             /\ Enters(id, Without(gone), Stays(rqFree), Stays(rqDirty)) /\ UNCHANGED <<rqMemory, rqSize>>
          \/ /\ id # 0 /\ id \notin RqCached /\ count < 0
             /\ Enters(id, rqCache, rqFree, rqDirty) /\ UNCHANGED <<rqMemory, rqSize>>

OnDetachBuffer ==
    /\ Serving("detach")
    /\ LET id == rqCall.id IN
       \/ id \notin RqCached /\ Refuse("ERROR_INVALID_BUFFER_ID")
       \/ /\ id \in RqCached /\ rqCache[id].state \notin {"requested", "acquired"}
          /\ Refuse("ERROR_INVALID_BUFFER_STATE")
       \/ /\ id \in RqCached /\ rqCache[id].state \in {"requested", "acquired"}
          /\ rqCache' = Without({id}) /\ Reply("OK")
          /\ UNCHANGED <<rqMemory, rqSize, rqFree, rqDirty, rqBroker, rqGot>>

OnSetBufferFilledListener ==
    /\ Serving("listen") /\ rqBroker' = [rqBroker EXCEPT !.listens = TRUE] /\ Reply("OK")
    /\ UNCHANGED <<rqMemory, rqSize, rqCache, rqFree, rqDirty, rqGot>>

OnRemoteRequest ==
    /\ \/ OnGetQueueSize \/ OnSetQueueSize \/ OnRequestBuffer \/ OnPushBuffer \/ OnReturnBuffer
       \/ OnAttachBuffer \/ OnDetachBuffer \/ OnSetBufferFilledListener
    /\ UNCHANGED <<rqWorld, rqBytes, rqMine, rqTold, rqDoubt, rqTaken, rqBounds, swVars>>

\* The answer arrives.  A buffer that was lent is made anew from it, and whether that went well is not asked;
\* the size of the queue is read where the Status is.
RqAnswers ==
    /\ rqCall.at = "answered" /\ rqCall' = NoRqCall
    /\ LET given == IF rqCall.op = "attach" THEN rqCall.n ELSE rqCall.id IN
       /\ rqMine' = IF rqCall.status # "OK" \/ given = 0 THEN rqMine
                    ELSE IF rqCall.op = "request"
                    THEN [rqMine EXCEPT ![given] = [held |-> TRUE, filled |-> FALSE, size |-> rqCall.size,
                                                    frame |-> rqCall.frame]]
                    ELSE IF rqCall.op \in {"push", "return", "attach", "detach"}
                    THEN [rqMine EXCEPT ![given] = NotMine]
                    ELSE rqMine
       /\ rqDoubt' = IF rqCall.status = "OK" THEN rqDoubt \ {given} ELSE rqDoubt
    /\ rqTold' = IF rqCall.op = "get size" THEN 0 ELSE rqTold
    /\ UNCHANGED <<rqServer, rqSinks, rqBounds, swVars>>

\* ERROR_IPC_SEND_REQUEST: the call did not come, or its answer did not.
IsLost ==
    /\ rqCall.at \in {"sent", "answered"} /\ rqLost < MaxRqLost /\ rqLost' = rqLost + 1
    /\ rqCall' = NoRqCall
    /\ rqDoubt' = IF rqCall.op = "request" THEN rqDoubt
                  ELSE rqDoubt \cup ({rqCall.id, rqCall.n} \cap {id \in RqIds : rqMine[id].held /\ rqCall.op # "set size"})
    /\ UNCHANGED <<rqServer, rqMine, rqTold, rqSinks, rqNext, rqCalls, swVars>>

-----------------------------------------------------------------------------
(* The consumer and the broker, in the process of the queue.               *)

ConsumerAcquires ==
    /\ rqWorld = "remote" /\ rqTaken = 0 /\ rqDirty # <<>>
    /\ rqTaken' = Head(rqDirty) /\ rqDirty' = Tail(rqDirty) /\ Got(Head(rqDirty))
    /\ rqCache' = [rqCache EXCEPT ![Head(rqDirty)].state = "acquired"]
    /\ UNCHANGED <<rqWorld, rqMemory, rqSize, rqFree, rqBytes, rqClient, rqBroker, rqBounds, swVars>>

ConsumerReleases ==
    /\ rqTaken # 0 /\ rqTaken' = 0
    /\ \/ rqCache[rqTaken].state # "acquired" /\ UNCHANGED <<rqCache, rqFree>>
       \/ /\ rqCache[rqTaken].state = "acquired" /\ rqCache[rqTaken].dying
          /\ rqCache' = Without({rqTaken}) /\ rqFree' = rqFree
       \/ /\ rqCache[rqTaken].state = "acquired" /\ ~rqCache[rqTaken].dying
          /\ rqCache' = [rqCache EXCEPT ![rqTaken].state = "released"] /\ ToFront(rqTaken)
    /\ UNCHANGED <<rqWorld, rqMemory, rqSize, rqDirty, rqBytes, rqClient, rqBroker, rqGot, rqBounds, swVars>>

\* The broker has looked at the frame and drops the buffer: ReturnBuffer without a frame for the consumer.
BrokerReturns(id) ==
    /\ id \in rqBroker.has /\ rqBroker' = [rqBroker EXCEPT !.has = @ \ {id}]
    /\ \/ rqCache[id].state # "absent" /\ rqCache[id].dying /\ rqCache' = Without({id}) /\ UNCHANGED <<rqFree, rqDirty>>
       \/ ~rqCache[id].dying /\ RqReturns(id, FALSE)
       \/ ~rqCache[id].dying /\ rqCache[id].state # "pushed" /\ UNCHANGED <<rqCache, rqFree, rqDirty>>
    /\ UNCHANGED <<rqWorld, rqMemory, rqSize, rqBytes, rqClient, rqGot, rqTaken, rqBounds, swVars>>

-----------------------------------------------------------------------------
(* AVBufferQueueSurfaceWrapper.                                            *)

SwMay == rqWorld # "remote" /\ rqCalls < MaxRqCalls /\ rqCalls' = rqCalls + 1
SwRest == UNCHANGED <<rqServer, rqClient, rqSinks, rqNext, rqLost>>
SurfaceOut == swSurface.requested + swSurface.flushed + swSurface.acquired

\* BindSurface takes an AVBuffer off the list or makes one, and puts nothing of the surface buffer into it.
BindSurface == swCount' = (IF swCount = 0 THEN 0 ELSE swCount - 1) /\ swHeld' = swHeld + 1
\* UnbindSurface puts it back, and has no surface buffer to tell.
UnbindSurface == swCount' = swCount + 1

\* A new AVBuffer has the id 0, as all the others: the map has one entry, and every setting adds size - 1.
SwSetQueueSize(n) ==
    /\ SwMay /\ swSurface' = [swSurface EXCEPT !.size = n]
    /\ swCount' = IF n > 1 THEN swCount + (n - 1) ELSE swCount
    /\ swHeld' = swHeld /\ SwRest

SwRequestBuffer ==
    /\ SwMay /\ rqWorld = "producer"
    /\ \/ SurfaceOut < swSurface.size /\ swSurface' = [swSurface EXCEPT !.requested = @ + 1] /\ BindSurface
       \/ SurfaceOut >= swSurface.size /\ UNCHANGED swVars   \* ERROR_SURFACE_INNER
    /\ SwRest

\* A bug a change could bring: a buffer that is given up leaves its surface buffer to others.
CancelsSurface == /\ SwMay /\ rqWorld = "producer" /\ swHeld > 0 /\ UnbindSurface /\ swHeld' = swHeld /\ SwRest
                  /\ swSurface' = [swSurface EXCEPT !.requested = @ - 1]

\* CancelBuffer, PushBuffer and ReturnBuffer of what is not available.
SwCancelBuffer == /\ SwMay /\ rqWorld = "producer" /\ swHeld > 0 /\ UnbindSurface /\ swHeld' = swHeld - 1
                  /\ swSurface' = swSurface /\ SwRest

\* PushBuffer, DetachBuffer and ReleaseBuffer: the list grows, and the Surface refuses the null it is handed.
SwGivesNull == SwMay /\ swHeld > 0 /\ UnbindSurface /\ UNCHANGED <<swHeld, swSurface>> /\ SwRest

\* SetBrokerListener, and a push to the broker.
SwSetBrokerListener == SwMay /\ ~rqBroker.listens /\ rqBroker' = [rqBroker EXCEPT !.listens = TRUE]
                       /\ UNCHANGED <<rqServer, rqClient, rqGot, rqTaken, rqNext, rqLost, swVars>>
SwPushToBroker == /\ SwMay /\ rqWorld = "producer" /\ rqBroker.listens /\ swHeld > 0 /\ swHeld' = swHeld - 1
                  /\ UNCHANGED <<swCount, swSurface>> /\ SwRest

\* At the other end of a consumer's Surface somebody produces.
SurfaceFills == /\ rqWorld = "consumer" /\ SurfaceOut < swSurface.size
                /\ swSurface' = [swSurface EXCEPT !.flushed = @ + 1] /\ UNCHANGED <<swCount, swHeld, rqCalls>> /\ SwRest
SwAcquireBuffer ==
    /\ SwMay /\ rqWorld = "consumer"
    /\ \/ /\ swSurface.flushed > 0 /\ BindSurface
          /\ swSurface' = [swSurface EXCEPT !.flushed = @ - 1, !.acquired = @ + 1]
       \/ swSurface.flushed = 0 /\ UNCHANGED swVars
    /\ SwRest

RqNext ==
    \/ \E id \in RqIds : Fills(id) \/ Creates(id) \/ BrokerReturns(id)
    \/ RqClientCalls \/ OnRemoteRequest \/ RqAnswers \/ IsLost
    \/ ConsumerAcquires \/ ConsumerReleases
    \/ \E n \in RqSizes : SwSetQueueSize(n)
    \/ SwRequestBuffer \/ SwCancelBuffer \/ SwGivesNull \/ SwSetBrokerListener \/ SwPushToBroker
    \/ SurfaceFills \/ SwAcquireBuffer

RqSpec == RqInit /\ [][RqNext]_rqVars

-----------------------------------------------------------------------------
(* What the two ends promise.                                              *)

\* What the client has in its hands, and has no doubt of, the queue has lent: nobody else gets it.
HeldIsLent ==
    \A id \in RqIds : rqMine[id].held /\ id \notin rqDoubt /\ rqCache[id].state # "absent" /\ rqCall.at = "idle"
        => rqCache[id].state \in {"requested", "pushed"} /\ id \notin rqBroker.has

\* Nobody gets a frame twice while every answer arrives.
FrameTwice == \E i, j \in DOMAIN rqGot : i # j /\ rqGot[i].bytes = rqGot[j].bytes /\ rqGot[i].bytes # 0
OnceUnlessLost == rqLost = 0 => ~FrameTwice

\* An AVBuffer of the wrapper that a client has stands for a surface buffer that is out.
SurfaceBuffersStayOut == swHeld <= swSurface.requested + swSurface.acquired

RemoteHolds == HeldIsLent /\ OnceUnlessLost /\ SurfaceBuffersStayOut

\* NOT so: an attached buffer whose answer was lost, and which has left the queue, is attached a second time.
NoFrameTwice == ~FrameTwice
\* NOT so: the size and the times the client set stay in its own object.
PtsArrives == \A i \in DOMAIN rqGot : rqGot[i].said = rqGot[i].bytes
\* NOT so: after a lost answer, and with memory that no parcel carries, a lent buffer is nobody's.
LentIsHeld == rqCall.at = "idle" => \A id \in RqIds : rqCache[id].state = "requested" => rqMine[id].held
\* NOT so: the queue tells 0.
SizeIsTold == rqTold = 0 => rqCalls = 0 \/ rqCall.at # "idle"
\* NOT so: a surface buffer that was asked for never comes back.
SurfaceBufferIsReturned == swHeld = 0 => swSurface.requested = 0
=============================================================================
