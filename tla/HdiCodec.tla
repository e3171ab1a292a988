------------------------------ MODULE HdiCodec ------------------------------
(***************************************************************************)
(* The codec plug-in that drives a hardware component through HDI:         *)
(* HdiCodecAdapter with its CodecCmdExecutor, its two CodecBufferPools and *)
(* the CodecBuffers in them.                                               *)
(*                                                                         *)
(* Threads: the filter's Task that queues input ("queuer"), the one that   *)
(* queues output buffers, the player's, which opens, flushes and stops, and *)
(* the one on which the component calls back ("component").  The component *)
(* is external: it takes commands in order, decodes one input buffer into  *)
(* one output buffer, and calls back in the order of what it did.          *)
(* A frame is its number; a frame of 0 is an output buffer returned empty. *)
(* Both ports are enabled; every call to the component that its state       *)
(* allows is answered HDF_SUCCESS.                                          *)
(***************************************************************************)
EXTENDS Integers, Sequences, FiniteSets, FiniteSetsExt, Functions

CONSTANTS InCount, OutCount,    \* nBufferCountActual of the two ports
          OutPluginBuffers,     \* the buffers of the filter's pool
          MaxHdiFrames, MaxHdiCalls, MaxHdiErrors,
          MaxStalls             \* bound of the waits that last more than 2 s

ASSUME HdiAssumption ==
    /\ InCount \in Nat \ {0} /\ OutCount \in Nat \ {0}
    /\ OutPluginBuffers \subseteq Nat \ {0} /\ Cardinality(OutPluginBuffers) >= OutCount
    /\ {MaxHdiFrames, MaxHdiCalls, MaxHdiErrors, MaxStalls} \subseteq Nat

VARIABLES
    hdiTodo,        \* the steps left of the player's call
    hdiLife,        \* "closed", "opening", "running", "flushing", "stopping", "stopped" or "failed"
    hdiFlags,       \* isFlushing_, isFirstCall_, curState_, targetState_, portConfigured_, counts
    inPort,         \* inBufQue_, freeBufferId_ of inBufPool_, and the frame in each CodecBuffer
    outPort,        \* outBufQue_ and whether it is active, freeBufferId_ of outBufPool_, and the
                    \* plug-in buffer bound to each CodecBuffer, 0 for none
    executor,       \* lastCmd_, and resultMap_ of OMX_CommandStateSet and OMX_CommandFlush
    component,      \* its state, the ids it has, its commands
    callbacks,      \* what it has still to call
    queuerAt, callbackAt,   \* where these threads are
    hdiCount        \* frames, calls, errors and stalls so far

hdiVars == <<hdiTodo, hdiLife, hdiFlags, inPort, outPort, executor, component, callbacks,
             queuerAt, callbackAt, hdiCount>>

InIds == 0 .. InCount - 1
OutIds == 0 .. OutCount - 1
Bound == {outPort.bound[i] : i \in OutIds} \ {0}
Away == [at |-> "away", frame |-> 0, id |-> 0, buffer |-> 0]

HdiTypeOK ==
    /\ hdiLife \in {"closed", "opening", "running", "flushing", "stopping", "stopped", "failed"}
    /\ inPort.free \subseteq InIds /\ outPort.free \subseteq OutIds
    /\ Range(outPort.que) \subseteq OutPluginBuffers /\ Bound \subseteq OutPluginBuffers
    /\ executor.flush \in Seq({"INVALID", "SUCCESS", "FAIL"})
    /\ {queuerAt.at, callbackAt.at} \subseteq
           {"away", "test", "count", "take", "send", "done", "drop", "notify", "fill"}

HdiInit ==
    /\ hdiTodo = <<>> /\ hdiLife = "closed"
    /\ hdiFlags = [flushing |-> FALSE, first |-> TRUE, cur |-> "Invalid", target |-> "Invalid",
                   configured |-> FALSE, inCount |-> 0, outCount |-> 0]
    /\ inPort = [que |-> <<>>, free |-> {}, frame |-> [i \in InIds |-> 0]]
    /\ outPort = [que |-> <<>>, active |-> TRUE, free |-> {}, bound |-> [i \in OutIds |-> 0]]
    /\ executor = [last |-> "none", state |-> "Invalid", flush |-> <<"INVALID", "INVALID">>]
    /\ component = [state |-> "Loaded", ins |-> <<>>, outs |-> {}, cmds |-> <<>>]
    /\ callbacks = <<>>
    /\ queuerAt = Away /\ callbackAt = Away
    /\ hdiCount = [frames |-> 0, calls |-> 0, errors |-> 0, stalls |-> 0]

-----------------------------------------------------------------------------
(* FillAllTheOutBuffer, under its mutex.                                   *)

\* A component that does not execute refuses a buffer.
Refuses == component.state # "Executing"

\* The k-th of a set of ids, which are taken in this order.
Rank(i, ids) == Cardinality({j \in ids : j <= i})

FillAllTheOutBuffer ==
    LET n == Min({Len(outPort.que), Cardinality(outPort.free)})
        ids == {i \in outPort.free : Rank(i, outPort.free) <= n}
    IN  IF hdiFlags.first
        THEN /\ hdiFlags' = [hdiFlags EXCEPT !.first = FALSE]
             /\ outPort' = [outPort EXCEPT !.free = {}]
             /\ component' = [component EXCEPT !.outs = @ \cup outPort.free]
        ELSE IF ~outPort.active \/ n = 0 THEN UNCHANGED <<outPort, component, hdiFlags>>
        ELSE IF Refuses
        THEN outPort' = [outPort EXCEPT !.que = <<>>] /\ UNCHANGED <<component, hdiFlags>>
        ELSE /\ outPort' = [outPort EXCEPT
                    !.que = SubSeq(@, n + 1, Len(@)), !.free = @ \ ids,
                    !.bound = [i \in OutIds |-> IF i \in ids THEN outPort.que[Rank(i, ids)] ELSE @[i]]]
             /\ component' = [component EXCEPT !.outs = @ \cup ids]
             /\ UNCHANGED hdiFlags

-----------------------------------------------------------------------------
(* HandleFrame, by the queuer and by the component's thread.               *)

\* EmptyBufferCount is not under lockInputBuffers_.
CountsFree(pc, leaves) ==
    /\ pc.at = "count"
    /\ IF inPort.free = {} THEN leaves ELSE pc' = [pc EXCEPT !.at = "take"]

\* Another may have taken the id that was counted: Pop(1) answers 0 then.
TakesFrame(pc, leaves) ==
    LET id == IF inPort.free = {} THEN 0 ELSE Min(inPort.free) IN
    /\ pc.at = "take"
    /\ IF inPort.que = <<>> THEN leaves /\ UNCHANGED inPort
       ELSE /\ pc' = [pc EXCEPT !.at = "send", !.frame = Head(inPort.que), !.id = id]
            /\ inPort' = [inPort EXCEPT !.que = Tail(@), !.free = @ \ {id}]

\* Copy or Rebind, then EmptyThisBuffer; of a buffer that is refused nobody frees the id.
SendsFrame(pc) ==
    /\ pc.at = "send" /\ pc' = [Away EXCEPT !.at = "count"]
    /\ inPort' = [inPort EXCEPT !.frame[pc.id] = pc.frame]
    /\ component' = IF Refuses THEN component ELSE [component EXCEPT !.ins = Append(@, pc.id)]

HandlesFrame(pc, leaves) ==
    \/ CountsFree(pc, leaves) /\ UNCHANGED <<inPort, component>>
    \/ TakesFrame(pc, leaves) /\ UNCHANGED component
    \/ SendsFrame(pc)

-----------------------------------------------------------------------------
(* The filter's threads.                                                   *)

\* They are at work from Configure on, and paused before a flush of the filter.
MayQueue == hdiLife \in {"running", "stopping"}

QueueInputBuffer ==
    /\ MayQueue /\ queuerAt.at = "away" /\ hdiCount.frames < MaxHdiFrames
    /\ inPort' = [inPort EXCEPT !.que = Append(@, hdiCount.frames + 1)]
    /\ hdiCount' = [hdiCount EXCEPT !.frames = @ + 1]
    /\ queuerAt' = [Away EXCEPT !.at = "test"]
    /\ UNCHANGED <<hdiTodo, hdiLife, hdiFlags, outPort, executor, component, callbacks, callbackAt>>

QueuerGoesOn ==
    /\ \/ /\ queuerAt.at = "test"
          /\ queuerAt' = IF hdiFlags.flushing THEN Away ELSE [Away EXCEPT !.at = "count"]
          /\ UNCHANGED <<inPort, component>>
       \/ HandlesFrame(queuerAt, queuerAt' = Away)
    /\ UNCHANGED <<hdiTodo, hdiLife, hdiFlags, outPort, executor, callbacks, callbackAt, hdiCount>>

\* A buffer of the pool: neither queued, nor bound, nor on its way to the filter.
Pooled == OutPluginBuffers \ (Range(outPort.que) \cup Bound \cup {callbackAt.buffer})

\* Push waits while the queue is full, and ignores what it gets when it is inactive.
QueueOutputBuffer ==
    /\ MayQueue /\ Pooled # {}
    /\ ~outPort.active \/ Len(outPort.que) < OutCount
    /\ outPort' = IF outPort.active THEN [outPort EXCEPT !.que = Append(@, Min(Pooled))] ELSE outPort
    /\ outPort' # outPort
    /\ UNCHANGED <<hdiTodo, hdiLife, hdiFlags, inPort, executor, component, callbacks, queuerAt,
                   callbackAt, hdiCount>>

\* The rest of it.
OutputGoesOn ==
    /\ MayQueue /\ outPort.que # <<>> /\ hdiFlags.cur = "Executing" /\ ~hdiFlags.flushing
    /\ FillAllTheOutBuffer
    /\ UNCHANGED <<hdiTodo, hdiLife, inPort, executor, callbacks, queuerAt, callbackAt, hdiCount>>

-----------------------------------------------------------------------------
(* The component (external).                                               *)

EmptiedBy(i) == [what |-> "emptied", id |-> i, frame |-> 0]
FilledBy(i, f) == [what |-> "filled", id |-> i, frame |-> f]
HdiEvent(e, arg) == [what |-> e, id |-> 0, frame |-> arg]

Decodes ==
    /\ component.state = "Executing" /\ component.ins # <<>>
    /\ LET in == Head(component.ins) IN
       \E out \in component.outs :
           /\ component' = [component EXCEPT !.ins = Tail(@), !.outs = @ \ {out}]
           /\ callbacks' = callbacks \o <<EmptiedBy(in), FilledBy(out, inPort.frame[in])>>
    /\ UNCHANGED <<hdiTodo, hdiLife, hdiFlags, inPort, outPort, executor, queuerAt, callbackAt, hdiCount>>

\* It cannot decode what it got, and says so.
Complains ==
    /\ component.state = "Executing" /\ component.ins # <<>> /\ hdiCount.errors < MaxHdiErrors
    /\ component' = [component EXCEPT !.ins = Tail(@)]
    /\ callbacks' = callbacks \o <<EmptiedBy(Head(component.ins)), HdiEvent("error", 0)>>
    /\ hdiCount' = [hdiCount EXCEPT !.errors = @ + 1]
    /\ UNCHANGED <<hdiTodo, hdiLife, hdiFlags, inPort, outPort, executor, queuerAt, callbackAt>>

ReturnedIns == [k \in 1 .. Len(component.ins) |-> EmptiedBy(component.ins[k])]
ReturnedOuts == LET n == Cardinality(component.outs) IN
    [k \in 1 .. n |-> FilledBy(CHOOSE i \in component.outs : Rank(i, component.outs) = k, 0)]

Obeys ==
    LET cmd == Head(component.cmds)
        ins == cmd.port # "out" /\ cmd.to # "Executing"
        outs == cmd.port # "in" /\ cmd.to # "Executing"
    IN  /\ component.cmds # <<>>
        /\ component' = [component EXCEPT !.cmds = Tail(@),
                            !.state = IF cmd.port = "none" THEN cmd.to ELSE @,
                            !.ins = IF ins THEN <<>> ELSE @,
                            !.outs = IF outs THEN {} ELSE @]
        /\ callbacks' = callbacks \o (IF ins THEN ReturnedIns ELSE <<>>)
                                  \o (IF outs THEN ReturnedOuts ELSE <<>>)
                                  \o <<HdiEvent("complete", cmd)>>
        /\ UNCHANGED <<hdiTodo, hdiLife, hdiFlags, inPort, outPort, executor, queuerAt, callbackAt, hdiCount>>

-----------------------------------------------------------------------------
(* Its callbacks, one after the other.                                     *)

Called == Head(callbacks)

EmptyBufferDone ==
    /\ callbacks # <<>> /\ Called.what = "emptied" /\ callbackAt.at = "away"
    /\ inPort' = [inPort EXCEPT !.free = @ \cup {Called.id}]
    /\ callbacks' = Tail(callbacks)
    /\ callbackAt' = [Away EXCEPT !.at = "test"]
    /\ UNCHANGED <<hdiTodo, hdiLife, hdiFlags, outPort, executor, component, queuerAt, hdiCount>>

EmptyBufferDoneGoesOn ==
    /\ \/ /\ callbackAt.at = "test"
          /\ callbackAt' = IF hdiFlags.flushing THEN Away ELSE [Away EXCEPT !.at = "count"]
          /\ UNCHANGED <<inPort, component>>
       \/ HandlesFrame(callbackAt, callbackAt' = Away)
    /\ UNCHANGED <<hdiTodo, hdiLife, hdiFlags, outPort, executor, callbacks, queuerAt, hdiCount>>

\* Unbind, UseBufferDone, the test of isFlushing_, the notification, the next buffers.
Unbinds ==
    /\ callbacks # <<>> /\ Called.what = "filled" /\ callbackAt.at = "away"
    /\ outPort' = [outPort EXCEPT !.bound[Called.id] = 0]
    /\ callbackAt' = [Away EXCEPT !.at = "done", !.buffer = outPort.bound[Called.id], !.id = Called.id]
    /\ UNCHANGED <<inPort, component, callbacks, hdiFlags>>

UsesBufferDone ==
    /\ callbackAt.at = "done"
    /\ outPort' = [outPort EXCEPT !.free = @ \cup {callbackAt.id}]
    /\ callbackAt' = [callbackAt EXCEPT !.at = "drop"]
    /\ UNCHANGED <<inPort, component, callbacks, hdiFlags>>

FillBufferDone ==
    /\ \/ Unbinds
       \/ UsesBufferDone
       \/ /\ callbackAt.at = "drop"
          /\ IF hdiFlags.flushing THEN callbackAt' = Away /\ callbacks' = Tail(callbacks)
             ELSE callbackAt' = [callbackAt EXCEPT !.at = "notify"] /\ UNCHANGED callbacks
          /\ UNCHANGED <<inPort, outPort, component, hdiFlags>>
       \/ /\ callbackAt.at = "notify"
          /\ callbackAt' = [callbackAt EXCEPT !.at = "fill", !.buffer = 0]
          /\ UNCHANGED <<inPort, outPort, component, callbacks, hdiFlags>>
       \/ /\ callbackAt.at = "fill"
          /\ callbackAt' = Away /\ callbacks' = Tail(callbacks)
          /\ FillAllTheOutBuffer /\ UNCHANGED inPort
    /\ UNCHANGED <<hdiTodo, hdiLife, executor, queuerAt, hdiCount>>

\* The completion of the output port's flush writes the second result over the first.
Completed(cmd) ==
    LET pair == executor.flush IN
    CASE cmd.port = "none" -> [executor EXCEPT !.last = "done", !.state = cmd.to]
      [] cmd.port = "in" -> [executor EXCEPT !.last = "done", !.flush = <<"SUCCESS", pair[2]>>]
      [] cmd.port = "out" -> [executor EXCEPT !.last = "done", !.flush = <<pair[2], "SUCCESS">>]

Erred == [executor EXCEPT !.last = "error"]

OnEvent ==
    /\ callbacks # <<>> /\ callbackAt.at = "away" /\ Called.what \in {"complete", "error"}
    /\ executor' = IF Called.what = "error" THEN Erred
                   ELSE Completed(Called.frame)
    /\ callbacks' = Tail(callbacks)
    /\ UNCHANGED <<hdiTodo, hdiLife, hdiFlags, inPort, outPort, component, queuerAt, callbackAt, hdiCount>>

-----------------------------------------------------------------------------
(* The player's calls.                                                     *)

StartHdi == <<"to Executing", "wait Executing", "fill">>
OpenHdi == <<"configure", "queue all", "to Idle", "use buffers", "wait Idle">> \o StartHdi
FlushHdi == <<"flushing", "clear in", "flush in", "wait in", "flush out", "wait out", "flushed">>
FreeHdi == <<"to Loaded", "free", "wait Loaded">>
ResetHdi == <<"to Idle", "wait Idle">> \o FreeHdi \o <<"clear">>

HdiCall(c) ==
    /\ hdiTodo = <<>> /\ hdiCount.calls < MaxHdiCalls
    /\ \/ /\ c = "Open" /\ hdiLife \in {"closed", "stopped"} /\ hdiLife' = "opening"
          /\ hdiTodo' = (IF hdiLife = "stopped" THEN ResetHdi ELSE <<>>) \o OpenHdi
       \/ /\ c = "Flush" /\ hdiLife = "running" /\ hdiLife' = "flushing"
          /\ queuerAt.at = "away" /\ hdiTodo' = FlushHdi
       \/ /\ c = "Stop" /\ hdiLife = "running" /\ hdiLife' = "stopping"
          /\ hdiTodo' = FlushHdi \o <<"out off">>
    /\ hdiCount' = [hdiCount EXCEPT !.calls = @ + 1]
    /\ UNCHANGED <<hdiFlags, inPort, outPort, executor, component, callbacks, queuerAt, callbackAt>>

\* Once Stop is over the filter's threads are stopped.
HdiReturns ==
    /\ hdiTodo = <<>> /\ hdiLife \in {"opening", "flushing", "stopping"}
    /\ hdiLife = "stopping" => queuerAt.at = "away"
    /\ hdiLife' = IF hdiLife = "stopping" THEN "stopped" ELSE "running"
    /\ UNCHANGED <<hdiTodo, hdiFlags, inPort, outPort, executor, component, callbacks, queuerAt,
                   callbackAt, hdiCount>>

Commands(cmd) == component' = [component EXCEPT !.cmds = Append(@, cmd)]

\* ConfigOmx asks the ports, once in the plug-in's life.
QueryParam(flags) == [flags EXCEPT !.inCount = InCount, !.outCount = OutCount]

ConfigOmx ==
    /\ hdiFlags' = IF hdiFlags.configured THEN hdiFlags
                   ELSE [QueryParam(hdiFlags) EXCEPT !.configured = TRUE]
    /\ UNCHANGED <<inPort, outPort, executor, component>>

\* QueueAllBufferInPoolToPluginLocked, into a queue that may be inactive.
QueuesAll ==
    /\ outPort' = IF outPort.active
                  THEN [outPort EXCEPT !.que = [i \in 1 .. OutCount |-> i]] ELSE outPort
    /\ UNCHANGED <<hdiFlags, inPort, executor, component>>

ChangeState(s) ==
    /\ IF hdiFlags.target # s /\ hdiFlags.cur # s
       THEN /\ Commands([port |-> "none", to |-> s])
            /\ hdiFlags' = [hdiFlags EXCEPT !.target = s]
            /\ executor' = [executor EXCEPT !.state = "Invalid"]
       ELSE UNCHANGED <<component, hdiFlags, executor>>
    /\ UNCHANGED <<inPort, outPort>>

UseBuffers ==
    /\ inPort' = [inPort EXCEPT !.free = 0 .. hdiFlags.inCount - 1]
    /\ outPort' = [outPort EXCEPT !.active = TRUE, !.que = <<>>,
                      !.free = {i \in OutIds : i < Len(outPort.que)},
                      !.bound = [i \in OutIds |-> IF i < Len(outPort.que) THEN outPort.que[i + 1] ELSE 0]]
    /\ UNCHANGED <<hdiFlags, executor, component>>

SendFlush(p) ==
    /\ Commands([port |-> p, to |-> "Flush"])
    /\ UNCHANGED <<hdiFlags, inPort, outPort, executor>>

FreeBuffers ==
    /\ inPort' = [inPort EXCEPT !.free = {}]
    /\ outPort' = [outPort EXCEPT !.free = {}, !.bound = [i \in OutIds |-> 0]]
    /\ UNCHANGED <<hdiFlags, executor, component>>

\* Reset forgets the counts, but neither that the ports were configured nor that the
\* first buffers were handed over.
ResetClears ==
    /\ hdiFlags' = [hdiFlags EXCEPT !.inCount = 0, !.outCount = 0]
    /\ outPort' = [outPort EXCEPT !.active = FALSE, !.que = <<>>]
    /\ inPort' = [inPort EXCEPT !.que = <<>>]
    /\ UNCHANGED <<executor, component>>

SetsFlushing(b) == hdiFlags' = [hdiFlags EXCEPT !.flushing = b] /\ UNCHANGED <<inPort, outPort, executor, component>>
ClearsInput == inPort' = [inPort EXCEPT !.que = <<>>] /\ UNCHANGED <<hdiFlags, outPort, executor, component>>
OutOff == outPort' = [outPort EXCEPT !.active = FALSE] /\ UNCHANGED <<hdiFlags, inPort, executor, component>>

HdiDoes(step) ==
    /\ hdiTodo # <<>> /\ Head(hdiTodo) = step /\ hdiTodo' = Tail(hdiTodo)
    /\ CASE step = "configure" -> ConfigOmx
         [] step = "queue all" -> QueuesAll
         [] step = "to Idle" -> ChangeState("Idle")
         [] step = "to Loaded" -> ChangeState("Loaded")
         [] step = "to Executing" -> ChangeState("Executing")
         [] step = "use buffers" -> UseBuffers
         [] step = "fill" -> FillAllTheOutBuffer /\ UNCHANGED <<inPort, executor>>
         [] step = "flushing" -> SetsFlushing(TRUE)
         [] step = "flushed" -> SetsFlushing(FALSE)
         [] step = "clear in" -> ClearsInput
         [] step = "flush in" -> SendFlush("in")
         [] step = "flush out" -> SendFlush("out")
         [] step = "out off" -> OutOff
         [] step = "free" -> FreeBuffers
         [] step = "clear" -> ResetClears
    /\ UNCHANGED <<hdiLife, callbacks, queuerAt, callbackAt, hdiCount>>

Steps2Do == {"configure", "queue all", "to Idle", "to Loaded", "to Executing", "use buffers", "fill",
             "flushing", "flushed", "clear in", "flush in", "flush out", "out off", "free", "clear"}

\* WaitCmdResult: what its predicate makes of the results, and whether it is content.
Looked(w) ==
    LET pair == executor.flush IN
    CASE w = "wait in" -> [flush |-> <<"INVALID", pair[2]>>, ok |-> pair[1] = "SUCCESS"]
      [] w = "wait out" -> [flush |-> IF pair[2] # "INVALID" THEN <<pair[2], "INVALID">> ELSE pair,
                            ok |-> pair[2] = "SUCCESS"]
      [] OTHER -> [flush |-> pair, ok |-> w = "wait " \o executor.state]

FailedResult(w) ==
    CASE w = "wait in" -> [executor EXCEPT !.flush = <<"FAIL", @[2]>>]
      [] w = "wait out" -> [executor EXCEPT !.flush = <<@[2], "FAIL">>]
      [] OTHER -> [executor EXCEPT !.state = "Invalid"]

Waited(w) == hdiTodo # <<>> /\ Head(hdiTodo) = w

\* WaitForState sets curState_; the wait for a flush does not.
Arrives(w) ==
    /\ hdiTodo' = Tail(hdiTodo)
    /\ hdiFlags' = CASE w = "wait Idle" -> [hdiFlags EXCEPT !.cur = "Idle"]
                     [] w = "wait Loaded" -> [hdiFlags EXCEPT !.cur = "Loaded"]
                     [] w = "wait Executing" -> [hdiFlags EXCEPT !.cur = "Executing"]
                     [] OTHER -> hdiFlags

WaitCmdResult(w) ==
    /\ Waited(w)
    /\ \/ /\ executor.last = "error"    \* whatever command the error was about
          /\ executor' = FailedResult(w)
          /\ hdiTodo' = <<>> /\ hdiLife' = "failed" /\ UNCHANGED <<hdiFlags, hdiCount>>
       \/ /\ executor.last # "error" /\ Looked(w).ok
          /\ executor' = [executor EXCEPT !.flush = Looked(w).flush]
          /\ Arrives(w) /\ UNCHANGED <<hdiLife, hdiCount>>
       \/ /\ executor.last # "error" /\ ~Looked(w).ok /\ hdiCount.stalls < MaxStalls
          /\ Arrives(w) /\ hdiCount' = [hdiCount EXCEPT !.stalls = @ + 1]
          /\ UNCHANGED <<executor, hdiLife>>
    /\ UNCHANGED <<inPort, outPort, component, callbacks, queuerAt, callbackAt>>

Waits == {"wait Idle", "wait Loaded", "wait Executing", "wait in", "wait out"}

HdiNext ==
    \/ QueueInputBuffer \/ QueuerGoesOn \/ QueueOutputBuffer \/ OutputGoesOn
    \/ Decodes \/ Complains \/ Obeys
    \/ EmptyBufferDone \/ EmptyBufferDoneGoesOn \/ FillBufferDone \/ OnEvent
    \/ \E c \in {"Open", "Flush", "Stop"} : HdiCall(c)
    \/ HdiReturns
    \/ \E s \in Steps2Do : HdiDoes(s)
    \/ \E w \in Waits : WaitCmdResult(w)

HdiSpec == HdiInit /\ [][HdiNext]_hdiVars

-----------------------------------------------------------------------------
(* Properties.                                                             *)

\* While the component answers every command within 2 s, every output buffer it has is
\* bound to a plug-in buffer of its own, which is neither queued for another nor on its
\* way to the filter, and no buffer is with the component and free: a frame is never
\* decoded into a buffer that is shown.  WaitCmdResult returns success when the 2 s are
\* over, and Reset then frees what the component still has.
HdiOutputsAreBound ==
    hdiCount.stalls = 0 =>
        /\ \A i \in component.outs :
               /\ outPort.bound[i] # 0 /\ i \notin outPort.free
               /\ outPort.bound[i] \notin Range(outPort.que)
               /\ callbackAt.buffer # outPort.bound[i]
        /\ \A i, j \in OutIds : outPort.bound[i] = outPort.bound[j] => i = j \/ outPort.bound[i] = 0

\* Every input buffer is with the component once: not so, when the queuer and the
\* component's thread count the same free id.
HdiInputsAreSentOnce ==
    \A k, l \in 1 .. Len(component.ins) : component.ins[k] = component.ins[l] => k = l

\* isFlushing_ is set while a flush runs, and no longer: not so, when an error the
\* component reported earlier makes a wait of Flush fail.
FlushingIsOver == hdiFlags.flushing => hdiTodo # <<>>

\* A plug-in that was reset and started again has input buffers: not so, for Reset
\* forgets their number and ConfigOmx is not called again.
ReopenedHasBuffers ==
    hdiLife = "running" => inPort.free # {} \/ component.ins # <<>> \/ callbacks # <<>>
                           \/ queuerAt.at = "send" \/ callbackAt.at = "send"
=============================================================================
