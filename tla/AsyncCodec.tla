----------------------------- MODULE AsyncCodec -----------------------------
(***************************************************************************)
(* A codec filter of the engine in its asynchronous mode, between the      *)
(* demuxer's thread and the sink: CodecFilterBase, AudioDecoderFilter,     *)
(* AsyncMode, its BlockingQueue of input, its BufferPool of output, the    *)
(* ffmpeg audio decoder plug-in and the three Tasks of the mode.           *)
(*                                                                         *)
(* Four threads work on a stream: the demuxer reads frame 1, 2, ... Eos    *)
(* and pushes each into inBufQue; "handle" sends it to the decoder;        *)
(* "decode" takes decoded frames into free output buffers; "push" gives    *)
(* them to the sink.  A fifth, the player, flushes (seek), stops and       *)
(* prepares again: each of its calls is the sequence of steps the code     *)
(* takes, in the order of the code.  A seek or a restart begins a new      *)
(* generation of frames.                                                   *)
(*                                                                         *)
(* The libavcodec context is external: a decoder that holds at most        *)
(* CodecDepth frames, refuses input when full and drains after Eos.        *)
(***************************************************************************)
EXTENDS Integers, Sequences, SequencesExt

CONSTANTS Eos,          \* number of the last frame of a generation, the EOS frame
          InCap,        \* capacity of inBufQue_
          OutCap,       \* buffers in outBufPool_
          CodecDepth,   \* frames the decoder holds before it refuses input
          CodecCalls,   \* the calls the player makes: a subset of the three below
          MaxCalls      \* bound on the number of those calls

ASSUME CodecAssumption ==
    /\ {Eos, InCap, OutCap, CodecDepth} \subseteq Nat \ {0}
    /\ MaxCalls \in Nat
    /\ CodecCalls \subseteq {"Flush", "Stop", "Restart"}

VARIABLES
    gen,         \* generation of the frames the demuxer reads now
    nextFrame,   \* number of the frame it reads next
    inBufQue, inActive,
    stopped, isFlushing, codecState,      \* stopped_, isFlushing_, state_
    needInput,                            \* isNeedQueueInputBuffer_
    ctxOpen, decoded, draining,           \* avCodecContext_ and what it holds
    outFree, outActive, outBufQue,
    run,         \* running state of each Task
    at,          \* where each thread is in its handler
    hold,        \* the frame each thread has in hand
    last,        \* last frame the sink received
    call, todo, calls   \* the player's call, its remaining steps, calls made

codecVars == <<gen, nextFrame, inBufQue, inActive, stopped, isFlushing, codecState,
               needInput, ctxOpen, decoded, draining, outFree, outActive, outBufQue,
               run, at, hold, last, call, todo, calls>>

Threads == {"demux", "handle", "decode", "push"}
Frame == [gen : Nat, n : 1 .. Eos]
NoFrame == [gen |-> 0, n |-> 0]
IsEos(f) == f.n = Eos
Places == {"idle", "check", "queue", "again", "wait", "asleep", "alloc", "receive",
           "done", "kick", "starved", "deliver"}

CodecTypeOK ==
    /\ gen \in Nat /\ nextFrame \in 1 .. Eos + 1
    /\ inBufQue \in Seq(Frame) /\ Len(inBufQue) <= InCap
    /\ outBufQue \in Seq(Frame) /\ decoded \in Seq(Frame) /\ Len(decoded) <= CodecDepth
    /\ {inActive, stopped, isFlushing, needInput, ctxOpen, outActive} \subseteq BOOLEAN
    /\ codecState \in {"INITIALIZED", "PREPARING", "READY"}
    /\ outFree \in 0 .. OutCap
    /\ draining \in Frame \union {NoFrame} /\ last \in Frame \union {NoFrame}
    /\ run \in [Threads -> {"STARTED", "PAUSING", "PAUSED", "STOPPING", "STOPPED"}]
    /\ at \in [Threads -> Places]
    /\ hold \in [Threads -> Frame \union {NoFrame}]
    /\ calls \in 0 .. MaxCalls

\* The stream is prepared and configured: the tasks of the mode run, and the demuxer.
CodecInit ==
    /\ gen = 1 /\ nextFrame = 1
    /\ inBufQue = <<>> /\ inActive = TRUE
    /\ stopped = FALSE /\ isFlushing = FALSE /\ codecState = "READY"
    /\ needInput = TRUE
    /\ ctxOpen = TRUE /\ decoded = <<>> /\ draining = NoFrame
    /\ outFree = OutCap /\ outActive = TRUE /\ outBufQue = <<>>
    /\ run = [t \in Threads |-> "STARTED"]
    /\ at = [t \in Threads |-> "idle"]
    /\ hold = [t \in Threads |-> NoFrame]
    /\ last = NoFrame
    /\ call = "none" /\ todo = <<>> /\ calls = 0

-----------------------------------------------------------------------------
(* Tasks: a thread in its handler, Task::PauseAsync, and Task::Run between *)
(* two calls of the handler.                                               *)

codecQueues == <<inBufQue, inActive, outFree, outActive, outBufQue>>
codecFlags  == <<stopped, isFlushing, codecState>>
codecPlugin == <<ctxOpen, decoded, draining>>
player      == <<call, todo, calls>>
demuxed     == <<gen, nextFrame>>

PausedAsync(t) == IF run[t] = "STARTED" THEN [run EXCEPT ![t] = "PAUSING"] ELSE run

Goes(t, place) == at' = [at EXCEPT ![t] = place]
Enters(t, place) == run[t] = "STARTED" /\ at[t] = "idle" /\ Goes(t, place)

\* cv_.NotifyOne(): "handle" is the only thread that waits on cv_.
Woken(a) == IF a["handle"] = "asleep" THEN [a EXCEPT !["handle"] = "queue"] ELSE a

TaskSettles(t) ==
    /\ at[t] = "idle"
    /\ run[t] \in {"PAUSING", "STOPPING"}
    /\ run' = [run EXCEPT ![t] = IF @ = "PAUSING" THEN "PAUSED" ELSE "STOPPED"]
    /\ UNCHANGED <<demuxed, codecQueues, codecFlags, needInput, codecPlugin, at, hold, last, player>>

-----------------------------------------------------------------------------
(* The demuxer's thread: DemuxerLoop, CodecFilterBase::PushData and        *)
(* AsyncMode::PushData.  At the end of the stream it pushes Eos and pauses.*)

DemuxReads ==
    /\ nextFrame <= Eos
    /\ Enters("demux", "check")
    /\ hold' = [hold EXCEPT !["demux"] = [gen |-> gen, n |-> nextFrame]]
    /\ nextFrame' = nextFrame + 1
    /\ UNCHANGED <<gen, codecQueues, codecFlags, needInput, codecPlugin, run, last, player>>

DemuxDone == run' = IF IsEos(hold["demux"]) THEN PausedAsync("demux") ELSE run

\* The filter drops the frame when it is in no state to take it or flushes;
\* the mode drops it when it is stopped.
DemuxChecks ==
    /\ at["demux"] = "check"
    /\ IF codecState = "READY" /\ ~isFlushing /\ ~stopped
          THEN Goes("demux", "queue") /\ UNCHANGED run
          ELSE Goes("demux", "idle") /\ DemuxDone
    /\ UNCHANGED <<demuxed, codecQueues, codecFlags, needInput, codecPlugin, hold, last, player>>

\* BlockingQueue::Push: waits while the queue is active and full, fails when it is not active.
DemuxPushes ==
    /\ at["demux"] = "queue"
    /\ ~inActive \/ Len(inBufQue) < InCap
    /\ inBufQue' = IF inActive THEN Append(inBufQue, hold["demux"]) ELSE inBufQue
    /\ Goes("demux", "idle")
    /\ DemuxDone
    /\ UNCHANGED <<demuxed, inActive, outFree, outActive, outBufQue, codecFlags, needInput,
                   codecPlugin, hold, last, player>>

-----------------------------------------------------------------------------
(* "handle": AsyncMode::HandleFrame, AudioFfmpegDecoderPlugin::            *)
(* QueueInputBuffer and SendBufferLocked.                                  *)

HandleEnters ==
    /\ Enters("handle", "alloc")
    /\ UNCHANGED <<demuxed, codecQueues, codecFlags, needInput, codecPlugin, run, hold, last, player>>

\* BlockingQueue::Pop: waits while the queue is active and empty.
HandlePops ==
    /\ at["handle"] = "alloc"
    /\ \/ /\ ~inActive
          /\ Goes("handle", "idle")
          /\ UNCHANGED <<inBufQue, hold>>
       \/ /\ inActive /\ inBufQue # <<>>
          /\ hold' = [hold EXCEPT !["handle"] = Head(inBufQue)]
          /\ inBufQue' = Tail(inBufQue)
          /\ Goes("handle", "queue")
    /\ UNCHANGED <<demuxed, inActive, outFree, outActive, outBufQue, codecFlags, needInput,
                   codecPlugin, run, last, player>>

\* The end of HandleFrame for the frame in hand, after which the task rests at Eos.
HandleLeaves ==
    /\ Goes("handle", "idle")
    /\ run' = IF IsEos(hold["handle"]) THEN PausedAsync("handle") ELSE run

\* The status of plugin_->QueueInputBuffer(oneBuffer, 0), under avMutex_.
QueueInputStatus ==
    IF ~ctxOpen THEN "WRONG_STATE"
    ELSE IF draining # NoFrame THEN "END_OF_STREAM"
    ELSE IF Len(decoded) >= CodecDepth THEN "AGAIN" ELSE "OK"

HandleQueues ==
    /\ at["handle"] = "queue"
    /\ IF QueueInputStatus = "OK"
          THEN IF IsEos(hold["handle"])
                  THEN draining' = hold["handle"] /\ UNCHANGED decoded
                  ELSE decoded' = Append(decoded, hold["handle"]) /\ UNCHANGED draining
          ELSE UNCHANGED <<decoded, draining>>
    /\ IF QueueInputStatus = "AGAIN"
          THEN Goes("handle", "again") /\ UNCHANGED run
          ELSE HandleLeaves
    /\ UNCHANGED <<demuxed, codecQueues, codecFlags, needInput, ctxOpen, hold, last, player>>

\* The test of stopped_, which no lock protects ...
HandleRefused ==
    /\ at["handle"] = "again"
    /\ IF stopped THEN HandleLeaves ELSE Goes("handle", "wait") /\ UNCHANGED run
    /\ UNCHANGED <<demuxed, codecQueues, codecFlags, needInput, codecPlugin, hold, last, player>>

\* ... and the wait, without a predicate, until somebody notifies.
HandleWaits ==
    /\ at["handle"] = "wait"
    /\ needInput' = FALSE
    /\ Goes("handle", "asleep")
    /\ UNCHANGED <<demuxed, codecQueues, codecFlags, codecPlugin, run, hold, last, player>>

-----------------------------------------------------------------------------
(* "decode": AsyncMode::DecodeFrame and OnOutputBufferDone,                *)
(* AudioFfmpegDecoderPlugin::QueueOutputBuffer, SendOutputBuffer and       *)
(* ReceiveBuffer.                                                          *)

DecodeEnters ==
    /\ Enters("decode", "alloc")
    /\ UNCHANGED <<demuxed, codecQueues, codecFlags, needInput, codecPlugin, run, hold, last, player>>

\* BufferPool::AllocateBuffer: waits while the pool is active and empty.
DecodeAllocates ==
    /\ at["decode"] = "alloc"
    /\ \/ ~outActive /\ Goes("decode", "idle") /\ UNCHANGED outFree
       \/ outActive /\ outFree > 0 /\ outFree' = outFree - 1 /\ Goes("decode", "receive")
    /\ UNCHANGED <<demuxed, inBufQue, inActive, outActive, outBufQue, codecFlags, needInput,
                   codecPlugin, run, hold, last, player>>

\* ReceiveBufferLocked: a frame; or the end, after which the decoder is flushed; or
\* nothing yet, and the buffer goes back to the pool.
DecodeReceives ==
    /\ at["decode"] = "receive"
    /\ \/ /\ ctxOpen /\ decoded # <<>>
          /\ hold' = [hold EXCEPT !["decode"] = Head(decoded)]
          /\ decoded' = Tail(decoded)
          /\ Goes("decode", "done")
          /\ UNCHANGED <<draining, outFree>>
       \/ /\ ctxOpen /\ decoded = <<>> /\ draining # NoFrame
          /\ hold' = [hold EXCEPT !["decode"] = draining]
          /\ draining' = NoFrame
          /\ Goes("decode", "done")
          /\ UNCHANGED <<decoded, outFree>>
       \/ /\ ~ctxOpen \/ (decoded = <<>> /\ draining = NoFrame)
          /\ outFree' = outFree + 1
          /\ Goes("decode", IF ctxOpen THEN "starved" ELSE "idle")
          /\ UNCHANGED <<decoded, draining, hold>>
    /\ UNCHANGED <<demuxed, inBufQue, inActive, outActive, outBufQue, codecFlags, needInput,
                   ctxOpen, run, last, player>>

\* OnOutputBufferDone up to the queue.  The plug-in's Stop has reset outBuffer_ when the
\* thread has no frame in hand: the buffer goes back and nothing is queued.
DecodeQueues ==
    /\ at["decode"] = "done"
    /\ IF hold["decode"] = NoFrame
          THEN /\ outFree' = outFree + 1
               /\ Goes("decode", "idle")
               /\ UNCHANGED <<outBufQue, outActive, run>>
          ELSE /\ outBufQue' = Append(outBufQue, hold["decode"])
               /\ outActive' = (outActive /\ ~IsEos(hold["decode"]))
               /\ run' = IF IsEos(hold["decode"]) THEN PausedAsync("decode") ELSE run
               /\ Goes("decode", "kick")
               /\ UNCHANGED outFree
    /\ UNCHANGED <<demuxed, inBufQue, inActive, codecFlags, needInput, codecPlugin, hold, last, player>>

\* The end of OnOutputBufferDone: the flag is read without the lock.
DecodeKicks ==
    /\ at["decode"] = "kick"
    /\ at' = [IF needInput THEN at ELSE Woken(at) EXCEPT !["decode"] = "idle"]
    /\ needInput' = TRUE
    /\ UNCHANGED <<demuxed, codecQueues, codecFlags, codecPlugin, run, hold, last, player>>

DecodeStarvesSilently ==   \* faulty: nobody is told that the decoder wants input
    /\ at["decode"] = "starved"
    /\ Goes("decode", "idle")
    /\ UNCHANGED <<demuxed, codecQueues, codecFlags, needInput, codecPlugin, run, hold, last, player>>

\* ERROR_NOT_ENOUGH_DATA: the waiting thread is notified, the flag is left as it is.
DecodeStarves ==
    /\ at["decode"] = "starved"
    /\ at' = [IF needInput THEN at ELSE Woken(at) EXCEPT !["decode"] = "idle"]
    /\ UNCHANGED <<demuxed, codecQueues, codecFlags, needInput, codecPlugin, run, hold, last, player>>

-----------------------------------------------------------------------------
(* "push": AsyncMode::FinishFrame.  An iteration that finds no frame       *)
(* changes nothing.                                                        *)

PushTakes ==
    /\ outBufQue # <<>>
    /\ Enters("push", "deliver")
    /\ hold' = [hold EXCEPT !["push"] = Head(outBufQue)]
    /\ outBufQue' = Tail(outBufQue)
    /\ UNCHANGED <<demuxed, inBufQue, inActive, outFree, outActive, codecFlags, needInput,
                   codecPlugin, run, last, player>>

\* The sink has the frame and the buffer goes back to the pool.
PushDelivers ==
    /\ at["push"] = "deliver"
    /\ last' = hold["push"]
    /\ outFree' = outFree + 1
    /\ run' = IF IsEos(hold["push"]) THEN PausedAsync("push") ELSE run
    /\ Goes("push", "idle")
    /\ UNCHANGED <<demuxed, inBufQue, inActive, outActive, outBufQue, codecFlags, needInput,
                   codecPlugin, hold, player>>

-----------------------------------------------------------------------------
(* The player's calls.  Pipeline FlushStart visits the decoder and then    *)
(* the demuxer, the player seeks, and FlushEnd visits them in that order.  *)

AllFlushStartSteps == <<"stop", "inQueOff", "kick", "pause handle", "poolOff", "pause decode",
                        "pause push", "clearOut", "flushing", "pluginFlush">>
FlushStartKeepsOutput ==   \* faulty: the decoded frames survive the flush
    SelectSeq(AllFlushStartSteps, LAMBDA s : s # "clearOut")
FlushStartKeepsInput ==    \* faulty: the input queue stays active
    SelectSeq(AllFlushStartSteps, LAMBDA s : s # "inQueOff")
FlushStartSteps == AllFlushStartSteps

FlushEndSteps == <<"unstop", "inQueOn", "kick", "start handle", "poolOn", "start decode",
                   "start push", "flushed">>
FlushSteps == FlushStartSteps \o <<"pause demux", "seek">> \o FlushEndSteps \o <<"start demux">>

\* CodecFilterBase::Stop: the plug-in first, the threads after it; then DemuxerFilter::Stop.
StopSteps == <<"pluginFlush", "pluginStop", "stop", "poolOff", "stop decode", "stop push",
               "inQueOff", "clearOut", "kick", "stop handle", "initialized", "stop demux">>

\* Prepare, then CodecFilterBase::Configure with AsyncMode::Configure.
RestartSteps == <<"inQueOn", "preparing", "newPool", "unstop", "pluginStart", "kick",
                  "start handle", "start decode", "start push", "ready", "seek", "start demux">>

Steps(c) == CASE c = "Flush" -> FlushSteps
              [] c = "Stop" -> StopSteps
              [] c = "Restart" -> RestartSteps

PlayerCalls(c) ==
    /\ todo = <<>> /\ calls < MaxCalls
    /\ (c = "Restart") = (codecState = "INITIALIZED")
    /\ call' = c /\ todo' = Steps(c) /\ calls' = calls + 1
    /\ UNCHANGED <<demuxed, codecQueues, codecFlags, needInput, codecPlugin, run, at, hold, last>>

Does(step) == todo # <<>> /\ Head(todo) = step /\ todo' = Tail(todo) /\ UNCHANGED <<call, calls>>

\* stopped_ of the mode, isFlushing_ and state_ of the filter.
SetsFlags ==
    /\ \/ Does("stop")        /\ stopped' = TRUE  /\ UNCHANGED <<isFlushing, codecState>>
       \/ Does("unstop")      /\ stopped' = FALSE /\ UNCHANGED <<isFlushing, codecState>>
       \/ Does("flushing")    /\ isFlushing' = TRUE  /\ UNCHANGED <<stopped, codecState>>
       \/ Does("flushed")     /\ isFlushing' = FALSE /\ UNCHANGED <<stopped, codecState>>
       \/ Does("initialized") /\ codecState' = "INITIALIZED" /\ UNCHANGED <<stopped, isFlushing>>
       \/ Does("preparing")   /\ codecState' = "PREPARING" /\ UNCHANGED <<stopped, isFlushing>>
       \/ Does("ready")       /\ codecState' = "READY" /\ UNCHANGED <<stopped, isFlushing>>
    /\ UNCHANGED <<demuxed, codecQueues, needInput, codecPlugin, run, at, hold, last>>

\* BlockingQueue::SetActive clears the queue it makes inactive; BufferPool::SetActive does not.
SetsQueues ==
    /\ \/ Does("inQueOff") /\ inActive' = FALSE /\ inBufQue' = <<>>
                           /\ UNCHANGED <<outFree, outActive, outBufQue>>
       \/ Does("inQueOn")  /\ inActive' = TRUE /\ UNCHANGED <<inBufQue, outFree, outActive, outBufQue>>
       \/ Does("poolOff")  /\ outActive' = FALSE /\ UNCHANGED <<inBufQue, inActive, outFree, outBufQue>>
       \/ Does("poolOn")   /\ outActive' = TRUE /\ UNCHANGED <<inBufQue, inActive, outFree, outBufQue>>
       \/ Does("newPool")  /\ outActive' = TRUE /\ outFree' = OutCap /\ UNCHANGED <<inBufQue, inActive, outBufQue>>
       \/ Does("clearOut") /\ outBufQue' = <<>> /\ outFree' = outFree + Len(outBufQue)
                           /\ UNCHANGED <<inBufQue, inActive, outActive>>
    /\ UNCHANGED <<demuxed, codecFlags, needInput, codecPlugin, run, at, hold, last>>

\* if (!isNeedQueueInputBuffer_) { lock; set it; notify }: the test is outside the lock.
PlayerKicks ==
    /\ Does("kick")
    /\ at' = IF needInput THEN at ELSE Woken(at)
    /\ needInput' = TRUE
    /\ UNCHANGED <<demuxed, codecQueues, codecFlags, codecPlugin, run, hold, last>>

\* The plug-in's Flush, Stop (which resets outBuffer_) and Start.
SetsPlugin ==
    /\ \/ Does("pluginFlush") /\ decoded' = <<>> /\ draining' = NoFrame /\ UNCHANGED <<ctxOpen, hold>>
       \/ Does("pluginStop")  /\ ctxOpen' = FALSE /\ decoded' = <<>> /\ draining' = NoFrame
                              /\ hold' = [hold EXCEPT !["decode"] = NoFrame]
       \/ Does("pluginStart") /\ ctxOpen' = TRUE /\ UNCHANGED <<decoded, draining, hold>>
    /\ UNCHANGED <<demuxed, codecQueues, codecFlags, needInput, run, at, last>>

\* The step of a call that pauses, stops or starts the Task of a thread.
TaskStep ==
    [pause |-> [demux |-> "pause demux", handle |-> "pause handle",
                decode |-> "pause decode", push |-> "pause push"],
     stop  |-> [demux |-> "stop demux", handle |-> "stop handle",
                decode |-> "stop decode", push |-> "stop push"],
     start |-> [demux |-> "start demux", handle |-> "start handle",
                decode |-> "start decode", push |-> "start push"]]

\* Task::Pause and Task::Stop: the request, and the return when the thread is out of its handler.
PausesTask(t) ==
    /\ todo # <<>> /\ Head(todo) = TaskStep.pause[t]
    /\ \/ run[t] = "STARTED" /\ run' = [run EXCEPT ![t] = "PAUSING"] /\ UNCHANGED player
       \/ run[t] \in {"PAUSED", "STOPPED"} /\ Does(TaskStep.pause[t]) /\ UNCHANGED run
    /\ UNCHANGED <<demuxed, codecQueues, codecFlags, needInput, codecPlugin, at, hold, last>>

StopsTask(t) ==
    /\ todo # <<>> /\ Head(todo) = TaskStep.stop[t]
    /\ \/ run[t] \notin {"STOPPING", "STOPPED"} /\ run' = [run EXCEPT ![t] = "STOPPING"] /\ UNCHANGED player
       \/ run[t] = "STOPPED" /\ Does(TaskStep.stop[t]) /\ UNCHANGED run
    /\ UNCHANGED <<demuxed, codecQueues, codecFlags, needInput, codecPlugin, at, hold, last>>

StartsTask(t) ==
    /\ Does(TaskStep.start[t])
    /\ run' = [run EXCEPT ![t] = "STARTED"]
    /\ UNCHANGED <<demuxed, codecQueues, codecFlags, needInput, codecPlugin, at, hold, last>>

\* DemuxerFilter::SeekTo, or the header parsed again: the frames of a new generation follow.
Seeks ==
    /\ Does("seek")
    /\ gen' = gen + 1 /\ nextFrame' = 1
    /\ UNCHANGED <<codecQueues, codecFlags, needInput, codecPlugin, run, at, hold, last>>

-----------------------------------------------------------------------------
DemuxStep  == DemuxReads \/ DemuxChecks \/ DemuxPushes \/ TaskSettles("demux")
HandleStep == HandleEnters \/ HandlePops \/ HandleQueues \/ HandleRefused \/ HandleWaits
              \/ TaskSettles("handle")
DecodeStep == DecodeEnters \/ DecodeAllocates \/ DecodeReceives \/ DecodeQueues \/ DecodeKicks
              \/ DecodeStarves \/ TaskSettles("decode")
PushStep   == PushTakes \/ PushDelivers \/ TaskSettles("push")
PlayerStep == SetsFlags \/ SetsQueues \/ PlayerKicks \/ SetsPlugin \/ Seeks
              \/ \E t \in Threads : PausesTask(t) \/ StopsTask(t) \/ StartsTask(t)

CodecNext == \/ DemuxStep \/ HandleStep \/ DecodeStep \/ PushStep \/ PlayerStep
             \/ \E c \in CodecCalls : PlayerCalls(c)

\* Every thread is scheduled, and a call of the player goes on; nobody has to call.
CodecFairness == /\ WF_codecVars(DemuxStep) /\ WF_codecVars(HandleStep)
                 /\ WF_codecVars(DecodeStep) /\ WF_codecVars(PushStep)
                 /\ WF_codecVars(PlayerStep)

CodecSpec == CodecInit /\ [][CodecNext]_codecVars /\ CodecFairness

-----------------------------------------------------------------------------
(* The sink receives the frames of the generation that is being read, from *)
(* its first and without a gap: nothing decoded before a seek or a stop    *)
(* survives in the queues, the decoder or a thread's hand                  *)
(* (AsyncMode::FlushStart against the three threads).  Frames are skipped  *)
(* only while the player's call is under way.                              *)
Due == IF last.gen = gen THEN last.n + 1 ELSE 1
CodecNothingStale ==
    [][last' # last => /\ last'.gen = gen
                       /\ last'.n = Due \/ (todo # <<>> /\ last'.n > Due)]_codecVars

CodecIsPlayedOut == last = [gen |-> gen, n |-> Eos] \/ call # "none"

(* A stream nobody interrupts is played to its end, however the three      *)
(* threads wait for one another: a decoder that refuses input              *)
(* (ERROR_AGAIN), an empty pool, a full queue.                             *)
CodecPlaysOut == (call = "none") ~> CodecIsPlayedOut

(* A flush always returns: each thread it waits for leaves its handler     *)
(* although the queue, the pool or the decoder had it waiting.             *)
CodecFlushReturns == (call = "Flush") ~> (todo = <<>>)

(* codec_filter_base.cpp:52 orders the calls so that Stop does not         *)
(* deadlock ("otherwise a deadlock results"): Stop returns.                *)
CodecStopReturns == (call = "Stop") ~> (todo = <<>>)
=============================================================================
