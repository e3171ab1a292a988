---------------------------- MODULE FFmpegVideo ----------------------------
(***************************************************************************)
(* The FFmpeg video plug-ins under what drives them: the encoder plug-in   *)
(* in VideoEncoderFilter, and the decoder plug-in in VideoDecoderFilter     *)
(* with its AsyncMode.  Both plug-ins have a thread of their own that takes *)
(* a buffer from outBufferQ_, asks libavcodec for a result, and puts the    *)
(* buffer back when there is none.                                          *)
(*                                                                         *)
(* Threads: the source that pushes frames, the handler that gives them to   *)
(* the plug-in ("handle"), the plug-in's own ("codec"), AsyncMode's          *)
(* DecodeFrame that feeds it with buffers ("feed", decoder only), the one    *)
(* that pushes results downstream ("push"), and the player or recorder.      *)
(* A frame is its number; VideoEos is the buffer with BUFFER_FLAG_EOS.       *)
(* libavcodec is external: it holds up to AvDepth frames and refuses more.   *)
(***************************************************************************)
EXTENDS Integers, Sequences, SequencesExt, FiniteSets

CONSTANTS VideoFrames,    \* frames of the stream
          AvDepth,        \* frames libavcodec holds
          VideoInQueue,   \* DEFAULT_IN_BUFFER_POOL_SIZE
          VideoBuffers,   \* BUFFER_QUEUE_SIZE, of the pool and of outBufferQ_
          MaxCorrupt, MaxFlushes

ASSUME VideoAssumption ==
    /\ {AvDepth, VideoInQueue, VideoBuffers} \subseteq Nat \ {0}
    /\ {VideoFrames, MaxCorrupt, MaxFlushes} \subseteq Nat

VARIABLES
    coder,          \* "encoder" or "decoder"
    vidTodo,        \* the steps left of the call of the player or recorder
    vidLife,        \* "running", "flushing", "stopping" or "stopped"
    tasks,          \* the Tasks that are started
    vidIn,          \* what is pushed next, inBufQue_ and whether it is active
    handled,        \* the frame HandleFrame is at, 0 for none
    av,             \* avCodecContext_: open, the frames it holds, draining
    codecAt,        \* what the plug-in's thread has: nothing, a buffer, or a result
    vidOut,         \* buffers in the pool and in outBufferQ_, whether these are active; outBufQue_
    pushAt,         \* what FinishFrame is at
    feeding,        \* whether DecodeFrame has a buffer
    cameOut,          \* what came out, in order (history)
    vidMarks        \* frames the codec took, the last one pushed before a flush,
                    \* corrupt frames and flushes (history)

videoVars == <<coder, vidTodo, vidLife, tasks, vidIn, handled, av, codecAt, vidOut, pushAt,
               feeding, cameOut, vidMarks>>

VideoEos == VideoFrames + 1
CodecAway == [at |-> "away", frame |-> 0]

VideoTypeOK ==
    /\ coder \in {"encoder", "decoder"} /\ tasks \subseteq {"handle", "feed", "push", "codec"}
    /\ vidIn.next \in 1 .. VideoEos + 1 /\ Len(vidIn.que) <= VideoInQueue
    /\ handled \in 0 .. VideoEos /\ Len(av.held) <= AvDepth
    /\ vidOut.pool \in 0 .. VideoBuffers /\ vidOut.plugin \in 0 .. VideoBuffers
    /\ vidOut.pool + vidOut.plugin + Len(vidOut.que) <= VideoBuffers

\* After Configure: the encoder's filter, and AsyncMode too, have queued the pool.
VideoInit ==
    /\ coder \in {"encoder", "decoder"}
    /\ vidTodo = <<>> /\ vidLife = "running"
    /\ tasks = {"handle", "push", "codec"} \cup (IF coder = "decoder" THEN {"feed"} ELSE {})
    /\ vidIn = [next |-> 1, que |-> <<>>, active |-> TRUE]
    /\ handled = 0
    /\ av = [open |-> TRUE, held |-> <<>>, draining |-> FALSE]
    /\ codecAt = CodecAway /\ feeding = FALSE
    /\ vidOut = [pool |-> 0, poolOn |-> TRUE, plugin |-> VideoBuffers, pluginOn |-> TRUE,
                 que |-> <<>>, queOn |-> TRUE]
    /\ pushAt = [at |-> "away", frame |-> 0]
    /\ cameOut = <<>>
    /\ vidMarks = [taken |-> {}, flushed |-> 0, corrupt |-> 0, flushes |-> 0]

-----------------------------------------------------------------------------
(* The way in.                                                             *)

\* PushData: it waits while inBufQue_ is full; a flush of the player pauses the source.
VideoPushData ==
    /\ vidIn.next <= VideoEos /\ vidLife \in {"running", "stopping"}
    /\ ~vidIn.active \/ Len(vidIn.que) < VideoInQueue
    /\ vidIn' = [vidIn EXCEPT !.next = @ + 1, !.que = IF vidIn.active THEN Append(@, vidIn.next) ELSE @]
    /\ UNCHANGED <<coder, vidTodo, vidLife, tasks, handled, av, codecAt, vidOut, pushAt, feeding,
                   cameOut, vidMarks>>

HandlePop ==
    /\ "handle" \in tasks /\ handled = 0 /\ vidIn.que # <<>>
    /\ handled' = Head(vidIn.que) /\ vidIn' = [vidIn EXCEPT !.que = Tail(@)]
    /\ UNCHANGED <<coder, vidTodo, vidLife, tasks, av, codecAt, vidOut, pushAt, feeding, cameOut, vidMarks>>

\* avcodec_send_frame, avcodec_send_packet (external): the decoder's end is always taken.
Sent(f) ==
    IF ~av.open THEN "wrong state"
    ELSE IF av.draining THEN "eof"
    ELSE IF Len(av.held) = AvDepth /\ ~(f = VideoEos /\ coder = "decoder") THEN "again"
    ELSE "ok"

Accept(f) ==
    /\ av' = IF f = VideoEos THEN [av EXCEPT !.draining = TRUE] ELSE [av EXCEPT !.held = Append(@, f)]
    /\ vidMarks' = [vidMarks EXCEPT !.taken = @ \cup {f}]

EncoderSends(f) ==
    IF Sent(f) = "ok" THEN Accept(f) ELSE UNCHANGED <<av, vidMarks>>

DecoderSends(f) ==
    IF Sent(f) = "ok" THEN Accept(f) ELSE UNCHANGED <<av, vidMarks>>

\* A faulty filter, which does not try a second time.
EncoderTriesOnce(f) == EncoderSends(f) /\ handled' = 0

\* HandleOneFrame tries again whatever the answer is, until the filter stops: a frame of
\* another pixel format, which the plug-in refuses each time, keeps it busy so long.
EncoderHandles(f) ==
    /\ EncoderSends(f)
    /\ handled' = IF Sent(f) = "ok" THEN 0 ELSE f

EncoderGoesOn == "stop flag" \in ToSet(vidTodo) \/ vidLife = "running"

HandleFrame ==
    /\ handled # 0
    /\ IF coder = "encoder"
       THEN /\ \/ EncoderGoesOn /\ EncoderHandles(handled)
               \/ ~EncoderGoesOn /\ handled' = 0 /\ UNCHANGED <<av, vidMarks>>
            /\ tasks' = tasks
       ELSE \* AsyncMode tries again on ERROR_AGAIN alone, which this plug-in never answers.
            /\ DecoderSends(handled) /\ handled' = 0
            /\ tasks' = IF handled = VideoEos THEN tasks \ {"handle"} ELSE tasks
    /\ UNCHANGED <<coder, vidTodo, vidLife, vidIn, codecAt, vidOut, pushAt, feeding, cameOut>>

-----------------------------------------------------------------------------
(* The plug-in's thread.                                                   *)

CodecPop ==
    /\ "codec" \in tasks /\ codecAt.at = "away" /\ vidOut.plugin > 0
    /\ codecAt' = [at |-> "receive", frame |-> 0]
    /\ vidOut' = [vidOut EXCEPT !.plugin = @ - 1]
    /\ UNCHANGED <<coder, vidTodo, vidLife, tasks, vidIn, handled, av, pushAt, feeding, cameOut, vidMarks>>

\* The buffer goes back to outBufferQ_, or, when that is inactive, to the pool.
PutBack == vidOut' = IF vidOut.pluginOn THEN [vidOut EXCEPT !.plugin = @ + 1]
                     ELSE [vidOut EXCEPT !.pool = @ + 1]

\* avcodec_receive_frame, avcodec_receive_packet (external): what may come out.
Received ==
    IF ~av.open THEN {"none"}
    ELSE (IF av.held # <<>> THEN {"frame"} ELSE {})
         \cup (IF av.held = <<>> /\ av.draining THEN {"eof"} ELSE {})
         \cup (IF ~av.draining /\ Len(av.held) < AvDepth THEN {"none"} ELSE {})

\* The result is put in outBufQue_: Push of the encoder's filter, OnOutputBufferDone of
\* AsyncMode, which at the end closes the pool and pauses the thread that feeds.
EncoderDone(f) ==
    /\ vidOut' = IF vidOut.queOn THEN [vidOut EXCEPT !.que = Append(@, f)]
                 ELSE [vidOut EXCEPT !.pool = @ + 1]
    /\ tasks' = tasks

DecoderDone(f) ==
    /\ vidOut' = [vidOut EXCEPT !.que = Append(@, f), !.poolOn = @ /\ f # VideoEos]
    /\ tasks' = IF f = VideoEos THEN tasks \ {"feed"} ELSE tasks

\* ReceiveBufferLocked: a frame, at the end a buffer with the flag after which the codec
\* begins anew (avcodec_flush_buffers), or nothing yet.
EncoderReceives ==
    \/ /\ "frame" \in Received
       /\ av' = [av EXCEPT !.held = Tail(@)]
       /\ codecAt' = [at |-> "notify", frame |-> Head(av.held)] /\ UNCHANGED <<vidOut, vidMarks>>
    \/ /\ "eof" \in Received
       /\ av' = [av EXCEPT !.draining = FALSE]
       /\ codecAt' = [at |-> "notify", frame |-> VideoEos] /\ UNCHANGED <<vidOut, vidMarks>>
    \/ /\ "none" \in Received
       /\ codecAt' = CodecAway /\ PutBack /\ UNCHANGED <<av, vidMarks>>

\* FillFrameBuffer refuses a corrupt frame, or one that it cannot scale or write: it is gone.
FrameRefused ==
    /\ "frame" \in Received /\ vidMarks.corrupt < MaxCorrupt
    /\ av' = [av EXCEPT !.held = Tail(@)]
    /\ vidMarks' = [vidMarks EXCEPT !.corrupt = @ + 1, !.taken = @ \ {Head(av.held)}]
    /\ codecAt' = CodecAway /\ PutBack

DecoderReceives == EncoderReceives \/ FrameRefused

CodecReceives ==
    /\ codecAt.at = "receive"
    /\ IF coder = "encoder" THEN EncoderReceives ELSE DecoderReceives
    /\ UNCHANGED <<coder, vidTodo, vidLife, tasks, vidIn, handled, pushAt, feeding, cameOut>>

CodecNotifies ==
    /\ codecAt.at = "notify" /\ codecAt' = CodecAway
    /\ IF coder = "encoder" THEN EncoderDone(codecAt.frame) ELSE DecoderDone(codecAt.frame)
    /\ UNCHANGED <<coder, vidTodo, vidLife, vidIn, handled, av, pushAt, feeding, cameOut, vidMarks>>

-----------------------------------------------------------------------------
(* The way out.                                                            *)

\* DecodeFrame: AllocateBuffer, then QueueOutputBuffer.
FeedAllocates ==
    /\ "feed" \in tasks /\ ~feeding /\ vidOut.poolOn /\ vidOut.pool > 0
    /\ feeding' = TRUE /\ vidOut' = [vidOut EXCEPT !.pool = @ - 1]
    /\ UNCHANGED <<coder, vidTodo, vidLife, tasks, vidIn, handled, av, codecAt, pushAt, cameOut, vidMarks>>

FeedQueues ==
    /\ feeding /\ feeding' = FALSE /\ PutBack
    /\ UNCHANGED <<coder, vidTodo, vidLife, tasks, vidIn, handled, av, codecAt, pushAt, cameOut, vidMarks>>

VideoPushPops ==
    /\ "push" \in tasks /\ pushAt.at = "away" /\ vidOut.que # <<>>
    /\ pushAt' = [at |-> "push", frame |-> Head(vidOut.que)]
    /\ vidOut' = [vidOut EXCEPT !.que = Tail(@)]
    /\ UNCHANGED <<coder, vidTodo, vidLife, tasks, vidIn, handled, av, codecAt, feeding, cameOut, vidMarks>>

\* The next filter drops the buffer, which goes back to the pool.  AsyncMode pauses its
\* Task after the end; the encoder's filter queues another buffer to the plug-in.
VideoPushes ==
    /\ pushAt.at = "push"
    /\ cameOut' = Append(cameOut, pushAt.frame)
    /\ vidOut' = [vidOut EXCEPT !.pool = @ + 1]
    /\ pushAt' = [at |-> IF coder = "encoder" THEN "queue" ELSE "away", frame |-> 0]
    /\ tasks' = IF coder = "decoder" /\ pushAt.frame = VideoEos THEN tasks \ {"push"} ELSE tasks
    /\ UNCHANGED <<coder, vidTodo, vidLife, vidIn, handled, av, codecAt, feeding, vidMarks>>

EncoderQueues ==
    /\ pushAt.at = "queue" /\ vidOut.pool > 0
    /\ pushAt' = [at |-> "away", frame |-> 0]
    /\ vidOut' = IF vidOut.pluginOn THEN [vidOut EXCEPT !.pool = @ - 1, !.plugin = @ + 1] ELSE vidOut
    /\ UNCHANGED <<coder, vidTodo, vidLife, tasks, vidIn, handled, av, codecAt, feeding, cameOut, vidMarks>>

-----------------------------------------------------------------------------
(* The calls.                                                              *)

FlushStartVideo == <<"in off", "pause handle", "pool off", "pause feed", "pause push", "que off", "flush">>
FlushEndVideo == <<"in on", "start handle", "pool on", "start feed", "start push">>
StopPlugin == <<"flush", "close", "plugin off", "pause codec">>
StopDecoder == StopPlugin \o <<"pool off", "pause feed", "pause push", "in off", "que off", "pause handle">>
EncoderStops == StopPlugin \o <<"stop flag", "que off", "pause push", "in off", "pause handle">>

\* The recorder never flushes its encoder.
VideoCall(c) ==
    /\ vidTodo = <<>> /\ vidLife = "running"
    /\ \/ /\ c = "Flush" /\ coder = "decoder" /\ vidMarks.flushes < MaxFlushes
          /\ vidLife' = "flushing" /\ vidTodo' = FlushStartVideo \o FlushEndVideo
          /\ vidMarks' = [vidMarks EXCEPT !.flushes = @ + 1, !.flushed = vidIn.next - 1]
       \/ /\ c = "Stop" /\ vidLife' = "stopping"
          /\ vidTodo' = IF coder = "encoder" THEN EncoderStops ELSE StopDecoder
          /\ UNCHANGED vidMarks
    /\ UNCHANGED <<coder, tasks, vidIn, handled, av, codecAt, vidOut, pushAt, feeding, cameOut>>

VideoReturns ==
    /\ vidTodo = <<>> /\ vidLife \in {"flushing", "stopping"}
    /\ vidLife' = IF vidLife = "flushing" THEN "running" ELSE "stopped"
    /\ UNCHANGED <<coder, vidTodo, tasks, vidIn, handled, av, codecAt, vidOut, pushAt, feeding,
                   cameOut, vidMarks>>

\* Pause of a Task waits for the end of its job.
Idles(t) == CASE t = "handle" -> handled = 0
              [] t = "feed" -> ~feeding
              [] t = "push" -> pushAt.at = "away"
              [] t = "codec" -> codecAt.at = "away"

VideoPauses(t) ==
    /\ "pause " \o t = Head(vidTodo)
    /\ \/ t \in tasks /\ tasks' = tasks \ {t} /\ vidTodo' = vidTodo
       \/ t \notin tasks /\ Idles(t) /\ tasks' = tasks /\ vidTodo' = Tail(vidTodo)
    /\ UNCHANGED <<vidIn, av, vidOut>>

VideoStarts(t) ==
    /\ "start " \o t = Head(vidTodo) /\ tasks' = tasks \cup {t} /\ vidTodo' = Tail(vidTodo)
    /\ UNCHANGED <<vidIn, av, vidOut>>

Switched ==
    CASE Head(vidTodo) = "in off" -> [in |-> [vidIn EXCEPT !.active = FALSE, !.que = <<>>], av |-> av, out |-> vidOut]
      [] Head(vidTodo) = "in on" -> [in |-> [vidIn EXCEPT !.active = TRUE], av |-> av, out |-> vidOut]
      [] Head(vidTodo) = "pool off" -> [in |-> vidIn, av |-> av, out |-> [vidOut EXCEPT !.poolOn = FALSE]]
      [] Head(vidTodo) = "pool on" -> [in |-> vidIn, av |-> av, out |-> [vidOut EXCEPT !.poolOn = TRUE]]
      [] Head(vidTodo) = "que off" -> [in |-> vidIn, av |-> av,
             out |-> [vidOut EXCEPT !.que = <<>>, !.pool = @ + Len(vidOut.que), !.queOn = coder = "decoder"]]
      [] Head(vidTodo) = "plugin off" -> [in |-> vidIn, av |-> av,
             out |-> [vidOut EXCEPT !.plugin = 0, !.pool = @ + vidOut.plugin, !.pluginOn = FALSE]]
      [] Head(vidTodo) = "flush" -> [in |-> vidIn, out |-> vidOut,
             av |-> IF coder = "decoder" THEN [av EXCEPT !.held = <<>>, !.draining = FALSE] ELSE av]
      [] Head(vidTodo) = "close" -> [in |-> vidIn, out |-> vidOut,
             av |-> [open |-> FALSE, held |-> <<>>, draining |-> FALSE]]
      [] OTHER -> [in |-> vidIn, av |-> av, out |-> vidOut]

Switching == {"in off", "in on", "pool off", "pool on", "que off", "plugin off", "flush", "close", "stop flag"}

VideoCallStep ==
    /\ vidTodo # <<>>
    /\ \/ \E t \in {"handle", "feed", "push", "codec"} : VideoPauses(t) \/ VideoStarts(t)
       \/ /\ Head(vidTodo) \in Switching /\ vidTodo' = Tail(vidTodo)
          /\ vidIn' = Switched.in /\ av' = Switched.av /\ vidOut' = Switched.out
          /\ tasks' = tasks
    /\ UNCHANGED <<coder, vidLife, handled, codecAt, pushAt, feeding, cameOut, vidMarks>>

VideoNext ==
    \/ VideoPushData \/ HandlePop \/ HandleFrame
    \/ CodecPop \/ CodecReceives \/ CodecNotifies
    \/ FeedAllocates \/ FeedQueues \/ VideoPushPops \/ VideoPushes \/ EncoderQueues
    \/ \E c \in {"Flush", "Stop"} : VideoCall(c)
    \/ VideoReturns \/ VideoCallStep

VideoSpec == VideoInit /\ [][VideoNext]_videoVars

-----------------------------------------------------------------------------
(* Properties.                                                             *)

\* What comes out is in order and comes once, and nothing comes after the end.  When the
\* end has come out of an encoder, every frame of the recording has, and out of a decoder
\* that nobody flushed or stops every frame that libavcodec took: however the threads
\* that give and take meet a codec that is full.
VideoComesOut ==
    /\ \A i \in 1 .. Len(cameOut) - 1 : cameOut[i] < cameOut[i + 1]
    /\ (cameOut # <<>> /\ Last(cameOut) = VideoEos) =>
           IF coder = "encoder" THEN ToSet(cameOut) = 1 .. VideoEos
           ELSE vidLife = "running" /\ vidMarks.flushes = 0 => ToSet(cameOut) = vidMarks.taken

\* A decoder that is not stopped or flushed loses no frame: not so, for it answers
\* ERROR_NO_MEMORY when it is full, and AsyncMode tries again on ERROR_AGAIN alone.
DecoderTakesAll ==
    coder = "decoder" /\ vidMarks.flushes = 0 /\ vidMarks.corrupt = 0 =>
        \A i \in 1 .. Len(cameOut) : cameOut[i] = i

\* After a flush nothing older comes out: not so, for the plug-in's thread, which no
\* flush pauses, may put a frame into outBufQue_ after it was cleared.
VideoNothingStale ==
    [][vidLife = "running" /\ cameOut' # cameOut => Last(cameOut') > vidMarks.flushed]_videoVars
=============================================================================
