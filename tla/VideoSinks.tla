---------------------------- MODULE VideoSinks -----------------------------
(***************************************************************************)
(* VideoSinkFilter over SurfaceSinkPlugin ("surface") or SdlVideoSinkPlugin *)
(* ("sdl"), the SurfaceMemory that the frames live in, and the BufferPool   *)
(* they come back to.                                                       *)
(*                                                                         *)
(* Threads: the decoder, which takes memories of the pool, fills them and   *)
(* pushes them (PushData); the render task; the player; the caller of       *)
(* SetVideoSurface; and the surface's consumer, which is external: it takes *)
(* the flushed buffers in their order and gives each back.                  *)
(*                                                                         *)
(* Whether a frame is late is MediaSync's matter: here any frame may be     *)
(* dropped.  Pixels are the number of the frame that was decoded into them. *)
(* The last frame is the one with BUFFER_FLAG_EOS, into which nothing is    *)
(* decoded.                                                                 *)
(***************************************************************************)
EXTENDS Integers, Sequences, SequencesExt, FiniteSetsExt

CONSTANTS VideoPlugins,   \* the plug-ins
          VsFrames,       \* frames, the one of the end included
          VsMemories,     \* memories of the BufferPool
          SurfaceBuffers, \* buffers of the surface's queue (SetQueueSize)
          VsQueueRoom,    \* room of inBufQueue_
          MaxVsCalls,     \* calls of the player
          MaxRefused      \* calls the surface refuses

ASSUME VideoSinksAssumption ==
    /\ VideoPlugins \subseteq {"surface", "sdl"}
    /\ {VsFrames, VsMemories, SurfaceBuffers, VsQueueRoom} \subseteq Nat \ {0}
    /\ {MaxVsCalls, MaxRefused} \subseteq Nat

VARIABLES
    vsPlugin,   \* the plug-in, and how far Negotiate and Configure are
    vsCaller,   \* SetVideoSurface: where it is, and where it has put the surface
    vsFilter,   \* state_, isFlushing_, forceRenderNextFrame_, isFirstFrame_
    vsPush,     \* PushData: where it is, its frame, pushThreadIsBlocking_
    vsQueue,    \* inBufQueue_, and whether it is active
    vsRender,   \* the render task, and the frame it holds
    vsTodo,     \* steps left of the player's call
    vsPool,     \* the memories in the BufferPool, in the order they are given
    vsMem,      \* SurfaceMemory: who has it, surfaceBuffer_, needRender_
    vsPixels,   \* what each buffer of the surface holds
    vsScreen,   \* buffers the consumer has, each with the frame it was flushed for
    vsShown,    \* frames that were shown (history)
    vsMarks     \* frames decoded, calls, refusals; whether EVENT_COMPLETE was sent

vsVars == <<vsPlugin, vsCaller, vsFilter, vsPush, vsQueue, vsRender, vsTodo, vsPool, vsMem,
            vsPixels, vsScreen, vsShown, vsMarks>>

Slots == 1 .. VsMemories
NoFrame == [frame |-> 0, mem |-> 0]

VideoSinksTypeOK ==
    /\ vsPlugin.name \in VideoPlugins /\ vsPlugin.at \in {"none", "created", "waits", "ready"}
    /\ vsCaller.at \in {"away", "found", "missed", "done"}
    /\ vsFilter.state \in {"preparing", "ready", "running", "paused", "initialized"}
    /\ vsPush.at \in {"away", "enter", "check", "sleep", "woken", "queue"}
    /\ vsRender.task \in {"stopped", "running", "pausing", "paused"}
    /\ vsRender.at \in {"idle", "write", "flush", "release"}
    /\ Len(vsQueue.frames) <= VsQueueRoom
    /\ ToSet(vsPool) = {m \in Slots : vsMem[m].at = "pool"} /\ Len(vsPool) <= VsMemories
    /\ \A m \in Slots : vsMem[m].at \in {"pool", "decoder", "frame"} /\ vsMem[m].buf \in 0 .. SurfaceBuffers

VideoSinksInit ==
    /\ vsPlugin \in [name : VideoPlugins, at : {"none"}]
    /\ vsCaller = [at |-> "away", kept |-> FALSE, given |-> FALSE]
    /\ vsFilter = [state |-> "preparing", flushing |-> FALSE, force |-> FALSE, first |-> TRUE]
    /\ vsPush = [at |-> "away", item |-> NoFrame, blocking |-> FALSE]
    /\ vsQueue = [frames |-> <<>>, active |-> TRUE]
    /\ vsRender = [task |-> "stopped", at |-> "idle", item |-> NoFrame]
    /\ vsTodo = <<>>
    /\ vsPool = [m \in Slots |-> m]
    /\ vsMem = [m \in Slots |-> [at |-> "pool", buf |-> 0, needRender |-> FALSE]]
    /\ vsPixels = [b \in 1 .. SurfaceBuffers |-> 0]
    /\ vsScreen = <<>> /\ vsShown = <<>>
    /\ vsMarks = [decoded |-> 0, calls |-> 0, refused |-> 0, complete |-> FALSE]

OnSurface == vsPlugin.name = "surface"
IsLast(frame) == frame = VsFrames

-----------------------------------------------------------------------------
(* The surface comes from one thread while Negotiate creates the plug-in.   *)

\* SetVideoSurface gives the surface to the plug-in if there is one ...
CallerAsks ==
    /\ OnSurface /\ vsCaller.at = "away"
    /\ vsCaller' = [vsCaller EXCEPT !.at = IF vsPlugin.at # "none" THEN "found" ELSE "missed"]
    /\ UNCHANGED <<vsPlugin, vsFilter, vsPush, vsQueue, vsRender, vsTodo, vsPool, vsMem, vsPixels, vsScreen, vsShown, vsMarks>>

\* ... and keeps it for CreateVideoSinkPlugin if there is none.
CallerSets ==
    /\ vsCaller.at \in {"found", "missed"}
    /\ vsCaller' = [at |-> "done", kept |-> vsCaller.at = "missed",
                    given |-> vsCaller.given \/ vsCaller.at = "found"]
    /\ UNCHANGED <<vsPlugin, vsFilter, vsPush, vsQueue, vsRender, vsTodo, vsPool, vsMem, vsPixels, vsScreen, vsShown, vsMarks>>

PluginCreated ==
    /\ vsPlugin.at = "none" /\ vsPlugin' = [vsPlugin EXCEPT !.at = "created"]
    /\ UNCHANGED <<vsCaller, vsFilter, vsPush, vsQueue, vsRender, vsTodo, vsPool, vsMem, vsPixels, vsScreen, vsShown, vsMarks>>

\* CreateVideoSinkPlugin looks for a surface that was kept; nobody does again.
PluginTold ==
    /\ vsPlugin.at = "created" /\ vsPlugin' = [vsPlugin EXCEPT !.at = "waits"]
    /\ vsCaller' = [vsCaller EXCEPT !.given = @ \/ vsCaller.kept, !.kept = FALSE]
    /\ UNCHANGED <<vsFilter, vsPush, vsQueue, vsRender, vsTodo, vsPool, vsMem, vsPixels, vsScreen, vsShown, vsMarks>>

\* SurfaceSinkPlugin::Init waits for the surface; Configure makes the filter ready.
PluginReady ==
    /\ vsPlugin.at = "waits" /\ (OnSurface => vsCaller.given)
    /\ vsPlugin' = [vsPlugin EXCEPT !.at = "ready"]
    /\ vsFilter' = [vsFilter EXCEPT !.state = "ready"]
    /\ UNCHANGED <<vsCaller, vsPush, vsQueue, vsRender, vsTodo, vsPool, vsMem, vsPixels, vsScreen, vsShown, vsMarks>>

-----------------------------------------------------------------------------
(* Memories, the decoder and PushData.                                      *)

\* Memories whose buffer is still theirs; the one under FlushBuffer is, until it returns.
Keeping == {m \in Slots : ~vsMem[m].needRender \/ (vsRender.at = "flush" /\ vsRender.item.mem = m)}

\* Buffers of the surface that RequestBuffer may give.
FreeSurfaceBuffers ==
    (1 .. SurfaceBuffers) \ ({vsMem[m].buf : m \in Keeping} \cup {e.buf : e \in ToSet(vsScreen)})

\* GetSurfaceBuffer requests a buffer when there is none or when its own was shown.  Which
\* of the free ones it gets makes no difference: what is in them is written over.
GetSurfaceBuffer(m) ==
    IF vsMem[m].buf # 0 /\ ~vsMem[m].needRender THEN vsMem[m].buf
    ELSE IF FreeSurfaceBuffers = {} THEN 0 ELSE Min(FreeSurfaceBuffers)

\* AllocateBuffer gives the memories in turn; CheckBufferValidity sends one without a
\* surface buffer back.
DecoderTakes ==
    /\ vsPlugin.at = "ready" /\ vsPool # <<>>
    /\ LET m == Head(vsPool)
           b == IF OnSurface THEN GetSurfaceBuffer(m) ELSE vsMem[m].buf
           to == IF OnSurface /\ b = 0 THEN "pool" ELSE "decoder"
       IN /\ vsMem' = [vsMem EXCEPT ![m] = [at |-> to, buf |-> b, needRender |-> FALSE]]
          /\ vsPool' = IF to = "pool" THEN Append(Tail(vsPool), m) ELSE Tail(vsPool)
    /\ UNCHANGED <<vsPlugin, vsCaller, vsFilter, vsPush, vsQueue, vsRender, vsTodo, vsPixels, vsScreen, vsShown, vsMarks>>

DecoderFills(m) ==
    /\ vsMem[m].at = "decoder" /\ vsPush.at = "away" /\ vsMarks.decoded < VsFrames
    /\ vsMarks' = [vsMarks EXCEPT !.decoded = @ + 1]
    /\ vsPixels' = IF OnSurface /\ ~IsLast(vsMarks.decoded + 1)
                   THEN [vsPixels EXCEPT ![vsMem[m].buf] = vsMarks.decoded + 1] ELSE vsPixels
    /\ vsMem' = [vsMem EXCEPT ![m].at = "frame"]
    /\ vsPush' = [vsPush EXCEPT !.at = "enter", !.item = [frame |-> vsMarks.decoded + 1, mem |-> m]]
    /\ UNCHANGED <<vsPlugin, vsCaller, vsFilter, vsQueue, vsRender, vsTodo, vsPool, vsScreen, vsShown>>

\* The frame's last reference is gone: RecycleBuffer.
BackToPool(m) == vsMem' = [vsMem EXCEPT ![m].at = "pool"] /\ vsPool' = Append(vsPool, m)
MemoriesStay == UNCHANGED <<vsPool, vsMem>>

\* A faulty push, whose dropped frame does not come back to the pool.
PushReturnsUnlisted(recycled) ==
    /\ vsPush' = [at |-> "away", item |-> NoFrame, blocking |-> FALSE]
    /\ IF recycled THEN vsMem' = [vsMem EXCEPT ![vsPush.item.mem].at = "pool"] /\ UNCHANGED vsPool ELSE MemoriesStay

PushReturns(recycled) ==
    /\ vsPush' = [at |-> "away", item |-> NoFrame, blocking |-> FALSE]
    /\ IF recycled THEN BackToPool(vsPush.item.mem) ELSE MemoriesStay

Unwanted == vsFilter.flushing \/ vsFilter.state = "initialized"

\* It waits unless the filter runs.
VideoEnters ==
    /\ vsPush.at = "enter"
    /\ IF Unwanted THEN PushReturns(TRUE)
       ELSE /\ vsPush' = IF vsFilter.state = "running" THEN [vsPush EXCEPT !.at = "queue"]
                         ELSE [vsPush EXCEPT !.at = "check", !.blocking = TRUE]
            /\ MemoriesStay
    /\ UNCHANGED <<vsPlugin, vsCaller, vsFilter, vsQueue, vsRender, vsTodo, vsPixels, vsScreen, vsShown, vsMarks>>

\* The predicate of the wait; those who notify do not hold mutex_.
VideoChecks ==
    /\ vsPush.at \in {"check", "woken"}
    /\ IF Unwanted THEN PushReturns(TRUE)
       ELSE /\ vsPush' = IF vsFilter.state = "running" THEN [vsPush EXCEPT !.at = "queue", !.blocking = FALSE]
                         ELSE [vsPush EXCEPT !.at = "sleep"]
            /\ MemoriesStay
    /\ UNCHANGED <<vsPlugin, vsCaller, vsFilter, vsQueue, vsRender, vsTodo, vsPixels, vsScreen, vsShown, vsMarks>>

\* BlockingQueue::Push waits for room and drops the frame when it is not active.
VideoQueues ==
    /\ vsPush.at = "queue" /\ (vsQueue.active => Len(vsQueue.frames) < VsQueueRoom)
    /\ vsQueue' = IF vsQueue.active THEN [vsQueue EXCEPT !.frames = Append(@, vsPush.item)] ELSE vsQueue
    /\ PushReturns(~vsQueue.active)
    /\ UNCHANGED <<vsPlugin, vsCaller, vsFilter, vsRender, vsTodo, vsPixels, vsScreen, vsShown, vsMarks>>

-----------------------------------------------------------------------------
(* The render task: RenderFrame, DoSyncWrite and the plug-in's Write.       *)

RenderPops ==
    /\ vsRender.task = "running" /\ vsRender.at = "idle" /\ vsQueue.active /\ vsQueue.frames # <<>>
    /\ vsRender' = [vsRender EXCEPT !.at = "write", !.item = Head(vsQueue.frames)]
    /\ vsQueue' = [vsQueue EXCEPT !.frames = Tail(@)]
    /\ UNCHANGED <<vsPlugin, vsCaller, vsFilter, vsPush, vsTodo, vsPool, vsMem, vsPixels, vsScreen, vsShown, vsMarks>>

\* DoSyncWrite: what a frame that is not the last leaves of the filter.
Forced ==
    IF IsLast(vsRender.item.frame) THEN vsFilter ELSE [vsFilter EXCEPT !.force = FALSE, !.first = FALSE]

\* It drops the first frame when the clock says so, and a late one that is neither the last
\* nor the one to be shown after a Resume.
RenderDrops ==
    /\ vsRender.at = "write" /\ ~IsLast(vsRender.item.frame) /\ (vsFilter.force => vsFilter.first)
    /\ vsRender' = [vsRender EXCEPT !.at = "release"]
    /\ vsFilter' = Forced
    /\ UNCHANGED <<vsPlugin, vsCaller, vsPush, vsQueue, vsTodo, vsPool, vsMem, vsPixels, vsScreen, vsShown, vsMarks>>

\* A faulty UpdateSurfaceMemory that leaves the memory its buffer.
KeepsBuffer(m) == vsMem[m]

\* SetNeedRender(true): the buffer goes to the consumer.
SetNeedRender(m) == [vsMem[m] EXCEPT !.needRender = TRUE]

\* UpdateSurfaceMemory up to FlushBuffer; without a buffer it is an error.
RenderMarks ==
    /\ OnSurface /\ vsRender.at = "write" /\ vsFilter' = Forced
    /\ LET m == vsRender.item.mem IN
       IF vsMem[m].buf = 0 THEN vsMem' = vsMem /\ vsRender' = [vsRender EXCEPT !.at = "release"]
       ELSE vsMem' = [vsMem EXCEPT ![m] = SetNeedRender(m)] /\ vsRender' = [vsRender EXCEPT !.at = "flush"]
    /\ UNCHANGED <<vsPlugin, vsCaller, vsPush, vsQueue, vsTodo, vsPool, vsPixels, vsScreen, vsShown, vsMarks>>

\* FlushBuffer; when it fails the memory keeps the buffer.
RenderFlushes(ok) ==
    /\ vsRender.at = "flush" /\ (~ok => vsMarks.refused < MaxRefused)
    /\ LET m == vsRender.item.mem IN
       /\ vsScreen' = IF ok THEN Append(vsScreen, [buf |-> vsMem[m].buf, frame |-> vsRender.item.frame]) ELSE vsScreen
       /\ vsMem' = IF ok THEN vsMem ELSE [vsMem EXCEPT ![m].needRender = FALSE]
    /\ vsMarks' = [vsMarks EXCEPT !.refused = IF ok THEN @ ELSE @ + 1,
                                  !.complete = @ \/ (ok /\ IsLast(vsRender.item.frame))]
    /\ vsRender' = [vsRender EXCEPT !.at = "release"]
    /\ UNCHANGED <<vsPlugin, vsCaller, vsFilter, vsPush, vsQueue, vsTodo, vsPool, vsPixels, vsShown>>

\* SDL: Write looks at one event first, and one that quits costs the frame; else the
\* picture is copied to the texture and presented.
RenderDisplays(quit) ==
    /\ ~OnSurface /\ vsRender.at = "write" /\ vsFilter' = Forced
    /\ quit => vsMarks.refused < MaxRefused
    /\ vsShown' = IF quit \/ IsLast(vsRender.item.frame) THEN vsShown ELSE Append(vsShown, vsRender.item.frame)
    /\ vsMarks' = [vsMarks EXCEPT !.refused = IF quit THEN @ + 1 ELSE @,
                                  !.complete = @ \/ (~quit /\ IsLast(vsRender.item.frame))]
    /\ vsRender' = [vsRender EXCEPT !.at = "release"]
    /\ UNCHANGED <<vsPlugin, vsCaller, vsPush, vsQueue, vsTodo, vsPool, vsMem, vsPixels, vsScreen>>

\* The end of RenderFrame; after EVENT_COMPLETE the task pauses itself (PauseAsync).
RenderReleases ==
    /\ vsRender.at = "release"
    /\ BackToPool(vsRender.item.mem)
    /\ vsRender' = [task |-> IF vsMarks.complete /\ IsLast(vsRender.item.frame) THEN "paused" ELSE vsRender.task,
                    at |-> "idle", item |-> NoFrame]
    /\ UNCHANGED <<vsPlugin, vsCaller, vsFilter, vsPush, vsQueue, vsTodo, vsPixels, vsScreen, vsShown, vsMarks>>

\* The consumer takes the pixels it shows and gives the buffer back.
ConsumerShows ==
    /\ vsScreen # <<>>
    /\ vsScreen' = Tail(vsScreen)
    /\ vsShown' = IF IsLast(Head(vsScreen).frame) THEN vsShown ELSE Append(vsShown, vsPixels[Head(vsScreen).buf])
    /\ UNCHANGED <<vsPlugin, vsCaller, vsFilter, vsPush, vsQueue, vsRender, vsTodo, vsPool, vsMem, vsPixels, vsMarks>>

-----------------------------------------------------------------------------
(* The player's calls.  Pause, Resume, Stop and Flush of both plug-ins      *)
(* always succeed.                                                          *)

VsSteps(c) ==
    CASE c = "Start" -> <<"queue on", "task start", "running", "notify">>
      [] c = "Pause" -> <<"paused", "queue off", "task pause", "task paused">>
      [] c = "Resume" -> <<"force", "running", "notify", "queue on", "task start">>
      [] c = "Flush" -> <<"flushing", "notify", "queue off", "task pause", "task paused",
                          "flushed", "queue on", "task start", "first">>
      [] c = "Stop" -> <<"stopped", "notify", "queue off", "task pause", "task stopped">>

VsCallable(c) ==
    CASE c = "Start" -> vsFilter.state \in {"ready", "paused"}
      [] c = "Pause" -> vsFilter.state \in {"ready", "running"}
      [] c = "Resume" -> vsFilter.state = "paused"
      [] c = "Flush" -> vsFilter.state \in {"ready", "running", "paused"}
      [] c = "Stop" -> vsFilter.state \in {"ready", "running", "paused"}

VsPlayerCalls(c) ==
    /\ vsTodo = <<>> /\ vsMarks.calls < MaxVsCalls /\ VsCallable(c)
    /\ vsTodo' = VsSteps(c) /\ vsMarks' = [vsMarks EXCEPT !.calls = @ + 1]
    /\ UNCHANGED <<vsPlugin, vsCaller, vsFilter, vsPush, vsQueue, vsRender, vsPool, vsMem, vsPixels, vsScreen, vsShown>>

\* What the step leaves of the filter.
FilterAfter(step) ==
    CASE step \in {"running", "paused"} -> [vsFilter EXCEPT !.state = step]
      [] step = "stopped" -> [vsFilter EXCEPT !.state = "initialized"]
      [] step = "force" -> [vsFilter EXCEPT !.force = TRUE]
      [] step = "first" -> [vsFilter EXCEPT !.first = TRUE]
      [] step = "flushing" -> [vsFilter EXCEPT !.flushing = TRUE]
      [] step = "flushed" -> [vsFilter EXCEPT !.flushing = FALSE]
      [] OTHER -> vsFilter

\* Task::Start and Pause: Pause waits until the iteration under way has ended.
TaskAfter(step) ==
    CASE step = "task start" -> "running"
      [] step = "task pause" /\ vsRender.task = "running" -> "pausing"
      [] step = "task paused" /\ vsRender.task = "pausing" -> "paused"
      [] step = "task stopped" -> "stopped"
      [] OTHER -> vsRender.task

\* SetActive(false) wakes who waits and clears the queue: the frames go back to the pool.
QueueOff ==
    /\ vsQueue' = [frames |-> <<>>, active |-> FALSE]
    /\ vsMem' = [m \in Slots |-> IF \E e \in ToSet(vsQueue.frames) : e.mem = m
                                 THEN [vsMem[m] EXCEPT !.at = "pool"] ELSE vsMem[m]]
    /\ vsPool' = vsPool \o [i \in DOMAIN vsQueue.frames |-> vsQueue.frames[i].mem]

VsPlayerStep ==
    /\ vsTodo # <<>> /\ vsTodo' = Tail(vsTodo)
    /\ LET step == Head(vsTodo) IN
       /\ step \in {"task paused", "task stopped"} => vsRender.at = "idle"
       /\ vsFilter' = FilterAfter(step)
       /\ vsRender' = [vsRender EXCEPT !.task = TaskAfter(step)]
       /\ IF step = "queue off" THEN QueueOff
          ELSE /\ vsQueue' = [vsQueue EXCEPT !.active = @ \/ step = "queue on"]
               /\ MemoriesStay
       /\ vsPush' = IF step = "notify" /\ vsPush.blocking /\ vsPush.at = "sleep"
                    THEN [vsPush EXCEPT !.at = "woken"] ELSE vsPush
    /\ UNCHANGED <<vsPlugin, vsCaller, vsPixels, vsScreen, vsShown, vsMarks>>

VideoSinksNext ==
    \/ CallerAsks \/ CallerSets \/ PluginCreated \/ PluginTold \/ PluginReady
    \/ DecoderTakes \/ \E m \in Slots : DecoderFills(m)
    \/ VideoEnters \/ VideoChecks \/ VideoQueues
    \/ RenderPops \/ RenderDrops \/ RenderMarks \/ RenderReleases \/ ConsumerShows
    \/ \E b \in BOOLEAN : RenderFlushes(b) \/ RenderDisplays(b)
    \/ \E c \in {"Start", "Pause", "Resume", "Flush", "Stop"} : VsPlayerCalls(c)
    \/ VsPlayerStep

VideoSinksSpec == VideoSinksInit /\ [][VideoSinksNext]_vsVars

-----------------------------------------------------------------------------
(* Properties.                                                             *)

\* A picture on its way to the screen is the frame it was flushed for, and frames are
\* shown once and in their order: no memory writes into a buffer that it gave away,
\* whatever drops, refusals, pauses and flushes come between.
PicturesAreWhole ==
    /\ \A i \in DOMAIN vsScreen : IsLast(vsScreen[i].frame) \/ vsPixels[vsScreen[i].buf] = vsScreen[i].frame
    /\ \A i \in 1 .. Len(vsShown) - 1 : vsShown[i] < vsShown[i + 1]

\* A surface that was given reaches the plug-in: not so, for SetVideoSurface may find no
\* plug-in, Negotiate create it and find no surface, and the surface then be kept.
SurfaceArrives == vsCaller.at = "done" /\ vsPlugin.at = "waits" => vsCaller.given

\* A frame that was pushed to a filter that runs and is not flushed comes to the task:
\* not so, for Resume is RUNNING before its queue is active.
RunningQueueTakes == vsPush.at = "queue" /\ vsFilter.state = "running" /\ vsTodo = <<>> => vsQueue.active
=============================================================================
