---------------------------- MODULE AudioRender ----------------------------
(***************************************************************************)
(* AudioSinkFilter over each of its plug-ins: HdiSink ("hdi"), the sink of  *)
(* the audio server ("server") and the SDL one ("sdl").                     *)
(*                                                                         *)
(* Threads: the one that pushes frames (PushData and, in it, the plug-in's  *)
(* Write), the player, the device that plays (for SDL, its AudioCallback),  *)
(* and the audio server, which may interrupt.                               *)
(*                                                                         *)
(* A frame is AuParts samples; a sample is its number in the stream.  The   *)
(* devices are external: a running one takes what it has room for, one that *)
(* does not run refuses (HDI and server) or keeps its data (SDL's queue, the *)
(* plug-in's RingBuffer).                                                   *)
(***************************************************************************)
EXTENDS Integers, Sequences, SequencesExt, FiniteSets

CONSTANTS AuSinks,       \* the plug-ins
          AuFrames,      \* frames of the stream
          AuParts,       \* samples of a frame
          AuRoom,        \* samples the device or the RingBuffer holds
          MaxAuCalls,    \* calls of the player
          MaxInterrupts  \* forced interrupts of the audio server

ASSUME AudioAssumption ==
    /\ AuSinks \subseteq {"hdi", "server", "sdl"}
    /\ {AuFrames, AuParts, AuRoom} \subseteq Nat \ {0} /\ AuParts <= AuRoom
    /\ {MaxAuCalls, MaxInterrupts} \subseteq Nat

VARIABLES
    auSink,       \* the plug-in
    auState,      \* FilterBase::state_, isFlushing, and pluginState_ of Plugin::AudioSink
    auPush,       \* PushData: where it is, the frame, the samples left, renderMutex_, pushThreadIsBlocking
    auTodo,       \* steps left of the player's call
    auDevice,     \* the renderer: whether it exists and runs, what it holds
    auFlags,      \* processing_, RingBuffer::isActive_; whether the server has forced a pause
    auTaken,      \* samples that the renderer or the RingBuffer took (history)
    auWhole,      \* frames written while the sink ran and nobody called (history)
    auVolume,     \* volume_ of the filter (0: not set), and the renderer's
    auMarks       \* calls and interrupts; whether Drain and the end came (history)

auVars == <<auSink, auState, auPush, auTodo, auDevice, auFlags, auTaken, auWhole, auVolume, auMarks>>

AuAway == [at |-> "away", frame |-> 0, left |-> <<>>, locked |-> FALSE, blocking |-> FALSE, clean |-> FALSE]

\* HdiSink creates its render in Prepare, the server's sink in Init.
Renderer(exists) == [exists |-> exists, runs |-> FALSE, held |-> <<>>]

AudioTypeOK ==
    /\ auSink \in AuSinks
    /\ auState.filter \in {"preparing", "ready", "running", "paused", "initialized"}
    /\ auState.plugin \in {"initialized", "prepared", "running", "paused", "destroyed"}
    /\ auPush.at \in {"away", "enter", "check", "sleep", "woken", "forced", "write", "full", "drain"}
    /\ Len(auPush.left) <= AuParts /\ Len(auDevice.held) <= AuRoom
    /\ auDevice.runs => auDevice.exists

\* After Negotiate: the plug-in is there and has its parameters.
AudioInit ==
    /\ auSink \in AuSinks
    /\ auState = [filter |-> "preparing", flushing |-> FALSE, plugin |-> "initialized"]
    /\ auPush = AuAway
    /\ auTodo = <<>>
    /\ auDevice = Renderer(auSink # "hdi")
    /\ auFlags = [processing |-> FALSE, forced |-> FALSE, active |-> TRUE]
    /\ auTaken = <<>> /\ auWhole = {} /\ auVolume = [asked |-> 0, set |-> 0]
    /\ auMarks = [calls |-> 0, interrupts |-> 0, completed |-> FALSE]

SamplesOf(f) == [i \in 1 .. AuParts |-> (f - 1) * AuParts + i]

\* A write that nothing disturbs: the sink runs, and no call or interrupt is under way.
Undisturbed == auTodo = <<>> /\ auDevice.runs /\ ~auFlags.forced
               /\ (auSink = "hdi" => auFlags.processing) /\ (auSink = "sdl" => auFlags.active)

AuDisturbed == [auPush EXCEPT !.clean = FALSE]

-----------------------------------------------------------------------------
(* PushData and the plug-ins' Write.                                       *)

Ignored == auState.flushing \/ auState.filter = "initialized"

PushEnters ==
    /\ auPush.at = "away" /\ auPush.frame < AuFrames /\ auState.filter # "preparing"
    /\ auPush' = [auPush EXCEPT !.frame = @ + 1, !.at = IF Ignored THEN "away" ELSE "enter"]
    /\ UNCHANGED <<auSink, auState, auTodo, auDevice, auFlags, auTaken, auWhole, auVolume, auMarks>>

WritesFrame ==
    [auPush EXCEPT !.at = IF auSink = "server" THEN "forced" ELSE "write", !.blocking = FALSE,
                   !.left = SamplesOf(auPush.frame), !.clean = Undisturbed]

\* It waits unless the filter runs; the state is tested again after the wait.
PushTests ==
    /\ auPush.at = "enter"
    /\ auPush' = IF auState.filter = "running" THEN WritesFrame
                 ELSE [auPush EXCEPT !.at = "check", !.blocking = TRUE]
    /\ UNCHANGED <<auSink, auState, auTodo, auDevice, auFlags, auTaken, auWhole, auVolume, auMarks>>

\* The predicate of the wait, and the sleep, between which a notification is lost: those
\* who notify do not hold mutex_.
PushChecks ==
    /\ auPush.at \in {"check", "woken"}
    /\ auPush' = IF Ignored THEN [auPush EXCEPT !.at = "away", !.blocking = FALSE]
                 ELSE IF auState.filter = "running" THEN WritesFrame
                 ELSE [auPush EXCEPT !.at = "sleep"]
    /\ UNCHANGED <<auSink, auState, auTodo, auDevice, auFlags, auTaken, auWhole, auVolume, auMarks>>

AuEnds(whole) ==
    /\ auPush' = [auPush EXCEPT !.at = IF auPush.frame = AuFrames THEN "drain" ELSE "away",
                                !.left = <<>>, !.locked = FALSE]
    /\ auWhole' = IF whole THEN auWhole \cup {auPush.frame} ELSE auWhole

\* AudioServerSinkPlugin::Write waits while isForcePaused_: in vain, for isPaused_ of the
\* callback, that OnInterrupt sets, is a copy of it and no reference.  Then it takes
\* renderMutex_ until the frame is written.
ServerWaits ==
    /\ auPush.at = "forced"
    /\ auPush' = [auPush EXCEPT !.at = "write", !.locked = auDevice.exists]
    /\ UNCHANGED <<auSink, auState, auTodo, auDevice, auFlags, auTaken, auWhole, auVolume, auMarks>>

AuTakes(k) ==
    /\ auDevice' = [auDevice EXCEPT !.held = @ \o SubSeq(auPush.left, 1, k)]
    /\ auTaken' = auTaken \o SubSeq(auPush.left, 1, k)

\* What a write of n samples returns: the number the renderer takes, or -1.
AuAccepted(n) ==
    LET room == AuRoom - Len(auDevice.held) IN
    IF ~auDevice.exists \/ ~auDevice.runs THEN {-1}
    ELSE IF room = 0 THEN {0} ELSE 1 .. (IF n < room THEN n ELSE room)

\* A faulty loop that takes a full write for granted.
AdvancesWhole(k) == [auPush EXCEPT !.left = <<>>]

\* frame += renderSize, remainingBytes -= renderSize
AdvancesTaken(k) == [auPush EXCEPT !.left = SubSeq(@, k + 1, Len(@))]

\* RenderFrame: one turn of its loop, under renderMutex_; processing_ is tested before.
HdiRenders ==
    /\ auSink = "hdi" /\ auPush.at = "write"
    /\ IF auPush.left = <<>> \/ ~auFlags.processing
       THEN AuEnds(auPush.clean) /\ UNCHANGED <<auDevice, auTaken>>
       ELSE \E k \in AuAccepted(Len(auPush.left)) :
              IF k = -1 THEN AuEnds(auPush.clean) /\ UNCHANGED <<auDevice, auTaken>>
              ELSE /\ AuTakes(k) /\ auWhole' = auWhole
                   /\ auPush' = [AdvancesTaken(k) EXCEPT !.at = IF k = 0 THEN "full" ELSE "write"]
    /\ UNCHANGED <<auSink, auState, auTodo, auFlags, auVolume, auMarks>>

\* The wait for room ends after 5 ms, or when processing_ is false.
HdiWaits ==
    /\ auPush.at = "full" /\ auPush' = [auPush EXCEPT !.at = "write"]
    /\ UNCHANGED <<auSink, auState, auTodo, auDevice, auFlags, auTaken, auWhole, auVolume, auMarks>>

\* The loop of AudioServerSinkPlugin::Write, which sleeps when the renderer took less.
ServerWrites ==
    /\ auSink = "server" /\ auPush.at = "write"
    /\ IF auPush.left = <<>> THEN AuEnds(auPush.clean) /\ UNCHANGED <<auDevice, auTaken>>
       ELSE \E k \in AuAccepted(Len(auPush.left)) :
              IF k = -1 THEN AuEnds(auPush.clean) /\ UNCHANGED <<auDevice, auTaken>>
              ELSE AuTakes(k) /\ auPush' = AdvancesTaken(k) /\ auWhole' = auWhole
    /\ UNCHANGED <<auSink, auState, auTodo, auFlags, auVolume, auMarks>>

\* RingBuffer::WriteBuffer: all or nothing; it waits for room while it is active.
SdlWrites ==
    /\ auSink = "sdl" /\ auPush.at = "write"
    /\ \/ ~auFlags.active /\ UNCHANGED <<auDevice, auTaken>>
       \/ auFlags.active /\ Len(auDevice.held) + AuParts <= AuRoom /\ AuTakes(AuParts)
    /\ AuEnds(auPush.clean)
    /\ UNCHANGED <<auSink, auState, auTodo, auFlags, auVolume, auMarks>>

\* The buffer with the flag of the end: Drain, then EVENT_COMPLETE.  SDL's waits for the
\* RingBuffer, the server's for the renderer, under renderMutex_; HDI's sleeps a moment.
Drains ==
    /\ auPush.at = "drain"
    /\ auSink = "hdi" \/ auDevice.held = <<>> \/ (auSink = "server" /\ ~auDevice.runs)
    /\ auPush' = [auPush EXCEPT !.at = "away"]
    /\ auMarks' = [auMarks EXCEPT !.completed = TRUE]
    /\ UNCHANGED <<auSink, auState, auTodo, auDevice, auFlags, auTaken, auWhole, auVolume>>

\* The device plays; SDL's AudioCallback reads the RingBuffer.
DevicePlays ==
    /\ auDevice.runs /\ auDevice.held # <<>>
    /\ auDevice' = [auDevice EXCEPT !.held = Tail(@)]
    /\ UNCHANGED <<auSink, auState, auPush, auTodo, auFlags, auTaken, auWhole, auVolume, auMarks>>

\* OnInterrupt with INTERRUPT_FORCE: the server has paused the renderer, or resumes it.
Interrupted(on) ==
    /\ auSink = "server" /\ auFlags.forced = ~on /\ auDevice.exists
    /\ on => auMarks.interrupts < MaxInterrupts
    /\ auFlags' = [auFlags EXCEPT !.forced = on]
    /\ auMarks' = [auMarks EXCEPT !.interrupts = IF on THEN @ + 1 ELSE @]
    /\ auDevice' = IF on THEN [auDevice EXCEPT !.runs = FALSE]
                   ELSE [auDevice EXCEPT !.runs = auState.filter = "running" /\ auTodo = <<>>]
    /\ auPush' = AuDisturbed
    /\ UNCHANGED <<auSink, auState, auTodo, auTaken, auWhole, auVolume>>

-----------------------------------------------------------------------------
(* The player's calls, each a sequence of the filter's and the plug-in's steps. *)

\* SetVolumeToPlugin: HdiSink refuses it while it has no render.
VolumeSet == IF auVolume.asked > 0 /\ auDevice.exists THEN auVolume.asked ELSE auVolume.set

AuSteps(c) ==
    CASE c = "Configure" -> <<"plugin volume", "plugin prepare", "ready">>
      [] c = "Start" -> <<"run", "plugin start", "notify">>
      [] c = "Pause" -> <<"pause", "plugin pause">>
      [] c = "Resume" -> <<"run", "notify", "plugin resume">>
      [] c = "Flush" -> <<"flush", "notify", "plugin resume", "unflush">>
      [] c = "Stop" -> <<"stop", "plugin stop", "notify">>
      [] c = "Release" -> <<"plugin stop", "plugin release">>

AuCallable(c) ==
    CASE c = "Configure" -> auState.filter = "preparing"
      [] c = "Start" -> auState.filter \in {"ready", "paused"}
      [] c = "Pause" -> auState.filter \in {"ready", "running"}
      [] c = "Resume" -> auState.filter = "paused"
      [] c = "Flush" -> auState.filter \in {"running", "paused"}
      [] c = "Stop" -> auState.filter \notin {"initialized", "preparing"}
      [] c = "Release" -> auState.filter = "initialized" /\ auDevice.exists

AuPlayerCalls(c) ==
    /\ auTodo = <<>> /\ auMarks.calls < MaxAuCalls /\ AuCallable(c)
    /\ auTodo' = AuSteps(c) /\ auMarks' = [auMarks EXCEPT !.calls = @ + 1]
    /\ auPush' = AuDisturbed
    /\ UNCHANGED <<auSink, auState, auDevice, auFlags, auTaken, auWhole, auVolume>>

AuFilterBecomes(state) ==
    /\ auState' = state /\ UNCHANGED <<auPush, auDevice, auFlags>>

\* NotifyOne, if pushThreadIsBlocking.
AuNotifies ==
    /\ auPush' = IF auPush.blocking /\ auPush.at = "sleep" THEN [auPush EXCEPT !.at = "woken"] ELSE auPush
    /\ UNCHANGED <<auState, auDevice, auFlags>>

\* The plug-ins take renderMutex_, which the server's Write keeps.
RendererFree == auPush.locked => auSink # "server"

\* Plugin::AudioSink calls the plug-in in the states `from` alone; in another one it ignores
\* the call, or (Start) refuses it.
PluginCall(from, to) ==
    /\ RendererFree /\ auState.plugin \in from
    /\ auState' = [auState EXCEPT !.plugin = to] /\ UNCHANGED auPush

PluginIgnores(from) == auState.plugin \notin from /\ UNCHANGED <<auState, auPush, auDevice, auFlags>>

PluginStart ==
    \/ /\ PluginCall({"prepared"}, "running")
       /\ auDevice' = [auDevice EXCEPT !.runs = auDevice.exists]
       /\ auFlags' = [auFlags EXCEPT !.processing = auDevice.exists, !.active = TRUE]
    \/ PluginIgnores({"prepared"})

\* The server's Resume is its Start, HDI's sets processing_ whether it has a render or not.
PluginResume ==
    \/ /\ PluginCall({"paused"}, "running")
       /\ auDevice' = [auDevice EXCEPT !.runs = auDevice.exists]
       /\ auFlags' = [auFlags EXCEPT !.processing = TRUE, !.active = TRUE]
    \/ PluginIgnores({"paused"})

PluginPause ==
    \/ /\ PluginCall({"running"}, "paused")
       /\ auDevice' = [auDevice EXCEPT !.runs = FALSE]
       /\ auFlags' = [auFlags EXCEPT !.processing = FALSE]
    \/ PluginIgnores({"running"})

\* What a stopped renderer held is gone; SDL's Stop clears the RingBuffer.
PluginStop ==
    \/ /\ PluginCall({"running", "paused", "prepared"}, "prepared")
       /\ auDevice' = [auDevice EXCEPT !.runs = FALSE, !.held = <<>>]
       /\ auFlags' = [auFlags EXCEPT !.processing = FALSE, !.active = FALSE]
    \/ PluginIgnores({"running", "paused", "prepared"})

\* Prepare: CreateRender, SetParams, SDL_OpenAudio and a RingBuffer.
PluginPrepare ==
    /\ PluginCall({"initialized"}, "prepared")
    /\ auDevice' = Renderer(TRUE) /\ UNCHANGED auFlags

\* Deinit: DestroyRender, Release.
PluginRelease ==
    /\ PluginCall({"prepared"}, "destroyed")
    /\ auDevice' = Renderer(FALSE) /\ UNCHANGED auFlags

\* A plug-in that refuses Start, which is paused, ends the filter's Start.
StartRefused == Head(auTodo) = "plugin start" /\ auState.plugin \notin {"prepared", "running"}

AuDoes(step) ==
    CASE step = "run" -> AuFilterBecomes([auState EXCEPT !.filter = "running"])
      [] step = "pause" -> AuFilterBecomes([auState EXCEPT !.filter = "paused"])
      [] step = "stop" -> AuFilterBecomes([auState EXCEPT !.filter = "initialized"])
      [] step = "flush" -> AuFilterBecomes([auState EXCEPT !.flushing = TRUE])
      [] step = "unflush" -> AuFilterBecomes([auState EXCEPT !.flushing = FALSE])
      [] step = "notify" -> AuNotifies
      [] step = "plugin start" -> PluginStart
      [] step = "plugin resume" -> PluginResume
      [] step = "plugin pause" -> PluginPause
      [] step = "plugin stop" -> PluginStop
      [] step = "plugin release" -> PluginRelease
      [] step = "plugin prepare" -> PluginPrepare
      [] step = "plugin volume" -> UNCHANGED <<auState, auPush, auDevice, auFlags>>
      [] step = "ready" -> AuFilterBecomes([auState EXCEPT !.filter = "ready"])

AuPlayerStep ==
    /\ auTodo # <<>> /\ AuDoes(Head(auTodo))
    /\ auTodo' = IF StartRefused THEN <<>> ELSE Tail(auTodo)
    /\ auVolume' = IF Head(auTodo) = "plugin volume" THEN [auVolume EXCEPT !.set = VolumeSet] ELSE auVolume
    /\ UNCHANGED <<auSink, auTaken, auWhole, auMarks>>

\* SetVolume of the filter, at any time.
SetVolume ==
    /\ auTodo = <<>> /\ auVolume.asked = 0
    /\ auVolume' = [asked |-> 1, set |-> IF auDevice.exists THEN 1 ELSE auVolume.set]
    /\ UNCHANGED <<auSink, auState, auPush, auTodo, auDevice, auFlags, auTaken, auWhole, auMarks>>

AudioNext ==
    \/ PushEnters \/ PushTests \/ PushChecks
    \/ ServerWaits \/ HdiRenders \/ HdiWaits \/ ServerWrites \/ SdlWrites \/ Drains
    \/ DevicePlays \/ \E on \in BOOLEAN : Interrupted(on)
    \/ \E c \in {"Configure", "Start", "Pause", "Resume", "Flush", "Stop", "Release"} : AuPlayerCalls(c)
    \/ AuPlayerStep \/ SetVolume

AudioSpec == AudioInit /\ [][AudioNext]_auVars

-----------------------------------------------------------------------------
(* Properties.                                                             *)

\* Samples come to the device in order and once, and a frame whose Write nothing
\* disturbed comes whole, however the device splits it: RenderFrame and the server's
\* Write go on after what was taken, and a wait for room loses nothing.
AudioComesWhole ==
    /\ \A i \in 1 .. Len(auTaken) - 1 : auTaken[i] < auTaken[i + 1]
    /\ \A f \in auWhole : ToSet(SamplesOf(f)) \subseteq ToSet(auTaken)

\* A filter that runs writes to a plug-in that runs: not so, for Start and Resume set
\* state_ first, and a frame that comes in between is lost; and a filter that was paused
\* before it ran resumes a plug-in that was never started, and Plugin::AudioSink ignores it.
RunningSinkRuns ==
    auPush.at = "write" /\ auState.filter = "running" /\ ~auState.flushing =>
        auDevice.runs \/ auFlags.forced

\* A sink that is paused is silent: not so, for FlushEnd resumes the plug-in.
PausedIsSilent == auTodo = <<>> /\ auState.filter = "paused" => ~auDevice.runs

\* A sink that is ready has the volume that was asked for: not so with HdiSink, for
\* Configure sets the volume before Prepare creates the render.
VolumeIsKept == auTodo = <<>> /\ auState.filter = "ready" => auVolume.set = auVolume.asked

\* A write waits while the server has forced a pause: not so, see ServerWaits; the paused
\* renderer refuses the frame, and it is lost.
ForcedPauseWaits == [][auPush.at = "forced" /\ auFlags.forced => auPush'.at = "forced"]_auVars
=============================================================================
