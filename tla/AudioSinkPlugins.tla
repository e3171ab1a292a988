-------------------------- MODULE AudioSinkPlugins --------------------------
(***************************************************************************)
(* The parameters of the audio sinks: AudioServerSinkPlugin ("server"),     *)
(* HdiSink ("hdi") and SdlAudioSinkPlugin ("sdl"), the resampler of two of  *)
(* them and the tables of hdi_au_utils, from the negotiation of a stream to *)
(* the samples the device hears.  AudioRender has their Write and what runs *)
(* against it; here one call follows the other.                             *)
(*                                                                         *)
(* A stream is its format, channels, rate, bits of a coded sample and        *)
(* samples of a frame (0: not told).  A frame is a sequence of samples, each *)
(* its channel and its time: packed, or a plane for each channel.  The       *)
(* devices are external: they may refuse, and hear rightly what comes in the *)
(* format they were opened with.                                             *)
(***************************************************************************)
EXTENDS Integers, Sequences

CONSTANTS SpKinds,     \* the plug-ins
          SpStreams,   \* the streams
          PortBases,   \* widths of sample that the ports of an HDI adapter list
          MaxSpStreams, MaxSpRefusals \* bounds: streams, refusals of devices

ASSUME SinkPluginAssumption ==
    /\ SpKinds \subseteq {"server", "hdi", "sdl"} /\ {MaxSpStreams, MaxSpRefusals} \subseteq Nat
    /\ \A s \in SpStreams : {s.channels, s.rate, s.bits, s.period} \subseteq Nat

VARIABLES
    spKind,      \* the plug-in, and for HDI usingDefaultInCaps_
    spCore,      \* pluginState_, and how far the filter is
    spPlugin,    \* members of the plug-in
    spDevice,    \* the renderer, as it was opened
    spWorld,     \* adapters loaded, renderers made, whether SDL's device is open
    spStream,    \* the stream, whether the plug-in took each parameter of it
    spHeard,     \* what the device heard of the frame written last (history)
    spMarks      \* streams and refusals so far; whether bits of an earlier stream stay

spVars == <<spKind, spCore, spPlugin, spDevice, spWorld, spStream, spHeard, spMarks>>

Sample(base, planar) == [base |-> base, planar |-> planar]
NoSample == Sample("none", FALSE)
NoResampler == [bits |-> 0, src |-> NoSample, channels |-> 0]
SpNoStream == [fmt |-> NoSample, channels |-> 0, rate |-> 0, bits |-> 0, period |-> 0]
SpNoDevice == [exists |-> FALSE, runs |-> FALSE, fmt |-> NoSample, channels |-> 0, rate |-> 0]

\* reFfDestFmt_ and reStdDestFmt_: what is resampled becomes this.
Sixteen == Sample("S16", FALSE)

NewPlugin ==
    [fmt |-> NoSample, channels |-> 0, rate |-> 0, bits |-> 0, period |-> 0,
     supported |-> FALSE, reformat |-> FALSE, src |-> NoSample, resampler |-> NoResampler,
     rendererFmt |-> NoSample, rendererChannels |-> 1, rendererRate |-> 8000,
     packedIn |-> FALSE, cache |-> 0, layout |-> "mono"]

SinkPluginTypeOK ==
    /\ spKind.sink \in SpKinds /\ spKind.defaultCaps \in BOOLEAN
    /\ spCore.plugin \in {"none", "created", "initialized", "prepared", "running", "paused"}
    /\ spCore.filter \in {"new", "negotiated", "configured", "ready"}
    /\ spWorld.adapters \in Nat /\ spWorld.renderers \in Nat /\ spWorld.sdlOpen \in BOOLEAN
    /\ spHeard \in {"nothing", "frame", "noise"}

SinkPluginInit ==
    /\ spKind \in [sink : SpKinds, defaultCaps : BOOLEAN] /\ (spKind.sink # "hdi" => spKind.defaultCaps)
    /\ spCore = [plugin |-> "none", filter |-> "new", known |-> FALSE]
    /\ spPlugin = NewPlugin /\ spDevice = SpNoDevice
    /\ spWorld = [adapters |-> 0, renderers |-> 0, sdlOpen |-> FALSE]
    /\ spStream = [is |-> SpNoStream, taken |-> TRUE] /\ spHeard = "nothing"
    /\ spMarks = [streams |-> 0, refusals |-> 0, staleBits |-> FALSE]

SpIs(kind) == spKind.sink = kind

-----------------------------------------------------------------------------
(* Formats: g_aduFmtMap, TranslateFormat, g_phft, and what the plug-ins say  *)
(* of themselves when they are registered.                                  *)

\* The formats of the audio server, and those that ffmpeg has.
ServerNative(f) == ~f.planar /\ f.base \in {"U8", "S16", "S24", "S32"}
FfmpegHas(f) == f.base \in {"U8", "S16", "S32", "F32", "F64", "S64"}

ServerTells(f) == ServerNative(f) \/ FfmpegHas(f)

\* SDL says more than TranslateFormat translates.
SdlTells(f) == f.base \in {"U8", "S8", "U16", "S16", "U32", "S32", "F32", "F64"}
Translated(f) == IF f.base \in {"U8", "F32", "F64", "S32", "S16"} THEN f ELSE NoSample

\* PluginAuFormat2HdiAttrs knows less than HdiAuFormat2PluginFormat.
HdiAttrsKnow(f) == f.base \in {"U8", "S8", "U16", "S16", "U32", "S32"}
PortTells(f) == f.base \in PortBases /\ ~(f.planar /\ f.base \in {"U24", "S64"})

\* The first port for output says what it can; if it says nothing, S16 and S16P.
HdiTells(f) == IF spKind.defaultCaps THEN f.base = "S16" ELSE PortTells(f)

SpTells(f) == CASE SpIs("server") -> ServerTells(f) [] SpIs("hdi") -> HdiTells(f) [] SpIs("sdl") -> SdlTells(f)

ServerRates == {8000, 11025, 12000, 16000, 22050, 24000, 32000, 44100, 48000, 64000, 96000}

\* GetPcmBytes
PcmBytes == [base \in {"U8", "S8", "U16", "S16", "U32", "S32", "none"} |->
               IF base \in {"U8", "S8"} THEN 1 ELSE IF base \in {"U16", "S16"} THEN 2
               ELSE IF base = "none" THEN 0 ELSE 4]

-----------------------------------------------------------------------------
(* Negotiation: a plug-in is made and initialised, or used again.            *)

SpRefuses == spMarks.refusals < MaxSpRefusals
SpRefused == [spMarks EXCEPT !.refusals = @ + 1]

\* HdiSink::Init: the adapter is loaded and, when its ports fail three times, unloaded.
LoadsAdapter(world, ok) == [world EXCEPT !.adapters = IF ok THEN @ + 1 ELSE @]

\* AudioServerSinkPlugin::Init creates the renderer, SDL's Init registers a callback.
SpInits(world, ok) ==
    CASE SpIs("hdi") -> LoadsAdapter(world, ok)
      [] SpIs("server") -> [world EXCEPT !.renderers = IF ok THEN @ + 1 ELSE @]
      [] SpIs("sdl") -> world

MadePlugin(world, ok) ==
    /\ spPlugin' = NewPlugin
    /\ spDevice' = [SpNoDevice EXCEPT !.exists = ok /\ SpIs("server")]
    /\ spWorld' = SpInits(world, ok)
    /\ spCore' = [plugin |-> IF ok THEN "initialized" ELSE "created",
                  filter |-> IF ok THEN "negotiated" ELSE "new", known |-> ok \/ spCore.known]
    /\ spMarks' = [(IF ok THEN spMarks ELSE SpRefused) EXCEPT !.streams = @ + 1, !.staleBits = FALSE]

\* ReleaseRender and Deinit.  SDL's closes nothing.
Released ==
    [spWorld EXCEPT !.renderers = IF spDevice.exists /\ ~SpIs("sdl") THEN @ - 1 ELSE @,
                    !.adapters = IF SpIs("hdi") /\ spCore.plugin \notin {"none", "created"} THEN @ - 1 ELSE @]

SpMakes(ok) ==
    /\ spCore.plugin = "none" \/ (spCore.plugin = "created" /\ ~spCore.known)
    /\ ok \/ (SpRefuses /\ ~SpIs("sdl"))
    /\ MadePlugin(Released, ok)

\* Plugin::Base resets a plug-in that is prepared, no other.  bitsPerSample_ and the
\* layout stay; SDL's Reset keeps everything but the resampler.
ResetPlugin ==
    CASE SpIs("hdi") -> [NewPlugin EXCEPT !.cache = spPlugin.cache]
      [] SpIs("server") -> [NewPlugin EXCEPT !.bits = spPlugin.bits, !.layout = spPlugin.layout]
      [] SpIs("sdl") -> [spPlugin EXCEPT !.resampler = NoResampler]

\* HdiSink::Reset destroys the render, the server's stops the renderer and keeps it.
ResetDevice ==
    IF SpIs("hdi")
    THEN [device |-> SpNoDevice, world |-> [spWorld EXCEPT !.renderers = IF spDevice.exists THEN @ - 1 ELSE @]]
    ELSE [device |-> [spDevice EXCEPT !.runs = FALSE], world |-> spWorld]

SpReuses ==
    /\ spCore.plugin \in {"initialized", "prepared"} \/ (spCore.plugin = "created" /\ spCore.known)
    /\ IF spCore.plugin = "prepared"
       THEN /\ spPlugin' = ResetPlugin
            /\ spDevice' = ResetDevice.device /\ spWorld' = ResetDevice.world
       ELSE UNCHANGED <<spPlugin, spDevice, spWorld>>
    /\ spCore' = [spCore EXCEPT !.plugin = IF @ = "prepared" THEN "initialized" ELSE @, !.filter = "negotiated"]
    /\ spMarks' = [spMarks EXCEPT !.streams = @ + 1, !.staleBits = spPlugin'.bits # 0]

\* A renderer of the server that does not stop: the plug-in is given up for a new one.
SpReplaces == SpIs("server") /\ spCore.plugin = "prepared" /\ SpRefuses /\ MadePlugin(Released, TRUE)

SpNegotiates(s) ==
    /\ spCore.filter = "new" /\ spMarks.streams < MaxSpStreams /\ SpTells(s.fmt)
    /\ SpMakes(TRUE) \/ SpMakes(FALSE) \/ SpReuses \/ SpReplaces
    /\ spStream' = [is |-> s, taken |-> TRUE] /\ spHeard' = "nothing"
    /\ UNCHANGED spKind

\* GetParameter for what is upstream: always two channels; HDI's layout is the one it knows.
DefaultTold == [channels |-> 2, layout |-> "stereo"]
HdiTold == [channels |-> 2, layout |-> spPlugin.layout]
ToldUpstream == IF SpIs("hdi") THEN HdiTold ELSE DefaultTold

-----------------------------------------------------------------------------
(* SetParameter, and whether each parameter was taken.                      *)

Taking(plugin, ok) == [plugin |-> plugin, ok |-> ok]

\* A period and bits of 0 are not told, and not set.
SetPeriod(p, n) == IF n = 0 THEN p ELSE [p EXCEPT !.period = n]
SetBits(p, bits) == IF bits = 0 THEN p ELSE [p EXCEPT !.bits = bits]
SetLayout(p, n) == [p EXCEPT !.layout = IF n = 1 THEN "mono" ELSE IF n = 2 THEN "stereo" ELSE @]

\* The server keeps a rate and a number of channels that it refuses.
SetRate(p, rate) ==
    Taking([p EXCEPT !.rate = rate, !.rendererRate = IF rate \in ServerRates THEN rate ELSE @],
           rate \in ServerRates)

SetChannels(p, n) ==
    Taking([p EXCEPT !.channels = n, !.rendererChannels = IF n \in {1, 2} THEN n ELSE @], n \in {1, 2})

\* AssignSampleFmtIfSupported; the renderer supports what the server has.
SetFormat(p, f) ==
    CASE ServerNative(f) -> Taking([p EXCEPT !.supported = TRUE, !.reformat = FALSE, !.rendererFmt = f], TRUE)
      [] ~ServerNative(f) /\ FfmpegHas(f) ->
            Taking([p EXCEPT !.supported = TRUE, !.reformat = TRUE, !.src = f, !.rendererFmt = Sixteen], TRUE)
      [] OTHER -> Taking([p EXCEPT !.supported = FALSE], FALSE)

ServerSets(p, s) ==
    LET rate == SetRate(p, s.rate)
        channels == SetChannels(rate.plugin, s.channels)
        format == SetFormat(channels.plugin, s.fmt)
    IN Taking(SetLayout(SetPeriod(SetBits(format.plugin, s.bits), s.period), s.channels),
              rate.ok /\ channels.ok /\ format.ok)

\* HDI and SDL make two of more channels.
Capped(n) == IF n > 2 THEN 2 ELSE n

\* ProcessInputSampleFormat: with the default capabilities the device is given planes.
HdiSetFormat(p, f) ==
    IF ~HdiAttrsKnow(f) THEN Taking(p, FALSE)
    ELSE Taking([p EXCEPT !.rendererFmt = Sample(f.base, f.planar \/ spKind.defaultCaps),
                          !.packedIn = IF spKind.defaultCaps THEN ~f.planar ELSE @], TRUE)

HdiSets(p, s) ==
    HdiSetFormat(SetLayout(SetPeriod([p EXCEPT !.rate = s.rate, !.channels = Capped(s.channels)], s.period),
                           s.channels), s.fmt)

SdlSets(p, s) ==
    Taking(SetBits(SetPeriod([p EXCEPT !.rate = s.rate, !.channels = Capped(s.channels), !.fmt = s.fmt],
                             s.period), s.bits), TRUE)

SpSets(p, s) == CASE SpIs("server") -> ServerSets(p, s) [] SpIs("hdi") -> HdiSets(p, s) [] SpIs("sdl") -> SdlSets(p, s)

\* ConfigPluginWithMeta: a parameter that is refused is no reason to stop.
SpConfigures ==
    /\ spCore.filter = "negotiated"
    /\ LET set == SpSets(spPlugin, spStream.is)
       IN spPlugin' = set.plugin /\ spStream' = [spStream EXCEPT !.taken = set.ok]
    /\ spCore' = [spCore EXCEPT !.filter = "configured"]
    /\ UNCHANGED <<spKind, spDevice, spWorld, spHeard, spMarks>>

-----------------------------------------------------------------------------
(* Prepare.                                                                *)

\* Samples of 8 and of 24 bits are resampled by hand, whatever the format is.
ByHand(bits) == bits \in {8, 24}

SpResampler == [bits |-> IF ByHand(spPlugin.bits) THEN spPlugin.bits ELSE 0,
                src |-> IF SpIs("sdl") THEN Translated(spPlugin.fmt) ELSE spPlugin.src,
                channels |-> spPlugin.channels]

SpIsPrepared(plugin, device, world) ==
    /\ spPlugin' = plugin /\ spDevice' = device /\ spWorld' = world
    /\ spCore' = [spCore EXCEPT !.plugin = "prepared", !.filter = "ready"]
    /\ UNCHANGED spMarks

\* The player stops; the plug-in stays as it is.
SpIsRefused(world) ==
    /\ spCore' = [spCore EXCEPT !.filter = "new"] /\ spWorld' = world /\ UNCHANGED <<spPlugin, spDevice>>

ServerPrepares ==
    /\ SpIs("server") /\ spCore.plugin = "initialized" /\ spPlugin.supported
    /\ LET again == spPlugin.reformat \/ ByHand(spPlugin.bits)
           fmt == IF ByHand(spPlugin.bits) THEN Sixteen ELSE spPlugin.rendererFmt
       IN SpIsPrepared([spPlugin EXCEPT !.reformat = again, !.rendererFmt = fmt,
                                        !.resampler = IF again THEN SpResampler ELSE @],
                       [spDevice EXCEPT !.fmt = fmt, !.channels = spPlugin.rendererChannels,
                                        !.rate = spPlugin.rendererRate],
                       spWorld)

\* The cache for planes is as long as a frame of the period that was told.
HdiPrepares ==
    /\ SpIs("hdi") /\ spCore.plugin = "initialized"
    /\ LET bytes == PcmBytes[spPlugin.rendererFmt.base] * spPlugin.channels * spPlugin.period
           deinterleaves == spPlugin.channels = 2 /\ spKind.defaultCaps /\ spPlugin.packedIn
       IN SpIsPrepared([spPlugin EXCEPT !.cache = IF deinterleaves THEN bytes ELSE @],
                       [exists |-> TRUE, runs |-> FALSE, fmt |-> spPlugin.rendererFmt,
                        channels |-> spPlugin.channels, rate |-> spPlugin.rate],
                       [spWorld EXCEPT !.renderers = @ + 1])

\* SDL's device takes S16 alone, and is opened once.  needResample_ is never reset.
SdlPrepares ==
    /\ SpIs("sdl") /\ spCore.plugin = "initialized" /\ ~spWorld.sdlOpen
    /\ Translated(spPlugin.fmt) # NoSample
    /\ LET again == spPlugin.reformat \/ Translated(spPlugin.fmt) # Sixteen \/ ByHand(spPlugin.bits)
       IN SpIsPrepared([spPlugin EXCEPT !.reformat = again, !.resampler = IF again THEN SpResampler ELSE @],
                       [exists |-> TRUE, runs |-> FALSE, fmt |-> Sixteen,
                        channels |-> spPlugin.channels, rate |-> spPlugin.rate],
                       [spWorld EXCEPT !.sdlOpen = TRUE])

\* A plug-in that was not initialised, a format that is not supported, a device that
\* refuses (for a while); a format SDL cannot translate, after its device was opened.
PrepareFails ==
    \/ /\ \/ spCore.plugin # "initialized"
          \/ SpIs("server") /\ ~spPlugin.supported
          \/ SpIs("sdl") /\ spWorld.sdlOpen
       /\ SpIsRefused(spWorld) /\ UNCHANGED spMarks
    \/ /\ SpRefuses /\ ~(SpIs("sdl") /\ spWorld.sdlOpen) /\ spCore.plugin = "initialized"
       /\ SpIsRefused(spWorld) /\ spMarks' = SpRefused
    \/ /\ SpIs("sdl") /\ ~spWorld.sdlOpen /\ Translated(spPlugin.fmt) = NoSample
       /\ SpIsRefused([spWorld EXCEPT !.sdlOpen = TRUE]) /\ UNCHANGED spMarks

SpPrepares ==
    /\ spCore.filter = "configured"
    /\ ServerPrepares \/ HdiPrepares \/ SdlPrepares \/ PrepareFails
    /\ UNCHANGED <<spKind, spStream, spHeard>>

-----------------------------------------------------------------------------
(* Start, Pause, Resume, Stop and the end of the plug-in.                   *)

SpBecomes(from, to, device) ==
    /\ spCore.filter = "ready" /\ spCore.plugin \in from
    /\ spCore' = [spCore EXCEPT !.plugin = to, !.filter = IF to = "prepared" THEN "new" ELSE @]
    /\ spDevice' = device
    /\ UNCHANGED <<spKind, spPlugin, spStream, spHeard, spMarks>>

SpStarts == SpBecomes({"prepared"}, "running", [spDevice EXCEPT !.runs = TRUE]) /\ UNCHANGED spWorld
SpPauses == SpBecomes({"running"}, "paused", [spDevice EXCEPT !.runs = FALSE]) /\ UNCHANGED spWorld
SpResumes == SpBecomes({"paused"}, "running", [spDevice EXCEPT !.runs = TRUE]) /\ UNCHANGED spWorld

\* SDL's Stop closes the device.
SpStops ==
    /\ SpBecomes({"prepared", "running", "paused"}, "prepared",
                 IF SpIs("sdl") THEN SpNoDevice ELSE [spDevice EXCEPT !.runs = FALSE])
    /\ spWorld' = [spWorld EXCEPT !.sdlOpen = FALSE]

SpReleases ==
    /\ spCore.filter = "new" /\ spCore.plugin \notin {"none", "running", "paused"}
    /\ spWorld' = Released /\ spDevice' = SpNoDevice /\ spPlugin' = NewPlugin
    /\ spCore' = [plugin |-> "none", filter |-> "new", known |-> FALSE]
    /\ UNCHANGED <<spKind, spStream, spHeard, spMarks>>

-----------------------------------------------------------------------------
(* Write: what the device hears of a frame of two samples for each channel.  *)

Packed(channels) == [k \in 1 .. 2 * channels |-> <<(k - 1) % channels, (k - 1) \div channels>>]
Planes(channels) == [k \in 1 .. 2 * channels |-> <<(k - 1) \div 2, (k - 1) % 2>>]

SpFrame(s) == [fmt |-> s.fmt.base, channels |-> s.channels,
               data |-> IF s.fmt.planar THEN Planes(s.channels) ELSE Packed(s.channels)]

SpNoise(f) == [f EXCEPT !.fmt = "noise"]

\* Resample::Convert: 8 and 24 bits are cut or filled to 16 where they are; else swr.
Resampled(f, r) ==
    CASE r.bits = 8 -> [f EXCEPT !.fmt = IF @ = "U8" THEN "S16" ELSE "noise"]
      [] r.bits = 24 -> [f EXCEPT !.fmt = IF @ = "S24" THEN "S16" ELSE "noise"]
      [] r.bits \notin {8, 24} ->
            IF r.src.base = f.fmt /\ r.channels = f.channels
            THEN [f EXCEPT !.fmt = "S16", !.data = Packed(f.channels)]
            ELSE SpNoise(f)

\* Deinterleave: outData[i * frameSize + j] = inData[j * PCM_CHAN_CNT + i]
Deinterleaved(d) ==
    LET n == Len(d) \div 2 IN [k \in 1 .. Len(d) |-> d[((k - 1) % n) * 2 + (k - 1) \div n + 1]]

\* HandleInterleaveData: two channels of 16 bits.
HdiHandles(f) ==
    IF spPlugin.channels = 2 /\ spKind.defaultCaps /\ spPlugin.packedIn /\ spPlugin.rendererFmt.base = "S16"
    THEN [f EXCEPT !.data = Deinterleaved(@)] ELSE f

SpSent(f) ==
    IF SpIs("hdi") THEN HdiHandles(f)
    ELSE IF spPlugin.reformat /\ spPlugin.resampler # NoResampler THEN Resampled(f, spPlugin.resampler) ELSE f

DeviceHears(f) ==
    /\ f.fmt = spDevice.fmt.base /\ f.channels = spDevice.channels
    /\ f.data = IF spDevice.fmt.planar THEN Planes(f.channels) ELSE Packed(f.channels)

SpWrites ==
    /\ spCore.plugin = "running" /\ spHeard = "nothing"
    /\ spHeard' = IF DeviceHears(SpSent(SpFrame(spStream.is))) THEN "frame" ELSE "noise"
    /\ UNCHANGED <<spKind, spCore, spPlugin, spDevice, spWorld, spStream, spMarks>>

SinkPluginNext ==
    \/ \E s \in SpStreams : SpNegotiates(s)
    \/ SpConfigures \/ SpPrepares \/ SpStarts \/ SpPauses \/ SpResumes \/ SpStops \/ SpReleases \/ SpWrites

SinkPluginSpec == SinkPluginInit /\ [][SinkPluginNext]_spVars

-----------------------------------------------------------------------------
(* Properties.                                                             *)

\* A stream whose parameters were all taken, of one or two channels, after which no bits
\* of an earlier stream are left.
SpPlain ==
    /\ spStream.taken /\ spStream.is.channels <= 2
    /\ spMarks.staleBits => spStream.is.bits # 0

\* Every frame of such a stream is heard as it is, by whatever path: as it stands, through
\* the resampler, or as planes; and whatever failed before, a plug-in that is gone leaves
\* no adapter loaded and no renderer behind, and a plug-in has one of each at most.
SinksHearTheStream ==
    /\ SpPlain => spHeard # "noise"
    /\ spWorld.adapters <= 1 /\ spWorld.renderers <= 1
    /\ spCore.plugin = "none" => spWorld.adapters = 0 /\ spWorld.renderers = 0

\* A plug-in that is used again knows nothing of the stream before: not so,
\* bitsPerSample_ outlives Reset, and 16 bits are taken for 8 or 24.
ReusedSinkStartsAnew == spStream.taken /\ spStream.is.channels <= 2 => spHeard # "noise"

\* A stream whose parameters were taken is heard: not so with more than two channels,
\* which HDI and SDL take and make two.
ChannelsAreKept == spStream.taken /\ ~spMarks.staleBits => spHeard # "noise"

\* A format that the plug-in tells of is taken and can be prepared: not so for HDI
\* (24 bits) and SDL (U16).
ToldIsTaken == spCore.filter = "configured" =>
    spStream.taken /\ (SpIs("sdl") => Translated(spPlugin.fmt) # NoSample)

\* The channels and the layout that are told upstream fit: not so with HDI, whose layout
\* is mono until it is set, and again after Reset.
LayoutFitsChannels == spCore.filter = "negotiated" => (ToldUpstream.layout = "stereo" <=> ToldUpstream.channels = 2)

\* The cache holds the frame that is made planes in it: not so when the samples of a
\* frame are not told.
CacheHolds ==
    spCore.plugin = "running" /\ SpIs("hdi") /\ HdiHandles(SpFrame(spStream.is)) # SpFrame(spStream.is) =>
        spPlugin.cache >= 2 * Len(SpFrame(spStream.is).data)

\* A plug-in that is gone has closed its device: not so with SDL when its resampler
\* refuses the format after the device was opened; it is never opened again.
SdlIsClosed == spCore.plugin = "none" => ~spWorld.sdlOpen
=============================================================================
