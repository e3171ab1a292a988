------------------------------ MODULE MCParts ------------------------------
\* The components that are checked each on an instance of its own: a behaviour
\* is one of the component named by part, and the others stay as they began.
EXTENDS AVSharedMemoryPool, HiPlayer, MediaSync, DataPacker, CallbackLooper,
        Recorder, FrameDemuxers, HdiCodec, FFmpegVideo, AudioRender, VideoSinks,
        MetaFormat, PluginFramework, Negotiation, FFmpegDemuxer, FFmpegMuxer,
        AudioCodecs, Captures, Sources, BufferMemory, RemoteQueue, InnerPipeline,
        Ports, LitePlayer, AudioSinkPlugins, OsalSync

VARIABLE part   \* the component that moves

\* Pools of one memory that may have two, of fixed and of variable size.
SmallPools == { [preAlloc |-> 1, size |-> 1, max |-> 2, fixed |-> f] : f \in BOOLEAN }

\* Four frames of three sizes.
SmallFrames == <<2, 1, 3, 2>>

\* Tags for a buffer, an unsigned number, an enumeration and a bool.
SmallTags == <<"config", "file size", "media type", "range">>

PluginDef(type, name, hw, fits, caps, ext, rank) ==
    [type |-> type, name |-> name, hw |-> hw, fits |-> fits, caps |-> caps, ext |-> ext, rank |-> rank]

\* Libraries with plug-ins of one name, and a codec that says nothing of its input.
SmallLibraries ==
    [l1 |-> <<PluginDef("demuxer", "mp3", FALSE, TRUE, TRUE, "mp3", 100),
              PluginDef("audio decoder", "soft", FALSE, TRUE, TRUE, "", 50),
              PluginDef("generic", "tool", FALSE, TRUE, TRUE, "", 50)>>,
     l2 |-> <<PluginDef("demuxer", "ff", FALSE, TRUE, TRUE, "mp3", 100),
              PluginDef("audio decoder", "hard", TRUE, TRUE, TRUE, "", 50),
              PluginDef("demuxer", "mp3", FALSE, TRUE, TRUE, "wav", 10)>>,
     l3 |-> <<PluginDef("demuxer", "old", FALSE, FALSE, TRUE, "", 50),
              PluginDef("audio decoder", "mute", TRUE, TRUE, FALSE, "", 50)>>]
SmallStatic == <<PluginDef("demuxer", "wav", FALSE, TRUE, TRUE, "wav", 60)>>

SniffAnswers(m, f, w, o) == [mp3 |-> m, ff |-> f, wav |-> w, old |-> o]

\* Sources of one name in two spellings, one without a name and one that nobody knows.
SmallSources ==
    { [uri |-> "x", lower |-> "x", ext |-> "mp3", prob |-> SniffAnswers(60, 100, 0, 0)],
      [uri |-> "X", lower |-> "x", ext |-> "mp3", prob |-> SniffAnswers(0, 40, 30, 0)],
      [uri |-> "", lower |-> "", ext |-> "", prob |-> SniffAnswers(0, 0, 0, 40)],
      [uri |-> "y", lower |-> "y", ext |-> "wav", prob |-> SniffAnswers(0, 0, 0, 0)] }

TypeOf(type, sub) == [type |-> type, sub |-> sub]
NgTrack(mime, keys) == [mime |-> mime, keys |-> keys, out |-> 0]
NgCap(mime, keys) == [mime |-> mime, keys |-> keys]

\* Two decoders and two sinks whose capabilities meet in part.
SmallDecoders ==
    << [name |-> "d1", inCaps |-> <<NgCap(TypeOf("audio", "aac"), [rate |-> IntervalCap(1, 2), channels |-> DiscreteCap(<<1, 2>>)])>>,
        outCaps |-> <<NgCap(TypeOf("audio", "raw"), [rate |-> FixedCap(2)]),
                      NgCap(TypeOf("audio", "raw"), [format |-> DiscreteCap(<<2, 1>>)])>>, out |-> 0],
       [name |-> "d2", inCaps |-> <<NgCap(TypeOf("video", "*"), <<>>),
                                    NgCap(TypeOf("audio", "*"), [rate |-> IntervalCap(2, 3), layout |-> FixedCap(1)])>>,
        outCaps |-> <<NgCap(TypeOf("audio", "raw"), [format |-> FixedCap(1), rate |-> IntervalCap(1, 3)])>>, out |-> 0] >>
SmallSinks ==
    << [name |-> "s1", inCaps |-> <<NgCap(TypeOf("audio", "raw"), [format |-> DiscreteCap(<<2, 3>>), rate |-> DiscreteCap(<<1, 2>>)])>>,
        out |-> 1],
       [name |-> "s2", inCaps |-> <<NgCap(TypeOf("audio", "*"), [format |-> DiscreteCap(<<1, 2>>), rate |-> IntervalCap(1, 3)])>>,
        out |-> 3] >>
SmallStreams ==
    { <<NgTrack(TypeOf("video", "avc"), <<>>), NgTrack(TypeOf("audio", "aac"), [rate |-> 1, channels |-> 2])>>,
      <<NgTrack(TypeOf("", ""), <<>>)>>,
      <<NgTrack(TypeOf("audio", "aac"), [rate |-> 3, channels |-> 3, layout |-> 5])>>,
      <<NgTrack(TypeOf("audio", "mp3"), [rate |-> 2, channels |-> 2, format |-> 1, layout |-> 1])>>,
      <<NgTrack(TypeOf("audio", "flac"), [rate |-> 1])>>,
      <<NgTrack(TypeOf("audio", "aac"), [rate |-> 2, channels |-> 3])>>,
      <<NgTrack(TypeOf("audio", "raw"), [rate |-> 2, channels |-> 2, format |-> 2]), NgTrack(TypeOf("audio", "aac"), [rate |-> 1])>>,
      <<NgTrack(TypeOf("audio", "raw"), [rate |-> 3, channels |-> 2, format |-> 2])>> }

FfStream(type, codec, whole, tag, duration, config) ==
    [type |-> type, codec |-> codec, opens |-> whole, sized |-> whole, tag |-> tag, duration |-> duration, config |-> config]
FfPacket(stream, key, time) == [stream |-> stream, key |-> key, time |-> time]

\* A film, a song with pictures in it, two videos of one medium, and one that cannot be opened.
SmallMedia ==
    { [name |-> "film", opens |-> TRUE,
       streams |-> <<FfStream("audio", "aac", TRUE, "none", 6, "he"), FfStream("video", "h264", TRUE, "avc1", 6, "avc"),
                     FfStream("data", "other", TRUE, "none", 6, "none")>>,
       packets |-> <<FfPacket(2, TRUE, 0), FfPacket(1, TRUE, 0), FfPacket(2, FALSE, 1), FfPacket(3, TRUE, 1),
                     FfPacket(2, TRUE, 2), FfPacket(1, TRUE, 2), FfPacket(2, FALSE, 4)>>],
      [name |-> "song", opens |-> TRUE,
       streams |-> <<FfStream("video", "raw video", FALSE, "none", 4, "none"), FfStream("audio", "mp3", TRUE, "none", 4, "none"),
                     FfStream("video", "h264", FALSE, "avc1", 4, "broken"), FfStream("audio", "latm", TRUE, "none", 4, "broken")>>,
       packets |-> <<FfPacket(2, TRUE, 0), FfPacket(1, TRUE, 0), FfPacket(2, TRUE, 1), FfPacket(4, TRUE, 2)>>],
      [name |-> "broken", opens |-> FALSE, streams |-> <<FfStream("audio", "mp3", TRUE, "none", 4, "none")>>,
       packets |-> <<FfPacket(1, TRUE, 0)>>],
      [name |-> "two", opens |-> TRUE,
       streams |-> <<FfStream("video", "h264", TRUE, "avc1", 4, "avc"), FfStream("video", "h265", TRUE, "hevc", 4, "avc")>>,
       packets |-> <<FfPacket(1, TRUE, 0), FfPacket(2, TRUE, 0), FfPacket(1, FALSE, 2)>>] }

SmallMuxers ==
    [mp4 |-> [container |-> "mp4", mimes |-> {"aac", "h264"}], raw |-> [container |-> "h264", mimes |-> {"h264"}]]
SmallTracks == {[mime |-> "aac", told |-> TRUE], [mime |-> "h264", told |-> FALSE], [mime |-> "mp3", told |-> TRUE]}

\* What comes after a capture, what a client asks of it, and an audio service that has a rate nobody knows.
SmallDowns == { [rate |-> <<2, 1>>, channels |-> <<2>>, format |-> <<16, 32>>, pixel |-> <<"nv21">>],
                [rate |-> <<1>>, pixel |-> <<"yuv420p", "nv21">>] }
SmallCaptures ==
    { [filter |-> "audio", keys |-> [input |-> "mic", rate |-> 2, channels |-> 2, format |-> 16, token |-> 1]],
      [filter |-> "audio", keys |-> [input |-> "mic", channels |-> 1, bits |-> 3]],
      [filter |-> "audio", keys |-> [input |-> "mic", layout |-> "mono"]],
      [filter |-> "audio", keys |-> <<>>],
      [filter |-> "video", keys |-> [input |-> "yuv", size |-> 1]],
      [filter |-> "video", keys |-> ("input" :> "yuv") @@ ("capture rate" :> 4) @@ ("size" :> 1)] }
SmallService == [rate |-> <<3, 1, 2>>, channels |-> <<1, 2>>, format |-> <<8, 16>>]
SmallTables == [rate |-> {1, 2, 4}, channels |-> {1, 2}, format |-> {8, 16, 24}]

\* Media of every kind, with what is wrong with some of them; the plug-ins of two builds.
SrcMedium(type, protocol, form, is, length) ==
    [type |-> type, protocol |-> protocol, form |-> form, is |-> is, length |-> length, real |-> length,
     from |-> 0, span |-> 0, delays |-> FALSE]
SmallSourceMedia ==
    { SrcMedium("uri", "file", "path", "file", 4), SrcMedium("uri", "file", "file", "directory", 4),
      SrcMedium("uri", "file", "fragment", "file", 4), SrcMedium("uri", "file", "empty", "file", 4),
      [SrcMedium("fd", "fd", "fd part", "file", 4) EXCEPT !.from = 1, !.span = 2], SrcMedium("fd", "fd", "fd", "socket", 4),
      SrcMedium("stream", "stream", "", "stream", 3), [SrcMedium("stream", "stream", "", "stream", -1) EXCEPT !.real = 3],
      [SrcMedium("stream", "stream", "", "stream", 0) EXCEPT !.real = 3], SrcMedium("uri", "hls", "url", "data", 3),
      [SrcMedium("uri", "http", "url", "data", 4) EXCEPT !.delays = TRUE], SrcMedium("uri", "http", "url", "silent", 4),
      [SrcMedium("uri", "https", "url", "data", -1) EXCEPT !.real = 4] }
SmallBuilds ==
    { <<[name |-> "fd", protocols |-> {"fd"}], [name |-> "file", protocols |-> {"file"}],
        [name |-> "http", protocols |-> {"http", "https", "hls"}], [name |-> "std", protocols |-> {"stream"}]>>,
      <<[name |-> "stream", protocols |-> {"stream"}]>> }

\* Buffers of every kind, one of them refused for its alignment, one for reading.
SmallBufferConfigs ==
    { [type |-> t, capacity |-> 3, size |-> 0, align |-> 0, flag |-> "rw", dma |-> TRUE] : t \in {"virtual", "hardware", "surface"} }
    \union { [type |-> "hardware", capacity |-> 3, size |-> 0, align |-> -1, flag |-> "rw", dma |-> TRUE],
             [type |-> "shared", capacity |-> 3, size |-> 0, align |-> 4, flag |-> "r", dma |-> TRUE] }
SmallBufferPositions == {-1, 2}


\* A pipeline that was made, one of a head with two filters after it that runs, a paused one of two heads.
OneType == <<"raw">>
SmallBuild(heads, a, b, state, told) ==
    [heads |-> heads, state |-> state, told |-> told,
     next |-> [f \in {1, 2, 3} |-> [t \in {"raw"} |-> CASE f = 1 -> a [] f = 2 -> b [] f = 3 -> <<>>]]]
SmallPipelines == {SmallBuild(<<>>, <<>>, <<>>, "CREATED", "init"), SmallBuild(<<1>>, <<2, 3>>, <<>>, "RUNNING", "Start"),
                   SmallBuild(<<1, 2>>, <<>>, <<3>>, "PAUSED", "Pause")}

\* Encoded and raw audio, and tracks the player has no use for.
SmallPtMedia == {<<"audio", "video">>, <<"raw">>, <<"audio", "video", "video", "audio">>}

\* A film that can seek, and a song that cannot and does not tell how long it is.
SmallLiteMedia == {[sinks |-> {"audio", "video"}, duration |-> 1, seekable |-> TRUE],
                   [sinks |-> {"audio"}, duration |-> 0, seekable |-> FALSE]}

\* Streams that a sink plays as they are, resamples, makes planes, and refuses.
SinkStream(base, planar, channels, rate, bits, period) ==
    [fmt |-> Sample(base, planar), channels |-> channels, rate |-> rate, bits |-> bits, period |-> period]
SmallSinkStreams ==
    {SinkStream("S16", FALSE, 2, 44100, 16, 2), SinkStream("S16", TRUE, 2, 44100, 0, 2),
     SinkStream("F32", TRUE, 2, 44100, 0, 2), SinkStream("U8", FALSE, 1, 8000, 8, 2),
     SinkStream("S24", FALSE, 2, 44100, 24, 2), SinkStream("U16", FALSE, 2, 44100, 16, 2),
     SinkStream("S16", FALSE, 6, 44100, 16, 2), SinkStream("S16", FALSE, 2, 88200, 0, 0)}

\* Waits of every kind: with and without a predicate and a time, one of them negative.
SmallWaits == {[kind |-> "wait", ms |-> 0], [kind |-> "predicate", ms |-> 0], [kind |-> "for", ms |-> 3],
               [kind |-> "for predicate", ms |-> 1], [kind |-> "for predicate", ms |-> -1]}

partsVars == <<part, poolVars, hiVars, syncVars, packerVars, looperVars, recVars,
              framesVars, hdiVars, videoVars, auVars, vsVars, anyVars, formatVars,
              plugVars, wrapVars, negVars, ffVars, mxVars, codecsVars, cpVars, srcVars,
              bmVars, rqVars, plVars, ptVars, lpVars, spVars, syVars>>

PartsInit ==
    /\ part \in {"pool", "player", "sync", "packer", "looper", "recorder", "frames", "hdi",
                  "video", "audio sink", "video sink", "any", "format", "plug-ins", "wrapper",
                  "negotiation", "demuxer", "muxer", "audio codecs", "captures", "sources",
                  "memories", "remote queue", "inner pipeline", "ports",
                  "lite player", "sink plug-ins", "waits"}
    /\ PoolInit /\ (part = "pool" \/ (option.fixed /\ idle = <<>>))
    /\ HiInit
    /\ SyncInit
    /\ PackerInit /\ (part = "packer" \/ (mode = "pull"))
    /\ LooperInit
    /\ RecInit
    /\ FramesInit /\ (part = "frames" \/ (demuxer = "aac"))
    /\ HdiInit
    /\ VideoInit /\ (part = "video" \/ (coder = "encoder"))
    /\ AudioInit /\ (part = "audio sink" \/ (auSink = "hdi"))
    /\ VideoSinksInit /\ (part = "video sink" \/ (vsPlugin.name = "sdl"))
    /\ AnyInit
    /\ FormatInit
    /\ PlugInit /\ (part = "plug-ins" \/ (plugApi = "engine"))
    /\ WrapInit
    /\ NegInit
    /\ FfInit
    /\ MuxInit
    /\ AcInit /\ (part = "audio codecs" \/ (acKind = "aac"))
    /\ CpInit /\ (part = "captures" \/ (cpSet.keys = <<>> /\ cpDown.rate = <<1>>))
    /\ SrcInit /\ (part = "sources" \/ (srcMedium.form = "path" /\ Len(srcPlugins) = 1))
    /\ BmInit
    /\ RqInit /\ (part = "remote queue" \/ (rqWorld = "remote" /\ rqMemory = "shared" /\ rqSize = 1))
    /\ PlInit /\ (part = "inner pipeline" \/ (plState = "RUNNING"))
    /\ PtInit /\ (part = "ports" \/ (ptScene = "player" /\ ptSeekable))
    /\ LpInit
    /\ SinkPluginInit /\ (part = "sink plug-ins" \/ (spKind = [sink |-> "sdl", defaultCaps |-> TRUE]))
    /\ SyInit /\ (part = "waits" \/ (syInited))

\* The other parts stay.  (With \/ in the place of IF, TLC would take the step of p twice.)
MovesOnly(p) ==
    /\ part' = part
    /\ IF p = "pool" THEN TRUE ELSE UNCHANGED poolVars
    /\ IF p = "player" THEN TRUE ELSE UNCHANGED hiVars
    /\ IF p = "sync" THEN TRUE ELSE UNCHANGED syncVars
    /\ IF p = "packer" THEN TRUE ELSE UNCHANGED packerVars
    /\ IF p = "looper" THEN TRUE ELSE UNCHANGED looperVars
    /\ IF p = "recorder" THEN TRUE ELSE UNCHANGED recVars
    /\ IF p = "frames" THEN TRUE ELSE UNCHANGED framesVars
    /\ IF p = "hdi" THEN TRUE ELSE UNCHANGED hdiVars
    /\ IF p = "video" THEN TRUE ELSE UNCHANGED videoVars
    /\ IF p = "audio sink" THEN TRUE ELSE UNCHANGED auVars
    /\ IF p = "video sink" THEN TRUE ELSE UNCHANGED vsVars
    /\ IF p = "any" THEN TRUE ELSE UNCHANGED anyVars
    /\ IF p = "format" THEN TRUE ELSE UNCHANGED formatVars
    /\ IF p = "plug-ins" THEN TRUE ELSE UNCHANGED plugVars
    /\ IF p = "wrapper" THEN TRUE ELSE UNCHANGED wrapVars
    /\ IF p = "negotiation" THEN TRUE ELSE UNCHANGED negVars
    /\ IF p = "demuxer" THEN TRUE ELSE UNCHANGED ffVars
    /\ IF p = "muxer" THEN TRUE ELSE UNCHANGED mxVars
    /\ IF p = "audio codecs" THEN TRUE ELSE UNCHANGED codecsVars
    /\ IF p = "captures" THEN TRUE ELSE UNCHANGED cpVars
    /\ IF p = "sources" THEN TRUE ELSE UNCHANGED srcVars
    /\ IF p = "memories" THEN TRUE ELSE UNCHANGED bmVars
    /\ IF p = "remote queue" THEN TRUE ELSE UNCHANGED rqVars
    /\ IF p = "inner pipeline" THEN TRUE ELSE UNCHANGED plVars
    /\ IF p = "ports" THEN TRUE ELSE UNCHANGED ptVars
    /\ IF p = "lite player" THEN TRUE ELSE UNCHANGED lpVars
    /\ IF p = "sink plug-ins" THEN TRUE ELSE UNCHANGED spVars
    /\ IF p = "waits" THEN TRUE ELSE UNCHANGED syVars

PartsNext ==
    \/ part = "pool" /\ MovesOnly("pool") /\ PoolNext
    \/ part = "player" /\ MovesOnly("player") /\ HiNext
    \/ part = "sync" /\ MovesOnly("sync") /\ SyncNext
    \/ part = "packer" /\ MovesOnly("packer") /\ PackerNext
    \/ part = "looper" /\ MovesOnly("looper") /\ LooperNext
    \/ part = "recorder" /\ MovesOnly("recorder") /\ RecNext
    \/ part = "frames" /\ MovesOnly("frames") /\ FramesNext
    \/ part = "hdi" /\ MovesOnly("hdi") /\ HdiNext
    \/ part = "video" /\ MovesOnly("video") /\ VideoNext
    \/ part = "audio sink" /\ MovesOnly("audio sink") /\ AudioNext
    \/ part = "video sink" /\ MovesOnly("video sink") /\ VideoSinksNext
    \/ part = "any" /\ MovesOnly("any") /\ AnyNext
    \/ part = "format" /\ MovesOnly("format") /\ FormatNext
    \/ part = "plug-ins" /\ MovesOnly("plug-ins") /\ PlugNext
    \/ part = "wrapper" /\ MovesOnly("wrapper") /\ WrapNext
    \/ part = "negotiation" /\ MovesOnly("negotiation") /\ NegNext
    \/ part = "demuxer" /\ MovesOnly("demuxer") /\ FfNext
    \/ part = "muxer" /\ MovesOnly("muxer") /\ MuxNext
    \/ part = "audio codecs" /\ MovesOnly("audio codecs") /\ AcNext
    \/ part = "captures" /\ MovesOnly("captures") /\ CpNext
    \/ part = "sources" /\ MovesOnly("sources") /\ SrcNext
    \/ part = "memories" /\ MovesOnly("memories") /\ BmNext
    \/ part = "remote queue" /\ MovesOnly("remote queue") /\ RqNext
    \/ part = "inner pipeline" /\ MovesOnly("inner pipeline") /\ PlNextStep
    \/ part = "ports" /\ MovesOnly("ports") /\ PtNext
    \/ part = "lite player" /\ MovesOnly("lite player") /\ LpNext
    \/ part = "sink plug-ins" /\ MovesOnly("sink plug-ins") /\ SinkPluginNext
    \/ part = "waits" /\ MovesOnly("waits") /\ SyNext

PartsSpec == PartsInit /\ [][PartsNext]_partsVars

PartsTypeOK ==
    CASE part = "pool" -> PoolTypeOK
      [] part = "player" -> HiTypeOK
      [] part = "sync" -> SyncTypeOK
      [] part = "packer" -> PackerTypeOK
      [] part = "looper" -> LooperTypeOK
      [] part = "recorder" -> RecTypeOK
      [] part = "frames" -> FramesTypeOK
      [] part = "hdi" -> HdiTypeOK
      [] part = "video" -> VideoTypeOK
      [] part = "audio sink" -> AudioTypeOK
      [] part = "video sink" -> VideoSinksTypeOK
      [] part = "any" -> AnyTypeOK
      [] part = "format" -> FormatTypeOK
      [] part = "plug-ins" -> PlugTypeOK
      [] part = "wrapper" -> WrapTypeOK
      [] part = "negotiation" -> NegTypeOK
      [] part = "demuxer" -> FfTypeOK
      [] part = "muxer" -> MuxTypeOK
      [] part = "audio codecs" -> AcTypeOK
      [] part = "captures" -> CpTypeOK
      [] part = "sources" -> SrcTypeOK
      [] part = "memories" -> BmTypeOK
      [] part = "remote queue" -> RqTypeOK
      [] part = "inner pipeline" -> PlTypeOK
      [] part = "ports" -> PtTypeOK
      [] part = "lite player" -> LpTypeOK
      [] part = "sink plug-ins" -> SinkPluginTypeOK
      [] part = "waits" -> SyTypeOK

\* What tells two states apart: of the parts that stay there is one state only.
PartsView ==
    CASE part = "pool" -> <<part, poolVars>>
      [] part = "player" -> <<part, hiVars>>
      [] part = "sync" -> <<part, syncVars>>
      [] part = "packer" -> <<part, packerVars>>
      [] part = "looper" -> <<part, looperVars>>
      [] part = "recorder" -> <<part, recVars>>
      [] part = "frames" -> <<part, framesVars>>
      [] part = "hdi" -> <<part, hdiVars>>
      [] part = "video" -> <<part, videoVars>>
      [] part = "audio sink" -> <<part, auVars>>
      [] part = "video sink" -> <<part, vsVars>>
      [] part = "any" -> <<part, anyVars>>
      [] part = "format" -> <<part, formatVars>>
      [] part = "plug-ins" -> <<part, plugVars>>
      [] part = "wrapper" -> <<part, wrapVars>>
      [] part = "negotiation" -> <<part, negVars>>
      [] part = "demuxer" -> <<part, ffVars>>
      [] part = "muxer" -> <<part, mxVars>>
      [] part = "audio codecs" -> <<part, codecsVars>>
      [] part = "captures" -> <<part, cpVars>>
      [] part = "sources" -> <<part, srcVars>>
      [] part = "memories" -> <<part, bmVars>>
      [] part = "remote queue" -> <<part, rqVars>>
      [] part = "inner pipeline" -> <<part, plVars>>
      [] part = "ports" -> <<part, ptVars>>
      [] part = "lite player" -> <<part, lpVars>>
      [] part = "sink plug-ins" -> <<part, spVars>>
      [] part = "waits" -> <<part, syVars>>

-----------------------------------------------------------------------------

\* What is read through the packer is what was asked for, and there is always room for it;
\* the frames that the AAC, MP3, MP4 and libavformat demuxers cut out of a medium are the
\* medium's, in order, across refused reads and seeks; what the muxer writes lies in the
\* file where the muxer put it, across seeks that fail; and what a client of a queue in
\* another process holds is lent to it alone (DataPacker, DemuxerPlugin::ReadFrame,
\* OutputSinkFilter::PushData, AVBufferQueueSurfaceDelegator).
DataKeepsItsPlace ==
    /\ part = "packer" => ServesWhatWasAsked
    /\ part = "packer" => PullKeepsRoom
    /\ part = "frames" => FramesInOrder
    /\ part = "demuxer" => DemuxesInPlace
    /\ part = "muxer" => MuxedInPlace
    /\ part = "remote queue" => RemoteHolds

\* A value of any type is owned by one holder, and a format keeps what was put into it
\* however formats are copied and shared (Any, Meta, Format); a memory has no more than its
\* capacity, and no descriptor or mapping is left over when it travels (AVMemory,
\* AVSharedMemoryBase).
ValuesStaySound ==
    /\ part = "any" => ValuesAreOwnedOnce
    /\ part = "format" => FormatsKeepTheirOwn
    /\ part = "memories" => MemoriesHold

\* The plug-in that is found for a source is the best of those registered; what the
\* filters of a chain agree on fits what each of them can do; an order to a pipeline
\* reaches the filters that are linked behind its heads, and a link is of a type that
\* both of its ends take (TypeFinder, PluginRegister, Filter::Negotiate, Pipeline,
\* PortRef::Negotiate).
PluginsFit ==
    /\ part = "plug-ins" => PluginsServe
    /\ part = "negotiation" => NegotiationFits
    /\ part = "inner pipeline" => PipelineReaches
    /\ part = "ports" => LinksFit

\* What goes through a hardware codec comes back in a buffer that is bound, and what is
\* given to the video and the audio codecs comes out (HdiCodec, VideoFfmpegDecoderPlugin,
\* VideoEncoderFilter, AudioFfmpegEncoderPlugin).
CodecsDeliver ==
    /\ part = "hdi" => HdiOutputsAreBound
    /\ part = "video" => VideoComesOut
    /\ part = "audio codecs" => AudioComesCoded

\* Sound is rendered whole and in order, pictures are shown whole, and a sink's plug-in
\* renders with the parameters of the stream it is given (AudioSinkFilter,
\* VideoSinkFilter, AudioServerSinkPlugin, HdiSink, SdlAudioSinkPlugin).
SinksRender ==
    /\ part = "audio sink" => AudioComesWhole
    /\ part = "video sink" => PicturesAreWhole
    /\ part = "sink plug-ins" => SinksHearTheStream

\* What is captured runs on in time, and is what was agreed on; what a source is asked for
\* comes from where it was asked (AudioCaptureFilter, StrictMonotonicPtsCal,
\* MediaSourceFilter).
SourcesDeliver ==
    /\ part = "captures" => CapturesRunOn
    /\ part = "sources" => SourcesInPlace

\* A player that was stopped is over, and while nothing fails the player shows, knows and
\* does what its state says (HiPlayerImpl of both systems, PipelineCore::Stop,
\* MediaStatStub).
PlayersKeepTheirWord ==
    /\ part = "player" => StoppedIsOver
    /\ part = "lite player" => LiteFollows

\* The looper sleeps no longer than its next report is due, and while progress is reported
\* there is a report to come; a timed wait lasts its time unless its deadline is refused,
\* what a wait for a predicate answers is what the predicate says, and a mutex is locked by
\* the one AutoLock that names it (HiPlayerCallbackLooper, ConditionVariable, AutoLock).
TimeIsKept ==
    /\ part = "looper" => LooperKeepsTime
    /\ part = "waits" => WaitsAndLocks
=============================================================================
