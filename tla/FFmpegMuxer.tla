---------------------------- MODULE FFmpegMuxer ----------------------------
(***************************************************************************)
(* How a recording becomes a file: the muxer filter                        *)
(* (engine/pipeline/filters/muxer) with its plug-in on libavformat         *)
(* (engine/plugin/plugins/ffmpeg_adapter/muxer), the output sink filter    *)
(* and its plug-in on a file descriptor.  libavformat writes through a     *)
(* buffer and goes back to complete the header at the end, so five places  *)
(* keep a position: its buffer, the plug-in's io context (pos_), the       *)
(* output sink (currentPos_), the descriptor, and the file's data itself.  *)
(* Both filters and their ports serve one recording after the other; which *)
(* calls the recorder makes and when is the subject of Recorder.           *)
(***************************************************************************)
EXTENDS Integers, Sequences, SequencesExt, Functions, TLC

CONSTANTS
    MuxPlugins,     \* plug-in name -> [container, mimes]
    MuxTracks,      \* what an encoder may bring: [mime, told]; told: every tag its track needs
    Container,      \* containerMime_
    MuxPorts,       \* the ports of the muxer
    AvioSize,       \* libavformat's buffer, in cells
    MaxMuxFrames,   \* bound: frames of a recording
    MaxRecordings,  \* bound
    MaxSeekFaults,  \* bound: seeks of the descriptor that fail
    MaxShortWrites  \* bound: writes that take less than they are given

ASSUME FFmpegMuxerAssumption ==
    /\ {MuxPorts, AvioSize} \subseteq Nat \ {0}
    /\ {MaxMuxFrames, MaxRecordings, MaxSeekFaults, MaxShortWrites} \subseteq Nat

VARIABLES
    mxStep,     \* the recording: "stopped", "preparing", "ready", "running", "sink stopped", "refused"
    mxFilter,   \* the muxer filter: capabilityCache_, metaCache_, trackInfos_, hasWriteHeader_, eos_
    mxPlugin,   \* its plug-in: name, state of the wrapper, streams, tracks it can describe, header
    mxIo,       \* libavformat's buffer and ioContext_.pos_, end_
    mxSink,     \* the output sink: currentPos_, bufferEos_, state of its plug-in, whether it has fd_
    mxFile,     \* the descriptor's position and what the file holds
    mxAsked,    \* what libavformat wrote at which offset (history)
    mxHarmed,   \* a seek or a write of this recording went wrong (history)
    mxCount     \* the bounded steps so far
mxVars == <<mxStep, mxFilter, mxPlugin, mxIo, mxSink, mxFile, mxAsked, mxHarmed, mxCount>>

None == [name |-> "none", state |-> "none", streams |-> <<>>, header |-> FALSE]
Empty == [x \in {} |-> x]

MuxInit ==
    /\ mxStep = "stopped" /\ mxPlugin = None
    /\ mxFilter = [caps |-> <<>>, meta |-> <<>>, tracks |-> <<>>, header |-> FALSE, eos |-> FALSE]
    /\ mxIo = [buffer |-> <<>>, pos |-> 0, end |-> 0]
    /\ mxSink = [pos |-> 0, eos |-> TRUE, state |-> "none", fd |-> FALSE]
    /\ mxFile = [pos |-> 0, data |-> Empty] /\ mxAsked = Empty /\ mxHarmed = FALSE
    /\ mxCount = [recordings |-> 0, ports |-> 0, frames |-> 0, seeks |-> 0, shorts |-> 0]

-----------------------------------------------------------------------------
(* Bytes on their way to the file.  A cell knows the offset it was written *)
(* at; k is the state of all positions, faults the faults of this step.    *)

\* FileFdSinkPlugin::SeekTo, Write: what write() answers is not looked at.
FdSeeks(k, offset) == [k EXCEPT !.fd = offset]
FdWrites(k, cells) ==
    LET taken == IF k.fault = "short" THEN Len(cells) - 1 ELSE Len(cells) IN
    IF ~k.open THEN k
    ELSE [k EXCEPT !.data = [i \in k.fd .. k.fd + taken - 1 |-> cells[i - k.fd + 1]] @@ @, !.fd = @ + taken]

\* A mutant: a seek that failed does not keep the data from being written.
FileTakesAnyway(k, offset, cells) ==
    LET lost == offset # k.sink /\ (k.fault = "seek" \/ ~k.open)
        at == IF offset # k.sink /\ ~lost THEN [FdSeeks(k, offset) EXCEPT !.sink = offset] ELSE k IN
    [FdWrites(at, cells) EXCEPT !.sink = @ + Len(cells), !.harmed = @ \/ lost \/ k.fault = "short" \/ ~k.open]

\* OutputSinkFilter::PushData: what cannot be put where it belongs is dropped.
FileTakes(k, offset, cells) ==
    IF offset # k.sink /\ (k.fault = "seek" \/ ~k.open) THEN [k EXCEPT !.harmed = TRUE]
    ELSE LET at == IF offset # k.sink THEN [FdSeeks(k, offset) EXCEPT !.sink = offset] ELSE k IN
         [FdWrites(at, cells) EXCEPT !.sink = @ + Len(cells), !.harmed = @ \/ k.fault = "short" \/ ~k.open]

\* IoWrite: MuxerDataSink::WriteAt answers OK whatever the sink says.
IoWrite(k) ==
    LET n == Len(k.buffer) IN
    IF n = 0 THEN k
    ELSE [FileTakes(k, k.pos, k.buffer) EXCEPT
             !.buffer = <<>>, !.pos = k.pos + n, !.end = IF k.pos + n > @ THEN k.pos + n ELSE @]

IoSeek(k, offset) == [k EXCEPT !.pos = offset]

\* libavformat: a buffer that is written when it is full, before a seek and at the end.
Puts(k, what) ==
    LET at == k.pos + Len(k.buffer)
        cell == [at |-> at] @@ what
        more == [k EXCEPT !.buffer = Append(@, cell), !.asked = (at :> cell) @@ @] IN
    IF Len(more.buffer) = AvioSize THEN IoWrite(more) ELSE more
GoesTo(k, offset) == IoSeek(IoWrite(k), offset)

\* A container whose header is completed by its trailer.
Box(name) == [box |-> name, port |-> 0, stream |-> 0]
PutsHeader(k) == Puts(Puts(k, Box("head")), Box("size unknown"))
PutsTrailer(k) ==
    LET indexed == Puts(k, Box("index"))
        end == indexed.pos + Len(indexed.buffer) IN
    IoWrite(GoesTo(Puts(GoesTo(indexed, 1), Box("size")), end))

\* The state of all positions, and a step that changes it.
Positions(fault) ==
    [buffer |-> mxIo.buffer, pos |-> mxIo.pos, end |-> mxIo.end, sink |-> mxSink.pos, open |-> mxSink.fd,
     fd |-> mxFile.pos, data |-> mxFile.data, asked |-> mxAsked, harmed |-> mxHarmed, fault |-> fault]
MuxFaults == {"none"} \cup (IF mxCount.seeks < MaxSeekFaults THEN {"seek"} ELSE {})
                   \cup (IF mxCount.shorts < MaxShortWrites THEN {"short"} ELSE {})
Becomes(k) ==
    /\ mxIo' = [buffer |-> k.buffer, pos |-> k.pos, end |-> k.end]
    /\ mxFile' = [pos |-> k.fd, data |-> k.data] /\ mxAsked' = k.asked /\ mxHarmed' = k.harmed

-----------------------------------------------------------------------------
(* Preparing a recording.                                                  *)

\* Base::Reset of the wrapper refuses while its plug-in runs.
CanReset(state) == state \in {"initialized", "prepared"}

\* FindAvailablePluginsByOutputMime and FindAvailablePlugins, intersected for all
\* that capabilityCache_ holds; it is never cleared.
Candidates(caps) ==
    {p \in DOMAIN MuxPlugins : MuxPlugins[p].container = Container /\ \A i \in DOMAIN caps : caps[i] \in MuxPlugins[p].mimes}
SelectedMuxer(caps) == CHOOSE p \in Candidates(caps) : TRUE

\* UpdateAndInitPluginByInfo: the plug-in is used again if it is the same and can
\* be reset, which leaves an unprepared one as it is.
Created(name) == [name |-> name, state |-> "initialized", streams |-> <<>>, header |-> FALSE]
UpdatedMuxer(name) == IF mxPlugin.name = name /\ mxPlugin.state = "initialized" THEN mxPlugin ELSE Created(name)

\* OutputSinkFilter::Negotiate: the plug-in that is reset forgets no descriptor but truncates it.
UpdatedSink ==
    IF CanReset(mxSink.state) THEN [mxSink EXCEPT !.state = "initialized"]
    ELSE [mxSink EXCEPT !.state = "initialized", !.fd = FALSE]

\* SetTagsOfTrack: the codec is one that the container has, and every tag of an audio
\* or a video is told.  Prepare does not look at its result.
Matched(name, mime) == mime \in MuxPlugins[name].mimes
TagsTold(track) == track.told
Described(name, track) == Matched(name, track.mime) /\ TagsTold(track)

\* AddTrackThenConfigure for everything metaCache_ holds; a plug-in that already
\* runs cannot be prepared again.
WithTracks(plugin, meta) == [plugin EXCEPT !.streams = @ \o meta, !.state = "running"]
TrackInfosOf(meta) == [i \in DOMAIN meta |-> [port |-> meta[i].port, eos |-> FALSE]]

\* One port negotiates and configures; the last one brings the plug-ins to life,
\* the last one being the one that fills caches which may hold older entries.
PreparePort(track) ==
    LET port == mxCount.ports + 1
        caps == Append(mxFilter.caps, track.mime)
        meta == Append(mxFilter.meta, [port |-> port, mime |-> track.mime, told |-> track.told])
        negotiates == Len(caps) >= MuxPorts
        configures == Len(meta) >= MuxPorts
        plugin == IF negotiates THEN UpdatedMuxer(SelectedMuxer(caps)) ELSE mxPlugin
        sink == IF negotiates THEN UpdatedSink ELSE mxSink IN
    /\ mxStep \in {"stopped", "preparing"} /\ port <= MuxPorts
    /\ mxStep = "stopped" => mxCount.recordings < MaxRecordings
    /\ IF negotiates /\ Candidates(caps) = {}
       THEN /\ mxFilter' = [mxFilter EXCEPT !.caps = caps, !.header = FALSE] /\ mxStep' = "refused"
            /\ UNCHANGED <<mxPlugin, mxSink, mxIo, mxFile, mxAsked, mxHarmed>>
       ELSE /\ mxFilter' = [mxFilter EXCEPT !.caps = caps, !.meta = meta, !.header = FALSE,
                               !.tracks = IF configures THEN @ \o TrackInfosOf(meta) ELSE @]
            /\ IF ~configures
               THEN /\ mxStep' = "preparing" /\ mxPlugin' = plugin /\ mxSink' = sink
                    /\ UNCHANGED <<mxIo, mxFile, mxAsked, mxHarmed>>
               ELSE \* the sink gets a descriptor of a new file, the muxer its tracks
                    /\ mxSink' = [sink EXCEPT !.fd = TRUE, !.state = "prepared"]
                    /\ mxPlugin' = WithTracks(plugin, meta)
                    /\ mxIo' = [buffer |-> <<>>, pos |-> 0, end |-> 0]
                    /\ mxFile' = [pos |-> 0, data |-> Empty] /\ mxAsked' = Empty /\ mxHarmed' = FALSE
                    /\ mxStep' = IF plugin.state = "running" THEN "refused"
                                 ELSE IF port = MuxPorts THEN "ready" ELSE "preparing"
    /\ mxCount' = [mxCount EXCEPT !.recordings = IF mxStep = "stopped" THEN @ + 1 ELSE @, !.ports = port]

\* MuxerFilter::Start, OutputSinkFilter::Start.
MuxStarts ==
    /\ mxStep = "ready" /\ mxStep' = "running"
    /\ mxFilter' = [mxFilter EXCEPT !.eos = FALSE]
    /\ mxSink' = [mxSink EXCEPT !.state = "running", !.eos = FALSE]
    /\ UNCHANGED <<mxPlugin, mxIo, mxFile, mxAsked, mxHarmed, mxCount>>

-----------------------------------------------------------------------------
(* Recording.                                                              *)

\* WriteHeader: libavformat refuses streams it knows nothing of.  The filter does
\* not look at the result.
HeaderFits == \A i \in DOMAIN mxPlugin.streams : Described(mxPlugin.name, mxPlugin.streams[i])
HeaderIsThere == IF mxFilter.header THEN mxPlugin.header ELSE HeaderFits
HeaderDone(k) == IF ~mxFilter.header /\ HeaderFits THEN PutsHeader(k) ELSE k

\* WriteFrame: the stream of the buffer's trackID, which nobody sets: the first.
FrameStream(port) == 1
FrameDone(k, port) == IF HeaderIsThere THEN Puts(k, [box |-> "frame", port |-> port, stream |-> FrameStream(port)]) ELSE k

\* WriteTrailer and the EOS that the sink reports as complete.
TrailerDone(k) == IF HeaderIsThere THEN PutsTrailer(k) ELSE k

\* UpdateEosState: every track of the port, those of older recordings too.
EosSeen(tracks, port) == [i \in DOMAIN tracks |-> [tracks[i] EXCEPT !.eos = @ \/ tracks[i].port = port]]
AllEos(tracks) == \A i \in DOMAIN tracks : tracks[i].eos

\* MuxerFilter::PushData with a frame, with or without EOS; after the last EOS SendEos.
MuxerFrame(port, last) ==
    /\ mxStep \in {"running", "sink stopped"} /\ ~mxFilter.eos /\ mxCount.frames < MaxMuxFrames
    /\ LET tracks == IF last THEN EosSeen(mxFilter.tracks, port) ELSE mxFilter.tracks IN
       \E fault \in MuxFaults :
        LET framed == FrameDone(HeaderDone(Positions(fault)), port)
            k == IF AllEos(tracks) THEN TrailerDone(framed) ELSE framed IN
        /\ fault # "none" => k.harmed
        /\ Becomes(k)
        /\ mxFilter' = IF AllEos(tracks) THEN [mxFilter EXCEPT !.tracks = tracks, !.eos = TRUE, !.header = FALSE, !.meta = <<>>]
                       ELSE [mxFilter EXCEPT !.tracks = tracks, !.header = TRUE]
        /\ mxSink' = [mxSink EXCEPT !.pos = k.sink, !.eos = @ \/ AllEos(tracks)]
        /\ mxPlugin' = [mxPlugin EXCEPT !.header = HeaderIsThere]
        /\ mxCount' = [mxCount EXCEPT !.frames = @ + 1, !.seeks = IF fault = "seek" THEN @ + 1 ELSE @,
                                      !.shorts = IF fault = "short" THEN @ + 1 ELSE @]
    /\ UNCHANGED mxStep

\* SendEos by the recorder's STOP, with frames still on their way.
MuxerEos ==
    /\ mxStep = "running" /\ ~mxFilter.eos
    /\ \E fault \in MuxFaults :
        LET k == IF mxFilter.header THEN TrailerDone(Positions(fault)) ELSE Positions("none") IN
        /\ fault # "none" => k.harmed
        /\ Becomes(k)
        /\ mxSink' = [mxSink EXCEPT !.pos = k.sink, !.eos = TRUE]
        /\ mxCount' = [mxCount EXCEPT !.seeks = IF fault = "seek" THEN @ + 1 ELSE @, !.shorts = IF fault = "short" THEN @ + 1 ELSE @]
    /\ mxFilter' = [mxFilter EXCEPT !.eos = TRUE, !.header = FALSE, !.meta = <<>>]
    /\ UNCHANGED <<mxStep, mxPlugin>>

\* The pipeline stops the sink first.  Its plug-in closes the descriptor after an
\* EOS; without one it is to be reset, which Base::Reset refuses while it runs.
SinkStops ==
    /\ mxStep \in {"ready", "running"} /\ mxStep' = "sink stopped"
    /\ mxSink' = IF mxSink.eos THEN [mxSink EXCEPT !.pos = 0, !.state = "prepared", !.fd = FALSE]
                 ELSE [mxSink EXCEPT !.pos = 0]
    /\ UNCHANGED <<mxFilter, mxPlugin, mxIo, mxFile, mxAsked, mxHarmed, mxCount>>

\* The muxer's plug-in is not stopped.  A recording that was refused is stopped too.
MuxerStops ==
    /\ mxStep \in {"sink stopped", "refused"} /\ mxStep' = "stopped"
    /\ mxSink' = [mxSink EXCEPT !.pos = 0]
    /\ mxCount' = [mxCount EXCEPT !.ports = 0, !.frames = 0]
    /\ UNCHANGED <<mxFilter, mxPlugin, mxIo, mxFile, mxAsked, mxHarmed>>

MuxNext ==
    \/ \E track \in MuxTracks : PreparePort(track)
    \/ MuxStarts \/ MuxerEos \/ SinkStops \/ MuxerStops
    \/ \E port \in 1..MuxPorts, last \in BOOLEAN : MuxerFrame(port, last)

MuxSpec == MuxInit /\ [][MuxNext]_mxVars

-----------------------------------------------------------------------------
(* What is to hold.                                                        *)
MuxTypeOK ==
    /\ mxStep \in {"stopped", "preparing", "ready", "running", "sink stopped", "refused"}
    /\ mxPlugin.state \in {"none", "initialized", "running"} /\ mxSink.state \in {"none", "initialized", "prepared", "running"}
    /\ mxIo.pos \in Nat /\ mxSink.pos \in Nat /\ mxFile.pos \in Nat /\ Len(mxIo.buffer) < AvioSize

\* Nothing lies in the file at another offset than the muxer gave it, also when
\* seeks of the descriptor fail in between (IoWrite, OutputSinkFilter::PushData).
NothingMisplaced == \A x \in DOMAIN mxFile.data : mxFile.data[x].at = x

\* When the recording is complete and nothing went wrong the file is what the muxer wrote.
FileIsComplete == (mxStep = "running" /\ mxSink.eos /\ ~mxHarmed) => mxFile.data = mxAsked

MuxedInPlace == NothingMisplaced /\ FileIsComplete

\* A recording that is stopped without its end leaves nothing behind: it is to be
\* truncated, but the plug-in that runs cannot be reset.
DiscardedIsEmpty == (mxStep = "stopped" /\ ~mxFilter.eos) => mxFile.data = Empty

\* A recording has the tracks of its ports.  Of one that was not ended metaCache_
\* is left, and the next has those tracks too.
TracksAreThePorts == mxStep = "running" => Len(mxPlugin.streams) = MuxPorts

\* Frames are in the stream of their port.  All are in the first one.
FramesAreInTheirStream ==
    \A x \in DOMAIN mxAsked : mxAsked[x].port # 0 => mxAsked[x].stream = mxAsked[x].port

\* A recording reported as complete with frames has a header.  A header that libavformat refused is not missed.
CompleteHasHeader == (mxStep = "running" /\ mxSink.eos /\ mxCount.frames > 0) => mxAsked # Empty

\* A muxer that could be chosen for a recording alone is chosen.  Not if an earlier
\* one had another codec.
OldCodecsDoNotMatter ==
    mxStep = "refused" => Candidates(SubSeq(mxFilter.caps, Len(mxFilter.caps) - mxCount.ports + 1, Len(mxFilter.caps))) = {}
=============================================================================
