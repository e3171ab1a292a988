--------------------------- MODULE FFmpegDemuxer ---------------------------
(***************************************************************************)
(* The demuxer plug-in on libavformat                                      *)
(* (engine/plugin/plugins/ffmpeg_adapter/demuxer): it tells the demuxer    *)
(* filter which tracks a medium has, reads its frames one after the other  *)
(* through callbacks that read the data source, and moves to a time.  The  *)
(* filter keeps the plug-in and uses it again for the next medium of the   *)
(* same type (DemuxerFilter::InitPlugin).  libavformat is modelled by what *)
(* it answers: the packets of the medium in order, the index of a stream.  *)
(***************************************************************************)
EXTENDS Integers, Sequences, FiniteSets, SequencesExt

CONSTANTS
    FfMedia,       \* the media: [opens, streams, packets]
    NearEnd,       \* the hundred milliseconds that count as the end of a video
    MaxFfOpens,    \* bound: media opened
    MaxFfSeeks,    \* bound: seeks of one medium
    MaxFfSelects,  \* bound: tracks selected or unselected
    MaxFfErrors    \* bound: reads of the data source that fail

ASSUME FFmpegDemuxerAssumption ==
    /\ {NearEnd, MaxFfOpens, MaxFfSeeks, MaxFfSelects, MaxFfErrors} \subseteq Nat
    /\ \A m \in FfMedia : \A i \in DOMAIN m.packets : m.packets[i].stream \in DOMAIN m.streams

VARIABLES
    ffSource,    \* ioContext_.dataSource: the medium, or "none"
    ffContext,   \* formatContext_: the medium it was opened on and the next packet
    ffIo,        \* ioContext_.offset, in packets
    ffInfo,      \* mediaInfo_: the tracks, or "none"
    ffSelected,  \* selectedTrackIds_
    ffBits,      \* vdBitStreamFormat_
    ffBsf,       \* avbsfContext_: the stream it was made for, 0 if there is none
    ffStep,      \* what the filter does with the plug-in
    ffOut,       \* the frames delivered since the last seek or selection
    ffFrom,      \* the packet from which they were to come
    ffSought,    \* the last seek: what was asked for and what was answered
    ffCount      \* the bounded steps so far
ffVars == <<ffSource, ffContext, ffIo, ffInfo, ffSelected, ffBits, ffBsf, ffStep, ffOut, ffFrom, ffSought, ffCount>>

NoMedium == [name |-> "none", opens |-> FALSE, streams |-> <<>>, packets |-> <<>>]
NoSeek == [mode |-> "none", track |-> 0, asked |-> 0, told |-> 0]

StreamsOf(m) == DOMAIN m.streams
Counts(what) == ffCount' = [ffCount EXCEPT ![what] = @ + 1]

FfInit ==
    /\ ffSource = NoMedium /\ ffContext = [medium |-> NoMedium, next |-> 1] /\ ffIo = 1
    /\ ffInfo = <<>> /\ ffSelected = <<>> /\ ffBits = "unknown" /\ ffBsf = 0
    /\ ffStep = "created" /\ ffOut = <<>> /\ ffFrom = 1 /\ ffSought = NoSeek
    /\ ffCount = [opens |-> 0, seeks |-> 0, selects |-> 0, errors |-> 0]

-----------------------------------------------------------------------------
(* The tracks (ffmpeg_track_meta.cpp).                                     *)

\* g_streamConvertors: the codecs that have a mime.
StreamMimes ==
    [pcm |-> "audio/raw", mp1 |-> "audio/mpeg", mp2 |-> "audio/mpeg", mp3 |-> "audio/mpeg",
     aac |-> "audio/mp4a-latm", latm |-> "audio/aac-latm", vorbis |-> "audio/vorbis", flac |-> "audio/flac",
     ape |-> "audio/ape", amrnb |-> "audio/3gpp", amrwb |-> "audio/amr-wb", opus |-> "audio/opus", h264 |-> "video/avc"]

\* ConvertMP1StreamToMetaInfo and its like.
MpegLayer(codec) == CASE codec = "mp1" -> 1 [] codec = "mp2" -> 2 [] codec = "mp3" -> 3 [] OTHER -> 0

\* ConvertAACStreamToMetaInfo: LC, unless the configuration can be parsed and says another.
AacProfile(s) == IF s.codec # "aac" THEN "none" ELSE IF s.config = "he" THEN "HE" ELSE "LC"
AacFormat(s) == CASE s.codec = "latm" -> "loas" [] s.codec = "aac" /\ s.config = "none" -> "adts" [] OTHER -> "none"

\* ConvertAVCStreamToMetaInfo: the configuration is written anew, if it can be parsed.
TrackConfig(s) == IF s.codec = "h264" /\ s.config \notin {"none", "broken"} THEN "annexb" ELSE s.config

\* What every convertor writes, and the meta of a codec without one: ParseMediaData
\* has set the bit streams of a video, and ConvertAVStreamToMetaInfo clears it all first.
CommonMeta(s, i) == [id |-> i, config |-> s.config, bits |-> <<>>]
NoMeta == [id |-> 0, config |-> "none", bits |-> <<>>, mime |-> "none", layer |-> 0, profile |-> "none", format |-> "none"]

HasConvertor(s) == s.codec \in DOMAIN StreamMimes
TrackMeta(m, i) ==
    LET s == m.streams[i] IN
    IF ~HasConvertor(s) THEN NoMeta
    ELSE [mime |-> StreamMimes[s.codec], layer |-> MpegLayer(s.codec), profile |-> AacProfile(s),
          format |-> AacFormat(s), config |-> TrackConfig(s)] @@ CommonMeta(s, i)

\* ParseMediaData leaves out what has no decoder context and a video without a size.
Parsed(s) == s.opens /\ (s.type = "video" /\ s.codec # "raw video" => s.sized)
TracksOf(m) ==
    LET kept == SelectSeq([i \in StreamsOf(m) |-> i], LAMBDA i : Parsed(m.streams[i])) IN
    [k \in DOMAIN kept |-> TrackMeta(m, kept[k])]

-----------------------------------------------------------------------------
(* The life of the plug-in (DemuxerFilter::CreatePlugin, InitPlugin).       *)

\* Reset keeps formatContext_.
Resets ==
    /\ ffInfo' = <<>> /\ ffIo' = 1 /\ ffSelected' = <<>> /\ ffBsf' = 0 /\ ffBits' = "unknown"
    /\ ffOut' = <<>> /\ ffFrom' = 1 /\ ffSought' = NoSeek

Opened(m) == IF m.opens THEN [medium |-> m, next |-> 1] ELSE ffContext

\* The plug-in is reset, gets the source and is prepared: InitAVFormatContext
\* opens it, and leaves formatContext_ alone if that fails.
OpenMedium(m) ==
    /\ ffStep \in {"created", "opened", "refused", "parsed"} /\ ffCount.opens < MaxFfOpens
    /\ Resets /\ ffSource' = m
    /\ ffContext' = Opened(m)
    /\ ffStep' = IF ffContext'.medium = NoMedium THEN "refused" ELSE "opened"
    /\ ffCount' = [ffCount EXCEPT !.opens = @ + 1, !.seeks = 0]

\* A new plug-in for a medium of another type.
CreatePlugin ==
    /\ ffStep \in {"opened", "refused", "parsed"} /\ ffStep' = "created" /\ ffCount.opens < MaxFfOpens
    /\ Resets /\ ffSource' = NoMedium /\ ffContext' = [medium |-> NoMedium, next |-> 1]
    /\ UNCHANGED ffCount

GetMediaInfo ==
    /\ ffStep = "opened" /\ ffStep' = "parsed"
    /\ ffInfo' = TracksOf(ffContext.medium)
    /\ UNCHANGED <<ffSource, ffContext, ffIo, ffSelected, ffBits, ffBsf, ffOut, ffFrom, ffSought, ffCount>>

\* The demuxer filter tells which bit stream its decoder wants.
WantsAnnexb ==
    /\ ffStep = "parsed" /\ ffBits = "unknown" /\ ffBits' = "annexb"
    /\ UNCHANGED <<ffSource, ffContext, ffIo, ffInfo, ffSelected, ffBsf, ffStep, ffOut, ffFrom, ffSought, ffCount>>

Selectable(id) == id \in 1..Len(ffInfo)
FramesAnew == ffOut' = <<>> /\ ffFrom' = ffContext.next

SelectTrack(id) ==
    /\ ffStep = "parsed" /\ ffCount.selects < MaxFfSelects /\ Counts("selects")
    /\ Selectable(id) /\ ~Contains(ffSelected, id)
    /\ ffSelected' = Append(ffSelected, id) /\ FramesAnew
    /\ UNCHANGED <<ffSource, ffContext, ffIo, ffInfo, ffBits, ffBsf, ffStep, ffSought>>

UnselectTrack(id) ==
    /\ ffStep = "parsed" /\ ffCount.selects < MaxFfSelects /\ Counts("selects")
    /\ Contains(ffSelected, id)
    /\ ffSelected' = SelectSeq(ffSelected, LAMBDA t : t # id) /\ FramesAnew
    /\ UNCHANGED <<ffSource, ffContext, ffIo, ffInfo, ffBits, ffBsf, ffStep, ffSought>>

-----------------------------------------------------------------------------
(* Reading.                                                                *)

\* IsSelectedTrack, and everything if nothing is selected.
Selected(p) == ffSelected = <<>> \/ Contains(ffSelected, p.stream)

\* ConvertAVPacketToFrameInfo: raw video and what is neither audio nor video are no frames.
MakesFrame(s) == s.type = "audio" \/ (s.type = "video" /\ s.codec # "raw video")

\* InitConvertContext: there is a bit stream filter for two codec tags, made for
\* the first stream that needs one.
NeedsBsf(s) == s.type = "video" /\ ffBits = "annexb" /\ s.tag \in {"avc1", "hevc"}
BsfFor(i, s) == IF NeedsBsf(s) /\ ffBsf = 0 THEN i ELSE ffBsf

Frame(k, p, s) ==
    [packet |-> k, track |-> p.stream,
     by |-> IF s.type = "video" /\ ffBits = "annexb" /\ BsfFor(p.stream, s) # 0 THEN BsfFor(p.stream, s) ELSE p.stream]

\* AVReadPacket and AVSeek: libavformat reads where ioContext_ stands.
ReadsTo(k) == ffIo' = k /\ ffContext' = [ffContext EXCEPT !.next = k]
MovesTo(k) == ffIo' = k /\ ffContext' = [ffContext EXCEPT !.next = k]

\* av_read_frame until a selected track.
ReadAhead(packets, from) ==
    LET found == {k \in from..Len(packets) : Selected(packets[k])} IN
    IF found = {} THEN Len(packets) + 1 ELSE CHOOSE k \in found : \A j \in found : k <= j

ReadFrame ==
    /\ ffStep = "parsed"
    /\ LET packets == ffSource.packets
           k == ReadAhead(packets, ffIo) IN
       IF k > Len(packets)
       THEN ReadsTo(k) /\ UNCHANGED <<ffOut, ffBsf>>
       ELSE LET p == packets[k]
                s == ffSource.streams[p.stream] IN
            /\ ReadsTo(k + 1)
            /\ IF MakesFrame(s) THEN ffOut' = Append(ffOut, Frame(k, p, s)) /\ ffBsf' = BsfFor(p.stream, s)
               ELSE UNCHANGED <<ffOut, ffBsf>>
    /\ UNCHANGED <<ffSource, ffInfo, ffSelected, ffBits, ffStep, ffFrom, ffSought, ffCount>>

\* The source fails between two packets: AVReadPacket answers an error, the
\* packets read before it that no track wants are gone.
ReadFails ==
    /\ ffStep = "parsed" /\ ffCount.errors < MaxFfErrors /\ Counts("errors")
    /\ \E k \in ffIo..ReadAhead(ffSource.packets, ffIo) :
        /\ k <= Len(ffSource.packets)
        /\ ReadsTo(k)
    /\ UNCHANGED <<ffSource, ffInfo, ffSelected, ffBits, ffBsf, ffStep, ffOut, ffFrom, ffSought>>

-----------------------------------------------------------------------------
(* Seeking.                                                                *)
SeekModes == {"previous sync", "next sync", "closest sync", "closest"}

\* A mutant: the next key frame is looked for before the time, too.
SeekFlagsAlwaysBack(mode) ==
    IF mode \in {"closest sync", "closest"} THEN {"frame", "any"} ELSE {"frame", "backward"}

\* seekModeToFfmpegSeekFlags.
SeekFlags(mode) ==
    CASE mode = "previous sync" -> {"frame", "backward"}
      [] mode = "next sync" -> {"frame"}
      [] OTHER -> {"frame", "any"}

\* The packets of a stream that its index lists, and av_index_search_timestamp: the
\* one at or next to a time, from there the next key frame in the direction of the search.
IndexOf(m, i) == {k \in DOMAIN m.packets : m.packets[k].stream = i}
SearchIndex(m, i, t, flags) ==
    LET back == "backward" \in flags
        fits == {k \in IndexOf(m, i) :
                    /\ IF back THEN m.packets[k].time <= t ELSE m.packets[k].time >= t
                    /\ "any" \in flags \/ m.packets[k].key} IN
    IF fits = {} THEN 0
    ELSE IF back THEN CHOOSE k \in fits : \A j \in fits : j <= k
    ELSE CHOOSE k \in fits : \A j \in fits : k <= j

\* av_find_default_stream_index: a video if there is one.
DefaultStream(m) ==
    LET videos == {i \in StreamsOf(m) : m.streams[i].type = "video"} IN
    CHOOSE i \in (IF videos # {} THEN videos ELSE StreamsOf(m)) :
        \A j \in (IF videos # {} THEN videos ELSE StreamsOf(m)) : i <= j

\* Close to the end of a video the key frame before is taken.
FlagsFor(s, t, mode) ==
    IF s.type = "video" /\ mode = "next sync" /\ s.duration - t <= NearEnd THEN SeekFlags("previous sync") ELSE SeekFlags(mode)

\* What is sought: the time of a key frame of a video that the flags find, or the
\* one before; of audio the time itself.
SeekTarget(m, i, t, mode) ==
    LET first == SearchIndex(m, i, t, FlagsFor(m.streams[i], t, mode))
        key == IF first # 0 THEN first ELSE SearchIndex(m, i, t, SeekFlags("previous sync")) IN
    IF m.streams[i].type = "video" /\ key # 0 THEN m.packets[key].time ELSE t

\* av_seek_frame searches again, and moves the io context through AVSeek.
SeekTo(t, mode) ==
    /\ ffStep = "parsed" /\ ffCount.seeks < MaxFfSeeks /\ StreamsOf(ffContext.medium) # {}
    /\ LET m == ffContext.medium
           i == DefaultStream(m)
           target == SeekTarget(m, i, t, mode)
           k == SearchIndex(m, i, target, FlagsFor(m.streams[i], t, mode)) IN
       IF k = 0 THEN UNCHANGED <<ffContext, ffIo, ffOut, ffFrom, ffSought>>
       ELSE /\ MovesTo(k)
            /\ ffOut' = <<>> /\ ffFrom' = k
            /\ ffSought' = [mode |-> mode, track |-> i, asked |-> t, told |-> target]
    /\ Counts("seeks")
    /\ UNCHANGED <<ffSource, ffInfo, ffSelected, ffBits, ffBsf, ffStep>>

FfTimes == UNION { {m.packets[k].time : k \in DOMAIN m.packets} : m \in FfMedia }

FfNext ==
    \/ \E m \in FfMedia : OpenMedium(m)
    \/ CreatePlugin \/ GetMediaInfo \/ WantsAnnexb \/ ReadFrame \/ ReadFails
    \/ \E id \in 1..Len(ffInfo) : SelectTrack(id) \/ UnselectTrack(id)
    \/ \E t \in FfTimes, mode \in SeekModes : SeekTo(t, mode)

FfSpec == FfInit /\ [][FfNext]_ffVars

-----------------------------------------------------------------------------
(* What is to hold.                                                        *)
FfTypeOK ==
    /\ ffSource \in FfMedia \cup {NoMedium} /\ ffContext.medium \in FfMedia \cup {NoMedium}
    /\ ffStep \in {"created", "opened", "refused", "parsed"}
    /\ ffBits \in {"unknown", "annexb"} /\ ffIo \in Nat /\ ffBsf \in Nat
    /\ ffCount.opens <= MaxFfOpens /\ ffCount.seeks <= MaxFfSeeks

OfOneMedium == ffSource = ffContext.medium

\* Since the last seek or selection the plug-in has delivered the frames of the
\* selected tracks as the medium has them: all of them, once and in order, across
\* reads that failed in between, and libavformat believes to be where it reads.
FramesOfTheMedium ==
    ffStep = "parsed" /\ OfOneMedium =>
        /\ ffIo = ffContext.next
        /\ [i \in DOMAIN ffOut |-> ffOut[i].packet] =
              SelectSeq([i \in 1..(ffIo - ffFrom) |-> ffFrom + i - 1],
                        LAMBDA k : Selected(ffSource.packets[k]) /\ MakesFrame(ffSource.streams[ffSource.packets[k].stream]))

KeyTimes(m, i) == {m.packets[k].time : k \in {j \in IndexOf(m, i) : m.packets[j].key}}

\* A seek of a video answers with the time of the frame it moved to: of the key
\* frame at or before the time asked for, or of the one at or after it, or of the
\* last one if there is none after or the end is near.
SeekIsAnswered ==
    ffSought.mode # "none" /\ OfOneMedium /\ ffSource.streams[ffSought.track].type = "video" =>
        LET keys == KeyTimes(ffSource, ffSought.track)
            before == {k \in keys : k <= ffSought.asked}
            after == {k \in keys : k >= ffSought.asked}
            last == ffSource.streams[ffSought.track].duration - ffSought.asked <= NearEnd IN
        IF ffSought.mode = "previous sync" \/ (ffSought.mode = "next sync" /\ (after = {} \/ last))
        THEN ffSought.told \in before /\ \A k \in before : k <= ffSought.told
        ELSE ffSought.mode = "next sync" => ffSought.told \in after /\ \A k \in after : k >= ffSought.told

\* Frames and seeks of a medium are in their place.
DemuxesInPlace == FramesOfTheMedium /\ SeekIsAnswered

\* A plug-in that was opened on a source tells of that source.  It does not if the
\* source cannot be opened and the one before could: formatContext_ is still there.
InfoIsOfTheSource == ffStep = "parsed" => OfOneMedium

\* "sync to closest keyframes" (plugin_types.h): any frame is taken.
ClosestSyncIsKey ==
    ffSought.mode = "closest sync" /\ OfOneMedium /\ ffSource.streams[ffSought.track].type = "video" =>
        ffSought.told \in KeyTimes(ffSource, ffSought.track)

\* A frame is converted by the filter made for its stream.  With two videos the
\* first one's filter converts both.
ConvertedByItsOwn == \A i \in DOMAIN ffOut : ffOut[i].by = ffOut[i].track

\* Each track that has an id can be selected by it.  Not behind a stream that was left out.
EveryTrackIsSelectable == ffStep = "parsed" => \A k \in DOMAIN ffInfo : ffInfo[k].id # 0 => Selectable(ffInfo[k].id)

\* A video track says which bit streams it may have.  What ParseMediaData sets is cleared again.
BitStreamsAreTold == \A k \in DOMAIN ffInfo : ffInfo[k].mime = "video/avc" => ffInfo[k].bits # <<>>
=============================================================================
