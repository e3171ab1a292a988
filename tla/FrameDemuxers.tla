---------------------------- MODULE FrameDemuxers ----------------------------
(***************************************************************************)
(* The demuxer plug-ins that cut a stream of bytes into frames themselves: *)
(* AAC (ADTS), MP3 and MP4.  Each fills a buffer from the source, finds a   *)
(* frame at its head, hands it out, and moves what remains to the head     *)
(* before it fills the buffer again.  A plug-in is opened (GetMediaInfo),   *)
(* read (ReadFrame), sought and opened again (Reset), by one thread.       *)
(*                                                                         *)
(* A byte is its position in the file, 0 a byte that is none of the file's; *)
(* a header is the first byte of a frame, and nothing else looks like one.  *)
(* Of the AAC pattern one byte is as good as two.  MP4D_frame_offset and    *)
(* mp3dec_iterate_buf are libraries: the table of the samples, and the      *)
(* first whole frame that another header follows, or that fills the buffer. *)
(***************************************************************************)
EXTENDS Integers, Sequences, FiniteSetsExt

CONSTANTS Demuxers,     \* the plug-ins, of "aac", "mp3" and "mp4"
          FrameSizes,   \* the bytes of each frame
          LeadIn,       \* bytes before the first frame: an ID3 tag of an MP3 file, a header of MP4
          IoSize,       \* MEDIA_IO_SIZE
          OnceLength,   \* AUDIO_DEMUXER_SOURCE_ONCE_LENGTH_MAX
          MaxHiccups,   \* bound of the reads that fail or bring too little
          MaxFrameSeeks,
          MaxReopens    \* bound of the times the plug-in is reset and opened again

ASSUME FramesAssumption ==
    /\ Demuxers \subseteq {"aac", "mp3", "mp4"}
    /\ FrameSizes \in Seq(Nat \ {0}) /\ FrameSizes # <<>> /\ LeadIn \in Nat
    /\ IoSize \in Nat \ {0} /\ OnceLength \in Nat \ {0}
    /\ MaxHiccups \in Nat /\ MaxFrameSeeks \in Nat /\ MaxReopens \in Nat

VARIABLES
    demuxer,    \* the plug-in
    stage,      \* "closed", "probing" (in GetMediaInfo) or "open"
    io,         \* ioContext_.offset, ioDataRemainSize_, the length used last, inIoBuffer_
    sampleIndex,
    mp3,        \* id3v2SkipFlag, id3v2Offset, mp3SeekFlag, discardItemCount
    frameOut,   \* the frame handed out last: its bytes, and which one was due
    due,        \* the frame due next (history)
    spoilt,     \* whether the source faltered or the plug-in was opened again (history)
    spent       \* hiccups, seeks and reopenings so far

framesVars == <<demuxer, stage, io, sampleIndex, mp3, frameOut, due, spoilt, spent>>

FrameCount == Len(FrameSizes)
FrameStart[f \in 1 .. FrameCount + 1] ==
    IF f = 1 THEN (IF demuxer = "aac" THEN 1 ELSE LeadIn + 1) ELSE FrameStart[f - 1] + FrameSizes[f - 1]
FileBytes == FrameStart[FrameCount + 1] - 1
FrameBytes(f) == [i \in 1 .. FrameSizes[f] |-> FrameStart[f] + i - 1]
FramesFrom(p) == {f \in 1 .. FrameCount : FrameStart[f] >= p}

IsHeader(p) == \E f \in 1 .. FrameCount : p = FrameStart[f]
LengthAt(p) == FrameSizes[CHOOSE f \in 1 .. FrameCount : p = FrameStart[f]]

Blank == [i \in 1 .. IoSize |-> 0]

FramesTypeOK ==
    /\ demuxer \in Demuxers /\ stage \in {"closed", "probing", "open", "jammed"}
    /\ io.offset \in 0 .. FileBytes /\ io.remain \in 0 .. IoSize /\ io.used \in 0 .. IoSize
    /\ sampleIndex \in 0 .. FrameCount
    /\ due \in 1 .. FrameCount + 1 /\ spoilt \in BOOLEAN

FramesInit ==
    /\ demuxer \in Demuxers /\ stage = "closed"
    /\ io = [offset |-> 0, remain |-> 0, used |-> 0, buffer |-> Blank]
    /\ sampleIndex = 0
    /\ mp3 = [skip |-> FALSE, left |-> 0, seek |-> FALSE, discarded |-> 0]
    /\ frameOut = [bytes |-> <<>>, due |-> 1, silent |-> FALSE]
    /\ due = 1 /\ spoilt = FALSE
    /\ spent = [hiccups |-> 0, seeks |-> 0, reopens |-> 0]

-----------------------------------------------------------------------------
(* GetDataFromSource: what remains is moved to the head of the buffer, and *)
(* the rest of it is read.                                                  *)

\* A faulty memmove, which takes what remains from the end of the buffer.
BufferMovedFromEnd(d) ==
    IF d.remain = 0 THEN d.buffer
    ELSE [i \in 1 .. IoSize |-> IF i <= d.remain THEN d.buffer[IoSize - d.remain + i] ELSE 0]

BufferMoved(d) ==
    IF d.remain = 0 THEN d.buffer
    ELSE [i \in 1 .. IoSize |-> IF i <= d.remain /\ i + d.used <= IoSize
                                THEN d.buffer[i + d.used] ELSE 0]

AtEnd(d) == d.offset >= FileBytes /\ d.remain = 0

Wanted(d) == Min({IoSize - d.remain, FileBytes - d.offset})

Filled(d, n) ==
    [d EXCEPT !.offset = @ + n, !.remain = @ + n,
              !.buffer = [i \in 1 .. IoSize |->
                            IF i \in d.remain + 1 .. d.remain + n THEN d.offset + i - d.remain
                            ELSE BufferMoved(d)[i]]]

\* The reads of the source: in full, or, in a hiccup, with less.
Amounts(d) == IF spent.hiccups < MaxHiccups THEN 0 .. Wanted(d) ELSE {Wanted(d)}

\* DoReadFromSource waits for something; the plug-ins for AAC and MP4 do not read
\* when nothing is wanted, and that for MP3 neither.
Brought(d, n) == n > 0 \/ d.remain > 0

Hiccup(d, n) == n < Wanted(d)

Counted(d, n) == /\ spent' = [spent EXCEPT !.hiccups = IF Hiccup(d, n) THEN @ + 1 ELSE @]
                 /\ spoilt' = (spoilt \/ Hiccup(d, n))

\* The source fails: what remains is moved, and moved again by the next attempt.
SourceFails ==
    /\ stage \in {"probing", "open"} /\ ~AtEnd(io) /\ Wanted(io) > 0
    /\ demuxer = "mp4" => sampleIndex < FrameCount /\ FrameStart[sampleIndex + 1] - 1 <= io.offset
    /\ spent.hiccups < MaxHiccups
    /\ spent' = [spent EXCEPT !.hiccups = @ + 1] /\ spoilt' = TRUE
    /\ io' = [io EXCEPT !.buffer = BufferMoved(io)]
    /\ UNCHANGED <<demuxer, stage, sampleIndex, mp3, frameOut, due>>

HandsOut(bytes, silent) ==
    /\ frameOut' = [bytes |-> bytes, due |-> due, silent |-> silent]
    /\ due' = IF due <= FrameCount THEN due + 1 ELSE due

HandsNothing == frameOut' = [frameOut EXCEPT !.bytes = <<>>] /\ due' = due

-----------------------------------------------------------------------------
(* AAC.                                                                    *)

\* GetMediaInfo reads and parses the head; nothing is used up.
AacOpens(n) ==
    /\ demuxer = "aac" /\ stage = "probing" /\ n \in Amounts(io) /\ Brought(io, n)
    /\ io' = Filled(io, n) /\ Counted(io, n)
    /\ stage' = IF IsHeader(Filled(io, n).buffer[1]) THEN "open" ELSE "closed"
    /\ UNCHANGED <<demuxer, sampleIndex, mp3, frameOut, due>>

\* AudioDemuxerAACProcess: how much of the buffer is used, and the frame if any.
\* A frame whose end is not in the buffer is used up; one that no header follows
\* is skipped byte by byte.
AacProcess(d) ==
    LET head == d.buffer[1]
        length == LengthAt(head)
    IN  IF ~IsHeader(head) THEN [used |-> 1, frame |-> <<>>]
        ELSE IF length + 1 > d.remain THEN [used |-> d.remain, frame |-> <<>>]
        ELSE IF IsHeader(d.buffer[length + 1])
             THEN [used |-> length, frame |-> SubSeq(d.buffer, 1, length)]
             ELSE [used |-> 1, frame |-> <<>>]

AacReads(n) ==
    LET d == Filled(io, n)
        result == AacProcess(d)
    IN  /\ demuxer = "aac" /\ stage = "open" /\ ~AtEnd(io) /\ n \in Amounts(io) /\ Brought(io, n)
        /\ Counted(io, n)
        /\ io' = [d EXCEPT !.used = result.used, !.remain = @ - result.used]
        /\ IF result.frame # <<>> THEN HandsOut(result.frame, FALSE) ELSE HandsNothing
        /\ UNCHANGED <<demuxer, stage, sampleIndex, mp3>>

\* SeekTo answers OK and does nothing.

-----------------------------------------------------------------------------
(* MP3.                                                                    *)

\* Where in the bytes from..upto of a buffer mp3dec_iterate_buf finds a frame.
WholeFrames(b, from, upto) ==
    {i \in from .. upto :
        /\ IsHeader(b[i]) /\ i + LengthAt(b[i]) - 1 <= upto
        /\ \/ i + LengthAt(b[i]) <= upto /\ IsHeader(b[i + LengthAt(b[i])])
           \/ i = from /\ i + LengthAt(b[i]) - 1 = upto}

\* AudioDemuxerMp3Probe skips the ID3 tag, which may take more than one buffer, and
\* looks for a frame behind it.
TagLeft(d) == IF mp3.left > 0 THEN mp3.left ELSE IF d.buffer[1] = 1 THEN LeadIn ELSE 0

Mp3Probe(d) ==
    LET left == TagLeft(d)
        found(from) == WholeFrames(d.buffer, from, d.remain) # {}
    IN  IF mp3.skip \/ left = 0
        THEN [used |-> d.used, mp3 |-> mp3, ok |-> found(1), more |-> mp3.skip]
        ELSE IF d.remain >= left
        THEN [used |-> left, mp3 |-> [mp3 EXCEPT !.skip = TRUE, !.left = 0],
              ok |-> found(left + 1), more |-> TRUE]
        ELSE [used |-> d.remain, mp3 |-> [mp3 EXCEPT !.left = left - d.remain],
              ok |-> FALSE, more |-> TRUE]

\* One turn of GetMediaInfo, which goes on while the probe wants more.  What was used
\* is subtracted, whatever this turn has used.
Mp3Opens(n) ==
    LET d == Filled(io, n)
        probe == Mp3Probe(d)
    IN  /\ demuxer = "mp3" /\ stage = "probing" /\ n \in Amounts(io) /\ Brought(io, n)
        /\ Counted(io, n)
        /\ mp3' = probe.mp3
        /\ io' = IF probe.ok \/ probe.more
                 THEN [d EXCEPT !.used = probe.used, !.remain = @ - Min({probe.used, @})] ELSE d
        /\ stage' = CASE probe.used > d.remain -> "jammed"
                      [] probe.ok -> "open"
                      [] ~probe.ok /\ probe.more /\ probe.used <= d.remain -> "probing"
                      [] ~probe.ok /\ ~probe.more /\ probe.used <= d.remain -> "closed"
        /\ UNCHANGED <<demuxer, sampleIndex, frameOut, due>>

\* WriteMp3Data: without a frame some bytes are given up, of those that remain.
GivesUp(d) == [d EXCEPT !.used = 0, !.remain = IF @ > OnceLength THEN @ - OnceLength ELSE 0]

\* AudioDemuxerMp3Process: after a seek the first two frames are silent.
Silenced == mp3.seek /\ mp3.discarded < 2

Mp3Reads(n) ==
    LET d == Filled(io, n)
        found == WholeFrames(d.buffer, 1, d.remain)
        at == Min(found)
        length == LengthAt(d.buffer[at])
    IN  /\ demuxer = "mp3" /\ stage = "open" /\ ~AtEnd(io) /\ n \in Amounts(io) /\ Brought(io, n)
        /\ Counted(io, n)
        /\ mp3' = IF Silenced THEN [mp3 EXCEPT !.discarded = @ + 1]
                  ELSE [mp3 EXCEPT !.discarded = 0, !.seek = FALSE]
        /\ IF found = {} THEN io' = GivesUp(d) /\ HandsNothing
           ELSE /\ io' = [d EXCEPT !.used = at + length - 1, !.remain = @ - (at + length - 1)]
                /\ HandsOut(SubSeq(d.buffer, at, at + length - 1), Silenced)
        /\ UNCHANGED <<demuxer, stage, sampleIndex>>

\* A faulty SeekTo, which keeps what the buffer has.
Mp3SeeksKeeping(p) ==
    /\ demuxer = "mp3" /\ stage = "open" /\ spent.seeks < MaxFrameSeeks
    /\ io' = [io EXCEPT !.offset = p]
    /\ mp3' = [mp3 EXCEPT !.seek = TRUE]
    /\ due' = Min(FramesFrom(p + 1) \cup {FrameCount + 1})
    /\ spent' = [spent EXCEPT !.seeks = @ + 1]
    /\ frameOut' = [frameOut EXCEPT !.bytes = <<>>]
    /\ UNCHANGED <<demuxer, stage, sampleIndex, spoilt>>

\* SeekTo a time is to a byte, anywhere behind the tag.
Mp3Seeks(p) ==
    /\ demuxer = "mp3" /\ stage = "open" /\ spent.seeks < MaxFrameSeeks
    /\ io' = [io EXCEPT !.offset = p, !.remain = 0, !.buffer = Blank]
    /\ mp3' = [mp3 EXCEPT !.seek = TRUE]
    /\ due' = Min(FramesFrom(p + 1) \cup {FrameCount + 1})
    /\ spent' = [spent EXCEPT !.seeks = @ + 1]
    /\ frameOut' = [frameOut EXCEPT !.bytes = <<>>]
    /\ UNCHANGED <<demuxer, stage, sampleIndex, spoilt>>

-----------------------------------------------------------------------------
(* MP4.                                                                    *)

SampleOffset(s) == FrameStart[s + 1] - 1

\* GetMediaInfo reads the tables, and begins at the first sample.
Mp4Opens ==
    /\ demuxer = "mp4" /\ stage = "probing"
    /\ stage' = "open"
    /\ io' = [io EXCEPT !.remain = 0, !.offset = SampleOffset(0), !.used = IoSize]
    /\ UNCHANGED <<demuxer, sampleIndex, mp3, frameOut, due, spoilt, spent>>

\* The sample is beyond what has been read: the buffer begins anew there.
Jumped(d) == IF SampleOffset(sampleIndex) > d.offset
             THEN [d EXCEPT !.offset = SampleOffset(sampleIndex), !.remain = 0, !.buffer = Blank]
             ELSE d

\* ReadFrame: the sample is at the head of the buffer.  When it is not all there its
\* size is subtracted all the same, below zero, and no later read moves the buffer.
Mp4Reads(n) ==
    LET from == Jumped(io)
        d == Filled(from, n)
        size == FrameSizes[sampleIndex + 1]
    IN  /\ demuxer = "mp4" /\ stage = "open" /\ sampleIndex < FrameCount
        /\ ~AtEnd(from) /\ n \in Amounts(from) /\ (Wanted(from) = 0 \/ Brought(from, n))
        /\ Counted(from, n)
        /\ io' = [d EXCEPT !.used = size, !.remain = @ - Min({size, @})]
        /\ stage' = IF size > d.remain THEN "jammed" ELSE "open"
        /\ sampleIndex' = sampleIndex + 1
        /\ HandsOut(SubSeq(d.buffer, 1, size), FALSE)
        /\ UNCHANGED <<demuxer, mp3>>

Mp4Seeks(p) ==
    LET target == Min({f \in 1 .. FrameCount : FrameStart[f] > p} \cup {FrameCount}) IN
    /\ demuxer = "mp4" /\ stage = "open" /\ spent.seeks < MaxFrameSeeks
    /\ IF p >= SampleOffset(FrameCount - 1)
       THEN /\ sampleIndex' = FrameCount /\ due' = FrameCount + 1
            /\ io' = io
       ELSE /\ sampleIndex' = target - 1 /\ due' = target
            /\ io' = [io EXCEPT !.offset = SampleOffset(target - 1), !.remain = 0, !.buffer = Blank]
    /\ spent' = [spent EXCEPT !.seeks = @ + 1]
    /\ frameOut' = [frameOut EXCEPT !.bytes = <<>>]
    /\ UNCHANGED <<demuxer, stage, mp3, spoilt>>

-----------------------------------------------------------------------------
(* The filter: InitPlugin.                                                 *)

Opens ==
    /\ stage = "closed" /\ spent.reopens = 0
    /\ stage' = "probing"
    /\ UNCHANGED <<demuxer, io, sampleIndex, mp3, frameOut, due, spoilt, spent>>

\* A plug-in that fits the next medium too is reset and used again.  Reset forgets the
\* offset and what remains, and nothing else: not the length used last, the sample,
\* or the tag that was skipped.
Reopens ==
    /\ stage = "open" /\ spent.reopens < MaxReopens
    /\ stage' = "probing"
    /\ io' = [io EXCEPT !.offset = 0, !.remain = 0, !.buffer = Blank]
    /\ frameOut' = [frameOut EXCEPT !.bytes = <<>>]
    /\ due' = 1 /\ spoilt' = TRUE
    /\ spent' = [spent EXCEPT !.reopens = @ + 1]
    /\ UNCHANGED <<demuxer, sampleIndex, mp3>>

FramesNext ==
    \/ Opens \/ Reopens \/ SourceFails \/ Mp4Opens
    \/ \E n \in 0 .. IoSize : AacOpens(n) \/ AacReads(n) \/ Mp3Opens(n) \/ Mp3Reads(n) \/ Mp4Reads(n)
    \/ \E p \in 0 .. FileBytes : p >= LeadIn /\ (Mp3Seeks(p) \/ Mp4Seeks(p))

FramesSpec == FramesInit /\ [][FramesNext]_framesVars

-----------------------------------------------------------------------------
(* Properties.                                                             *)

\* END_OF_STREAM.
Finished == stage = "open" /\ IF demuxer = "mp4" THEN sampleIndex = FrameCount ELSE AtEnd(io)

\* From a source that answers every read in full, the frames come whole, in order and
\* without a gap from the first or from where a seek landed; at the end none is
\* missing but the last one of AAC, which no header follows, and, after a seek
\* into the last frame but one, the last one of MP3.
FramesInOrder ==
    ~spoilt =>
        /\ frameOut.bytes # <<>> => frameOut.bytes = FrameBytes(frameOut.due)
        /\ Finished => CASE demuxer = "aac" -> due = FrameCount
                         [] demuxer = "mp3" /\ spent.seeks > 0 -> due >= FrameCount
                         [] OTHER -> due = FrameCount + 1

\* A plug-in that was reset hands out the frames of the next medium from the first:
\* "Reset the plugin, reset the plugin running status and parameters before Prepare."
ResetStartsAnew ==
    spent.reopens > 0 /\ spent.hiccups = 0 /\ frameOut.bytes # <<>>
        => frameOut.bytes = FrameBytes(frameOut.due)
=============================================================================
