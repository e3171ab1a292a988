----------------------------- MODULE DataPacker -----------------------------
(***************************************************************************)
(* How a demuxer reads its media: DataPacker, the cache between the source *)
(* and the demuxer plug-in, with the two ways DemuxerFilter fills it.      *)
(*                                                                         *)
(* Pull: the source can seek.  The thread that reads looks whether the     *)
(* packer holds the range, pulls what is missing and takes its range.      *)
(* Nobody else fills or empties the packer, so a read is one step.         *)
(*                                                                         *)
(* Push: a live source.  The thread of MediaSourceFilter (ReadLoop) pushes *)
(* what it reads; first the thread of TypeFinder peeks, then the demuxer's *)
(* takes.  They share the packer, its mutex and two condition variables.   *)
(*                                                                         *)
(* A buffer is a sequence of byte positions of the media, so that a byte   *)
(* that is served can be told from the byte that was asked for.            *)
(***************************************************************************)
EXTENDS Integers, Sequences, SequencesExt

CONSTANTS Modes,            \* a subset of {"pull", "push"}
          MediaSize,        \* bytes of the media
          ReadSizes,        \* sizes the plug-ins read
          PackerCapacity,   \* MAX_BUFFER_NUMBER_IN_DATA_PACKER
          MaxPeeks,         \* reads of the sniffing plug-ins
          MaxReads,         \* bound of the reads
          SourceMayFail     \* whether a pull may fail

ASSUME PackerAssumption ==
    /\ Modes \subseteq {"pull", "push"}
    /\ MediaSize \in Nat /\ MaxPeeks \in Nat /\ MaxReads \in Nat
    /\ ReadSizes \subseteq Nat \ {0}
    /\ PackerCapacity \in Nat \ {0}
    /\ SourceMayFail \in BOOLEAN

VARIABLES
    mode,           \* pull or push, by the source's Seekable
    packer,         \* the fields of the DataPacker
    pushed,         \* mediaOffset_ of the source: what it has read
    sourceStep,     \* where ReadLoop is
    held,           \* the buffer it pushes
    readerStep,     \* where the thread that reads is
    tries,          \* i of TypeFinder::ReadAt
    peeks, reads,   \* reads made
    wanted,         \* the range asked for last: <<offset, size>>
    nextRead,       \* where the demuxer plug-in reads on
    served,         \* the bytes the last read got
    sourceFailed    \* a pull has failed (history)

packerVars == <<mode, packer, pushed, sourceStep, held, readerStep, tries, peeks, reads,
                wanted, nextRead, served, sourceFailed>>

INVALID_POSITION == <<-1, 0>>

EmptyPacker == [que |-> <<>>, size |-> 0, offset |-> 0, eos |-> FALSE,
                prev |-> INVALID_POSITION, cur |-> INVALID_POSITION, stopped |-> FALSE]

PackerTypeOK ==
    /\ mode \in Modes
    /\ packer.que \in Seq(Seq(0 .. MediaSize - 1))
    /\ packer.size \in Nat /\ packer.offset \in 0 .. MediaSize
    /\ pushed \in 0 .. MediaSize
    /\ sourceStep \in {"off", "read", "push", "full"}
    /\ readerStep \in {"check", "peek", "sleepPeek", "get", "sleepGet", "ended", "gone"}
    /\ tries \in 0 .. 4 /\ peeks \in 0 .. MaxPeeks /\ reads \in 0 .. MaxReads

PackerInit ==
    /\ mode \in Modes
    /\ packer = EmptyPacker
    /\ pushed = 0 /\ held = <<>>
    /\ sourceStep = IF mode = "push" THEN "read" ELSE "off"
    /\ readerStep = "check"
    /\ tries = 0 /\ peeks = 0 /\ reads = 0
    /\ wanted = <<0, 1>> /\ nextRead = 0 /\ served = <<>>
    /\ sourceFailed = FALSE

Media(from, n) == [i \in 1 .. n |-> from + i - 1]
Least(a, b) == IF a < b THEN a ELSE b

-----------------------------------------------------------------------------
(* The packer.                                                             *)

Buffered(pk) == Len(FlattenSeq(pk.que))

FlushInternal(pk) == [EmptyPacker EXCEPT !.stopped = pk.stopped]

Pushed(pk, bytes, offset) ==
    [pk EXCEPT !.que = Append(@, bytes), !.size = @ + Len(bytes),
               !.offset = IF pk.que = <<>> THEN offset ELSE @]

\* IsEmpty answers whether there is data.
IsEmpty(pk) == pk.size > 0

\* PeekRangeInternal: the bytes from an offset on, as many as there are.
CopyRange(pk, offset, size) ==
    LET data == FlattenSeq(pk.que)
        from == offset - pk.offset
    IN  IF from \in 0 .. Len(data) - 1 THEN SubSeq(data, from + 1, Least(from + size, Len(data)))
                                       ELSE <<>>

\* FindFirstBufferToCopy: the buffer that holds the offset, and the place in it.
PositionOf(pk, offset) ==
    LET before(i) == Len(FlattenSeq(SubSeq(pk.que, 1, i)))
        i == CHOOSE k \in 0 .. Len(pk.que) - 1 : offset - pk.offset \in before(k) .. before(k + 1) - 1
    IN  <<i, offset - pk.offset - before(i)>>

\* A faulty comparison, which looks at the place in the buffer alone.
BeforeInBuffer(p, q) == p[1] >= 0 /\ q[1] >= 0 /\ p[2] < q[2]

Before(p, q) ==
    /\ p[1] >= 0 /\ q[1] >= 0
    /\ p[1] < q[1] \/ (p[1] = q[1] /\ p[2] < q[2])

\* A faulty RemoveTo, which leaves the offset of the media behind.
RemoveOldDataOnly(pk, pos) ==
    LET rest == SubSeq(pk.que, pos[1] + 1, Len(pk.que)) IN [pk EXCEPT !.que = rest]

\* RemoveOldData, RemoveTo: whole buffers up to a position, and the front of the last.
RemoveOldData(pk, pos) ==
    LET rest == SubSeq(pk.que, pos[1] + 1, Len(pk.que))
        left == IF rest = <<>> THEN <<>>
                ELSE IF pos[2] >= Len(rest[1]) THEN Tail(rest)
                ELSE <<SubSeq(rest[1], pos[2] + 1, Len(rest[1]))>> \o Tail(rest)
        removed == Buffered(pk) - Len(FlattenSeq(left))
    IN  [pk EXCEPT !.que = left,
                   !.size = IF left = <<>> THEN 0 ELSE @ - removed,
                   !.offset = IF left = <<>> THEN 0 ELSE @ + removed]

\* GetRange(offset, size), without the bytes.  Positions count the buffers that were
\* there when they were taken: they are compared all the same.
AfterGet(pk, offset, size) ==
    LET cur == PositionOf(pk, offset)
        got == [pk EXCEPT !.prev = pk.cur, !.cur = cur]
    IN  IF CopyRange(pk, offset, size) = <<>> THEN [pk EXCEPT !.prev = pk.cur]
        ELSE IF pk.eos /\ pk.size <= size THEN FlushInternal(pk)
        ELSE IF Before(pk.cur, cur) THEN RemoveOldData(got, cur) ELSE got

\* GetRange(size): the front of what is there.
AfterLiveGet(pk, size) ==
    LET n == Least(size, Buffered(pk))
        before(i) == Len(FlattenSeq(SubSeq(pk.que, 1, i)))
        last == CHOOSE k \in 0 .. Len(pk.que) - 1 : n \in before(k) + 1 .. before(k + 1)
    IN  RemoveOldData(pk, <<last, n - before(last)>>)

-----------------------------------------------------------------------------
(* Pull: checkRange_, then peekRange_ or getRange_.                        *)

\* IsDataAvailable drops what it has when the offset is not in it.
Hit(pk, offset) == pk.que # <<>> /\ offset >= pk.offset /\ offset <= pk.offset + pk.size
Checked(pk, offset) == IF Hit(pk, offset) THEN pk ELSE FlushInternal(pk)
Available(pk, offset, size) == Hit(pk, offset) /\ pk.offset + Buffered(pk) >= offset + size
CurOffset(pk, offset) == IF Hit(pk, offset) THEN pk.offset + Buffered(pk) ELSE offset

\* MediaSourceFilter::PullData reads no further than the size of the media.
Pulled(pk, offset, size) ==
    LET from == CurOffset(pk, offset)
        n == Least(size, MediaSize - from)
    IN  Pushed(Checked(pk, offset), Media(from, n), from)

EndOfMedia(pk, offset) == CurOffset(pk, offset) >= MediaSize

HasDataToRead(pk, offset) == offset < CurOffset(pk, offset) /\ ~IsEmpty(Checked(pk, offset))

\* What checkRange_ leaves, and whether it says that there is data.
RangeChecked(pk, offset, size, fails) ==
    CASE Available(pk, offset, size) -> [ok |-> TRUE, pk |-> pk]
      [] ~Available(pk, offset, size) /\ EndOfMedia(pk, offset) ->
            IF HasDataToRead(pk, offset) THEN [ok |-> TRUE, pk |-> [Checked(pk, offset) EXCEPT !.eos = TRUE]]
                                         ELSE [ok |-> FALSE, pk |-> FlushInternal(pk)]
      [] OTHER -> IF fails THEN [ok |-> FALSE, pk |-> Checked(pk, offset)]
                           ELSE [ok |-> TRUE, pk |-> Pulled(pk, offset, size)]

Failing(fails) ==
    /\ fails \in {FALSE, SourceMayFail}
    /\ sourceFailed' = (sourceFailed \/ fails)

Kept == UNCHANGED <<mode, pushed, sourceStep, held>>

\* A sniffing plug-in; the last attempt of ReadAt is what it gets.
PullPeek(offset, size, fails) ==
    /\ mode = "pull" /\ readerStep = "check" /\ reads = 0 /\ peeks < MaxPeeks
    /\ Failing(fails)
    /\ LET r == RangeChecked(packer, offset, size, fails) IN
       /\ packer' = r.pk
       /\ served' = IF r.ok THEN CopyRange(r.pk, offset, size) ELSE <<>>
    /\ wanted' = <<offset, size>>
    /\ peeks' = peeks + 1
    /\ Kept /\ UNCHANGED <<readerStep, tries, reads, nextRead>>

\* DataSourceImpl::ReadAt of the demuxer plug-in; it stops at the first read that fails.
PullGet(size, fails) ==
    /\ mode = "pull" /\ readerStep = "check" /\ reads < MaxReads
    /\ Failing(fails)
    /\ LET r == RangeChecked(packer, nextRead, size, fails)
           got == IF r.ok THEN CopyRange(r.pk, nextRead, size) ELSE <<>>
       IN /\ packer' = IF r.ok THEN AfterGet(r.pk, nextRead, size) ELSE r.pk
          /\ served' = got
          /\ nextRead' = nextRead + Len(got)
          /\ readerStep' = IF got = <<>> THEN "ended" ELSE "check"
    /\ wanted' = <<nextRead, size>>
    /\ reads' = reads + 1
    /\ Kept /\ UNCHANGED <<tries, peeks>>

\* The plug-in goes elsewhere in the media.
PluginSeeks(offset) ==
    /\ mode = "pull" /\ readerStep = "check" /\ reads > 0
    /\ nextRead' = offset /\ served' = <<>>
    /\ UNCHANGED <<mode, packer, pushed, sourceStep, held, readerStep, tries, peeks, reads, wanted, sourceFailed>>

\* FlushStart of the demuxer, whose Task is paused; then a seek.
DemuxerFlushes ==
    /\ mode = "pull" /\ readerStep = "check" /\ reads > 0
    /\ packer' = FlushInternal(packer)
    /\ UNCHANGED <<mode, pushed, sourceStep, held, readerStep, tries, peeks, reads, wanted, nextRead, served, sourceFailed>>

-----------------------------------------------------------------------------
(* Push: the thread of the source.                                         *)

SourceKept == UNCHANGED <<pushed, sourceStep, held>>
ReaderKept == UNCHANGED <<readerStep, tries, peeks, reads, wanted, nextRead, served>>

SourceReads(n) ==
    /\ sourceStep = "read" /\ pushed + n <= MediaSize
    /\ held' = Media(pushed, n)
    /\ sourceStep' = "push"
    /\ ReaderKept /\ UNCHANGED <<mode, packer, pushed, sourceFailed>>

\* A push to a full packer waits for room, or for the packer to be stopped.
SourceWaits ==
    /\ sourceStep = "push" /\ Len(packer.que) >= PackerCapacity
    /\ sourceStep' = "full"
    /\ ReaderKept /\ UNCHANGED <<mode, packer, pushed, held, sourceFailed>>

SourcePushes ==
    /\ sourceStep \in {"push", "full"}
    /\ Len(packer.que) < PackerCapacity /\ ~(sourceStep = "full" /\ packer.stopped)
    /\ packer' = Pushed(packer, held, pushed)
    /\ pushed' = pushed + Len(held) /\ held' = <<>>
    /\ sourceStep' = "read"
    /\ ReaderKept /\ UNCHANGED <<mode, sourceFailed>>

SourceGivesUp ==
    /\ sourceStep = "full" /\ packer.stopped
    /\ pushed' = pushed + Len(held) /\ held' = <<>>
    /\ sourceStep' = "read"
    /\ ReaderKept /\ UNCHANGED <<mode, packer, sourceFailed>>

\* SetEos.
SourceEnds ==
    /\ sourceStep = "read" /\ pushed = MediaSize
    /\ packer' = [packer EXCEPT !.eos = TRUE]
    /\ sourceStep' = "off"
    /\ ReaderKept /\ UNCHANGED <<mode, pushed, held, sourceFailed>>

-----------------------------------------------------------------------------
(* Push: TypeFinder::ReadAt, then the demuxer plug-in.                     *)

Reads(step) == mode = "push" /\ readerStep = step

\* checkRange_ says that there is data when there is none.  The loop leaves i at 4
\* when it has given up, and 3 means that the last look was a success.
SniffChecks ==
    /\ Reads("check") /\ peeks < MaxPeeks
    /\ LET found == ~IsEmpty(packer) IN
       /\ tries' = IF found THEN 0 ELSE (tries + 1) % 4
       /\ peeks' = IF found /\ tries = 3 THEN peeks + 1 ELSE peeks
       /\ readerStep' = IF (found /\ tries < 3) \/ (~found /\ tries = 3) THEN "peek" ELSE "check"
    /\ SourceKept /\ UNCHANGED <<mode, packer, reads, wanted, nextRead, served, sourceFailed>>

\* PeekRange sleeps while the packer is empty, and neither SetEos nor Stop ends that.
SniffPeeks(offset, size) ==
    /\ Reads("peek") \/ Reads("sleepPeek")
    /\ IF packer.que = <<>>
       THEN readerStep = "peek" /\ readerStep' = "sleepPeek" /\ UNCHANGED <<peeks, served, wanted>>
       ELSE /\ readerStep' = "check" /\ peeks' = peeks + 1
            /\ served' = CopyRange(packer, offset, size) /\ wanted' = <<offset, size>>
    /\ SourceKept /\ UNCHANGED <<mode, packer, tries, reads, nextRead, sourceFailed>>

\* MediaTypeFound: the demuxer's Task is started.
SniffEnds ==
    /\ Reads("check") /\ tries = 0
    /\ readerStep' = "get" /\ served' = <<>>
    /\ SourceKept /\ UNCHANGED <<mode, packer, tries, peeks, reads, wanted, nextRead, sourceFailed>>

\* A reader that slept goes away when the media has ended, whatever is in the packer.
LiveGet(size) ==
    /\ Reads("get") \/ Reads("sleepGet")
    /\ reads < MaxReads
    /\ IF packer.que = <<>> /\ ~packer.eos
       THEN readerStep = "get" /\ readerStep' = "sleepGet" /\ UNCHANGED <<packer, served, nextRead, wanted, reads>>
       ELSE IF packer.eos /\ (packer.que = <<>> \/ readerStep = "sleepGet")
       THEN readerStep' = "ended" /\ UNCHANGED <<packer, served, nextRead, wanted, reads>>
       ELSE /\ readerStep' = "get"
            /\ served' = SubSeq(FlattenSeq(packer.que), 1, Least(size, Buffered(packer)))
            /\ packer' = AfterLiveGet(packer, size)
            /\ wanted' = <<nextRead, size>> /\ nextRead' = nextRead + Len(served')
            /\ reads' = reads + 1
    /\ SourceKept /\ UNCHANGED <<mode, tries, peeks, sourceFailed>>

\* DemuxerFilter::Stop: the packer is stopped, and the thread leaves when it is not asleep.
PackerStops ==
    /\ mode = "push" /\ ~packer.stopped
    /\ packer' = [packer EXCEPT !.stopped = TRUE]
    /\ ReaderKept /\ SourceKept /\ UNCHANGED <<mode, sourceFailed>>

ReaderLeaves ==
    /\ packer.stopped /\ readerStep \in {"check", "get", "ended"}
    /\ readerStep' = "gone" /\ served' = <<>>
    /\ SourceKept /\ UNCHANGED <<mode, packer, tries, peeks, reads, wanted, nextRead, sourceFailed>>

PackerNext ==
    \/ \E size \in ReadSizes, fails \in BOOLEAN :
          PullGet(size, fails) \/ \E offset \in 0 .. MediaSize - 1 : PullPeek(offset, size, fails)
    \/ \E offset \in 0 .. MediaSize - 1 : PluginSeeks(offset)
    \/ DemuxerFlushes
    \/ \E n \in ReadSizes : SourceReads(n)
    \/ SourceWaits \/ SourcePushes \/ SourceGivesUp \/ SourceEnds
    \/ SniffChecks \/ SniffEnds
    \/ \E size \in ReadSizes : LiveGet(size) \/ \E offset \in 0 .. MediaSize - 1 : SniffPeeks(offset, size)
    \/ PackerStops \/ ReaderLeaves

PackerSpec == PackerInit /\ [][PackerNext]_packerVars

-----------------------------------------------------------------------------
\* A read gets the bytes it asked for, in order and none from elsewhere, however the
\* packer was filled, trimmed and flushed before (DataPacker::GetRange, PeekRange).
\* Once the packer is stopped a buffer that found no room is dropped, and the source
\* goes on behind it: what a reader still gets then has a gap.
ServesWhatWasAsked ==
    ~packer.stopped =>
    /\ Len(served) <= wanted[2]
    /\ \A i \in DOMAIN served : served[i] = wanted[1] + i - 1

\* In pull mode the thread that reads is the one that empties the packer: the packer
\* always has room, or PushData would wait for itself.
PullKeepsRoom == mode = "pull" => Len(packer.que) < PackerCapacity

\* "hasDataToRead is ture if there is some data in data packer can be read": a reader is
\* not told the end of the media while there are bytes it has not read.
ReadsToTheEnd == readerStep = "ended" /\ ~sourceFailed => nextRead >= MediaSize

=============================================================================
