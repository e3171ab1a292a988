-------------------------------- MODULE Sources -------------------------------
(***************************************************************************)
(* Where a player's bytes come from: MediaSourceFilter, and the plug-ins   *)
(* for files, file descriptors, streams that the application feeds, data   *)
(* sources that the application implements, and HTTP on small devices.     *)
(*                                                                         *)
(* A medium is a record: what its MediaSource names (type, protocol, form  *)
(* of the name), its length, the part of a descriptor that is meant (from, *)
(* span), and what the world does to it.  Its i-th byte is the number i:   *)
(* a read is where the reader took it for (asked), where its bytes are in  *)
(* the medium (from), and how many they are.  A filter that may seek is    *)
(* pulled by the demuxer's thread, one that may not pushes from its Task.  *)
(* HttpLiteManager (external) has a position and knows what has come.      *)
(***************************************************************************)
EXTENDS Integers, Sequences, SequencesExt, FiniteSetsExt, TLC

CONSTANTS SrcMedia,        \* the media a client may set
          SrcBuilds,       \* what a build registers: lists of [name, protocols], in the order they are found
          SrcReads,        \* sizes that are asked for
          SrcMemory,       \* MEM_SIZE of the pool, DEFAULT_READ_SIZE of a push
          SrcPoolMax,      \* MAX_MEM_CNT
          MaxSrcCalls, MaxSrcReads   \* bounds: the client's calls, reads

ASSUME SrcAssumption ==
    /\ {SrcMemory, SrcPoolMax, MaxSrcCalls, MaxSrcReads} \subseteq Nat /\ SrcMemory > 0 /\ SrcPoolMax > 0
    /\ SrcReads \subseteq Nat \ {0}

VARIABLES
    srcPlugins,  \* the build's plug-ins
    srcMedium,   \* what SetSource was given last
    srcFilter,   \* the filter: protocol, seekable, position, media offset, the two flags of readiness
    srcPlug,     \* the plug-in, what Base knows of it and what it knows of its medium
    srcPhase,    \* what the client has reached
    srcTask,     \* DataReader: whether it runs, and whether it is inside Read
    srcPrep,     \* Prepare between setting isPluginReady_ and testing both flags
    srcTell,     \* OnEvent between setting isAboveWaterline_ and testing both flags
    srcReady,    \* EVENT_READY sent since the last SetSource
    srcHeld,     \* buffers that are downstream
    srcLast,     \* the last read: asked, from, len, answer
    srcCalls, srcCount, srcUsed   \* calls, reads; media the plug-in has served

srcWhat == <<srcPlugins, srcMedium>>
srcReadiness == <<srcPrep, srcTell, srcReady>>
srcBuffers == <<srcHeld, srcLast>>
srcBounds == <<srcCalls, srcCount, srcUsed>>
srcVars == <<srcWhat, srcFilter, srcPlug, srcPhase, srcTask, srcReadiness, srcBuffers, srcBounds>>

Lesser(a, b) == IF a < b THEN a ELSE b

ClearData == [protocol |-> "", seekable |-> "invalid", position |-> 0, media |-> 0, ready |-> FALSE, above |-> FALSE]
NoPlug == [name |-> "none", state |-> "created", open |-> FALSE, size |-> 0, base |-> 0, at |-> 0, place |-> 0,
           seekable |-> "invalid", handle |-> FALSE, needExit |-> FALSE, water |-> 0]
NoRead == [asked |-> 0, from |-> 0, len |-> 0, answer |-> "none"]

Forms == {"path", "file", "host", "fragment", "no path", "empty", "fd", "fd part", "fd text", "url", ""}
SrcTypeOK ==
    /\ srcPlugins \in SrcBuilds /\ srcMedium \in SrcMedia /\ DOMAIN srcFilter = DOMAIN ClearData
    /\ DOMAIN srcPlug = DOMAIN NoPlug
    /\ srcFilter.seekable \in {"invalid", "seekable", "unseekable"} /\ srcMedium.form \in Forms
    /\ {srcFilter.position, srcFilter.media, srcPlug.size, srcPlug.at, srcPlug.place, srcPlug.base} \subseteq Int
    /\ srcPlug.state \in {"created", "initialized", "prepared", "running", "destroyed"}
    /\ srcPhase \in {"idle", "set", "failed", "prepared", "running", "stopping", "stopped"}
    /\ srcTask \in {"stopped", "running", "reading", "crashed"} /\ {srcPrep, srcTell} \subseteq {"no", "testing", "sending"}
    /\ srcReady \in Nat /\ srcHeld \in 0 .. SrcPoolMax /\ DOMAIN srcLast = DOMAIN NoRead
    /\ srcCalls \in 0 .. MaxSrcCalls /\ srcCount \in 0 .. MaxSrcReads /\ srcUsed \in Nat

SeekableIf(b) == IF b THEN "seekable" ELSE "unseekable"
-----------------------------------------------------------------------------
(* Each plug-in takes a medium: what it may answer, and what it is then.    *)

Answer(status, p) == [status |-> status, plug |-> p]

\* A file's name is cut out of the URI; a directory, a socket and what is not there are refused, and the open
\* file is closed before the new one is tried.
FileName(m) == CASE m.form = "empty" -> "invalid" [] m.form \in {"fragment", "no path"} -> "invalid" [] OTHER -> "named"
FileStat(m) == CASE m.is = "absent" -> "not existed" [] m.is \in {"directory", "socket"} -> "unsupported" [] OTHER -> "ok"
ClosesFile(p) == [p EXCEPT !.open = FALSE]
FileOpens(p, m) == [p EXCEPT !.open = TRUE, !.size = m.length, !.at = 0]
FileSets(p, m) ==
    IF FileName(m) # "named" THEN {Answer("invalid", p)}
    ELSE IF FileStat(m) # "ok" THEN {Answer(FileStat(m), ClosesFile(p))}
    ELSE {Answer("unknown", ClosesFile(p)), Answer("ok", FileOpens(p, m))}

\* A descriptor may have a part named: offset and size are cut to the file.  position_ counts from the file's
\* begin, size_ from the part's; place is the descriptor's own, where read() reads.  That the descriptor could
\* not be sent to the part is only logged.
FdPart(m) ==
    LET from == IF m.form = "fd part" THEN Lesser(m.from, m.length) ELSE 0
    IN  [from |-> from, size |-> IF m.form = "fd part" THEN Lesser(m.span, m.length - from) ELSE m.length]
FdGoesTo(p, offset) == [p EXCEPT !.at = offset + p.base, !.place = offset + p.base]
FdSets(p, m) ==
    CASE m.form \notin {"fd", "fd part"} -> {Answer("invalid", p)}
      [] m.is # "file" -> {Answer("invalid", [p EXCEPT !.open = m.is # "closed"])}
      [] OTHER -> LET part == FdPart(m)
                      q == [p EXCEPT !.open = TRUE, !.base = part.from, !.size = part.size, !.seekable = "seekable"]
                  IN  {Answer("ok", FdGoesTo(q, 0)), Answer("ok", [q EXCEPT !.at = part.from, !.place = 0])}

StreamSets(p, m) == {Answer(IF m.is = "null" THEN "invalid" ELSE "ok", [p EXCEPT !.open = m.is # "null", !.at = 0])}

\* A data source whose GetSize fails has size 0 and may be sought; offset_ is what it was.  One that may not be
\* sought keeps its own place.
StdSets(p, m) ==
    IF m.is = "null" THEN {Answer("invalid", [p EXCEPT !.open = FALSE])}
    ELSE {Answer("ok", [p EXCEPT !.open = TRUE, !.size = m.length, !.at = IF m.length = -1 THEN 0 ELSE @,
                               !.seekable = SeekableIf(m.length # -1)])}

\* OpenUri closes and opens again; then data must come within sixty waits, which end at once when OnError was
\* here before.
HttpOpenUri(p) == [p EXCEPT !.open = TRUE, !.at = 0]
HttpWaits(p, m) == IF m.is = "silent" THEN {FALSE} ELSE IF p.needExit THEN BOOLEAN ELSE {TRUE}
HttpSets(p, m) ==
    CASE ~p.handle -> {Answer("unknown", p)}
      [] m.is = "absent" -> {Answer("unknown", [p EXCEPT !.open = FALSE])}
      [] OTHER -> {IF came THEN Answer("ok", [HttpOpenUri(p) EXCEPT !.seekable = SeekableIf(m.length # -1), !.water = 20,
                                                                    !.size = IF m.length = -1 THEN 0 ELSE m.length])
                   ELSE Answer("unknown", [p EXCEPT !.open = FALSE]) : came \in HttpWaits(p, m)}

TakesMedium(p, m) ==
    CASE p.name = "file" -> FileSets(p, m) [] p.name = "fd" -> FdSets(p, m) [] p.name = "stream" -> StreamSets(p, m)
      [] p.name = "std" -> StdSets(p, m) [] p.name = "http" -> HttpSets(p, m)

\* Init, Reset, Deinit and Stop of the plug-ins themselves: what they leave of the medium.  Where a plug-in
\* has no call of its own nothing changes.
PlugInits(p) == IF p.name = "http" THEN [p EXCEPT !.handle = TRUE] ELSE p
CloseUri(p) == [p EXCEPT !.handle = FALSE, !.open = FALSE]
PlugResets(p) ==
    CASE p.name = "file" -> ClosesFile(p)
      [] p.name = "http" -> [CloseUri(p) EXCEPT !.needExit = FALSE]
      [] OTHER -> p
PlugStops(p) == IF p.name = "http" THEN Answer("unknown", [CloseUri(p) EXCEPT !.needExit = FALSE]) ELSE Answer("ok", p)

\* GetSize and GetSeekable.
SizeOf(p) ==
    CASE p.name = "file" -> [known |-> p.open, size |-> p.size]
      [] p.name = "stream" -> [known |-> FALSE, size |-> 0]
      [] OTHER -> [known |-> TRUE, size |-> p.size]

-----------------------------------------------------------------------------
(* Seeking and reading.                                                     *)

FileSeeks(p, offset) ==
    IF ~p.open \/ offset > p.size \/ p.at = offset THEN {Answer("wrong state", p)}
    ELSE {Answer("ok", [p EXCEPT !.at = offset]), Answer("unknown", p)}
FdSeeksTo(p, offset) ==
    IF ~p.open \/ p.seekable # "seekable" THEN {Answer("wrong state", p)}
    ELSE {Answer("ok", FdGoesTo(p, offset)), Answer("unknown", p)}
StdSeeks(p, offset) ==
    CASE p.seekable = "unseekable" -> {Answer("invalid operation", p)}
      [] p.seekable # "unseekable" /\ offset >= p.size -> {Answer("invalid", p)}
      [] OTHER -> {Answer("ok", [p EXCEPT !.at = offset])}
HttpSeeks(p, offset) ==
    IF ~p.handle \/ p.seekable = "unseekable" \/ p.at = offset \/ offset > p.size THEN {Answer("invalid", p)}
    ELSE {Answer("ok", [p EXCEPT !.at = offset]), Answer("unknown", p)}
SeekToPos(p, offset) ==
    CASE p.name = "file" -> FileSeeks(p, offset) [] p.name = "fd" -> FdSeeksTo(p, offset)
      [] p.name = "std" -> StdSeeks(p, offset) [] p.name = "http" -> HttpSeeks(p, offset)
      [] OTHER -> {Answer("unimplemented", p)}

\* What a read gives: how it is answered, from where in the medium, how much, whether it has the flag of EOS.
ReadGives(p, status, len, eos) ==
    [status |-> status, plug |-> [p EXCEPT !.at = @ + len], from |-> p.at - p.base, len |-> len, eos |-> eos]
GivesNothing(p, status) == {ReadGives(p, status, 0, FALSE)}

\* An fread that fails reads nothing.
FileReads(p, m, want) ==
    IF p.at = p.size THEN GivesNothing(p, "end")
    ELSE {ReadGives(p, "ok", Lesser(p.size - p.at, want), FALSE)} \union GivesNothing(p, "ok")

\* A read() that fails (from -1) answers OK like any other: the -1 is too much for UpdateDataSize,
\* so the buffer keeps the length it was to have, position_ goes on, and the descriptor does not.
FdReads(p, m, want) ==
    LET len == Lesser(p.size + p.base - p.at, want)
    IN  {[status |-> "ok", eos |-> FALSE, len |-> len, from |-> p.place - p.base,
          plug |-> [p EXCEPT !.at = @ + len, !.place = @ + len]],
         [status |-> "ok", eos |-> FALSE, len |-> len, from |-> -1, plug |-> [p EXCEPT !.at = @ + len]]}

\* The consumer's next buffer, which comes whole, or none in time.
StreamReads(p, m, want) ==
    GivesNothing(p, "timed out")
        \union {ReadGives(p, "ok", len, p.at + len = m.length) : len \in {n \in SrcReads : p.at + n <= m.length}}
        \union (IF p.at = m.length THEN GivesNothing(p, "ok") ELSE {})

\* The application's ReadAt gives what it has of what is asked, an error, or the end.
StdReads(p, m, want) ==
    LET room == IF p.seekable = "seekable" THEN Lesser(p.size - p.at, Lesser(want, SrcMemory)) ELSE Lesser(want, SrcMemory)
        left == IF m.real > p.at THEN m.real - p.at ELSE 0
    IN  IF p.seekable = "seekable" /\ p.at >= p.size THEN GivesNothing(p, "end")
        ELSE GivesNothing(p, "unknown") \union
             (IF left = 0 THEN GivesNothing(p, "end") ELSE {ReadGives(p, "ok", Lesser(room, left), FALSE)})

\* Two hundred waits for data; a read that got none is a read of nothing.
HttpReads(p, m, want) ==
    LET left == m.real - p.at
    IN  {ReadGives(p, "ok", len, FALSE) : len \in IF left > 0 THEN {0, Lesser(want, left)} ELSE {0}}

ReadOf(p, m, want) ==
    CASE p.name = "file" -> FileReads(p, m, want) [] p.name = "fd" -> FdReads(p, m, want)
      [] p.name = "stream" -> StreamReads(p, m, want) [] p.name = "std" -> StdReads(p, m, want)
      [] p.name = "http" -> HttpReads(p, m, want)

-----------------------------------------------------------------------------
(* The filter finds a plug-in, and gives it the medium.                     *)

SeekableAtFirst(name) ==
    CASE name \in {"file", "fd", "http"} -> "seekable" [] name = "stream" -> "unseekable" [] OTHER -> "invalid"
NewPlug(name) == [NoPlug EXCEPT !.name = name, !.seekable = SeekableAtFirst(name)]

\* A name without "://" is a path, and must be one; a MediaSource of another type names its protocol itself.
GetProtocolByUri(m) == IF m.form \in {"path", "empty"} THEN "file" ELSE m.protocol
ParseProtocol(m) == IF m.type = "uri" THEN GetProtocolByUri(m) ELSE m.type
ProtocolIsParsed(m) == m.form # "empty"

\* Of the protocols the table has, the first registered plug-in that names it; "hls" is not in the table.
KnownProtocols == {"http", "https", "file", "stream", "fd"}
Supporting(protocol) ==
    LET fits == {i \in DOMAIN srcPlugins : protocol \in srcPlugins[i].protocols \intersect KnownProtocols}
    IN  IF fits = {} THEN "none" ELSE srcPlugins[Min(fits)].name

\* PluginIsMade resets and keeps a plug-in of the same name, where Base lets it be reset; Base then does not
\* call Init again.  Any other is made anew.
ResetIsLet(p) == p.state \in {"created", "initialized", "prepared"}
AfterReset(p) == IF p.state = "prepared" THEN [PlugResets(p) EXCEPT !.state = "initialized"] ELSE p
PluginIsMade(name) ==
    IF srcPlug.name = name /\ ResetIsLet(srcPlug) THEN AfterReset(srcPlug) ELSE NewPlug(name)
Initialised(p) == IF p.state = "created" THEN [PlugInits(p) EXCEPT !.state = "initialized"] ELSE p

SrcCalling == srcCalls < MaxSrcCalls /\ srcCalls' = srcCalls + 1
SrcRefuses(m) ==
    /\ \/ ~ProtocolIsParsed(m)
       \/ Supporting(ParseProtocol(m)) = "none"
    /\ srcPhase' = "failed"
    /\ srcFilter' = [ClearData EXCEPT !.protocol = ParseProtocol(m)]
    /\ UNCHANGED <<srcPlug, srcTask, srcUsed>>

\* ActivateMode starts the reader of a source that cannot be sought, before anything is negotiated.
ActivatesMode(p, protocol, agreed) ==
    /\ srcFilter' = [ClearData EXCEPT !.protocol = protocol, !.seekable = p.seekable]
    /\ srcTask' = IF p.seekable = "unseekable" THEN "running" ELSE srcTask
    /\ srcPhase' = IF agreed /\ p.seekable # "invalid" THEN "set" ELSE "failed"

SrcInitPlugin(m) ==
    /\ ProtocolIsParsed(m)
    /\ LET name == Supporting(ParseProtocol(m))
           found == Initialised(PluginIsMade(name))
       IN  /\ name # "none"
           /\ \E a \in TakesMedium(found, m), agreed \in BOOLEAN :
                  /\ srcPlug' = a.plug
                  /\ IF a.status = "ok" THEN ActivatesMode(a.plug, ParseProtocol(m), agreed)
                     ELSE /\ srcPhase' = "failed" /\ UNCHANGED srcTask
                          /\ srcFilter' = [ClearData EXCEPT !.protocol = ParseProtocol(m)]
           /\ srcUsed' = IF PluginIsMade(name).state = "created" THEN 1 ELSE srcUsed + 1

SrcSetSource(m) ==
    /\ SrcCalling /\ srcPhase \in {"idle", "failed", "stopped"} /\ srcTask = "stopped" /\ srcPrep = "no" /\ srcTell = "no"
    /\ srcMedium' = m /\ srcReady' = 0 /\ srcLast' = NoRead
    /\ \/ SrcRefuses(m)
       \/ SrcInitPlugin(m)
    /\ UNCHANGED <<srcPlugins, srcPrep, srcTell, srcHeld, srcCount>>

-----------------------------------------------------------------------------
(* Prepare and the plug-in's event of enough data may meet: each sets its   *)
(* flag and then tests both.                                                *)

SrcPrepare ==
    /\ SrcCalling /\ srcPhase = "set" /\ srcPrep = "no"
    /\ srcPlug' = [srcPlug EXCEPT !.state = "prepared"] /\ srcPhase' = "prepared"
    /\ srcPrep' = IF srcMedium.delays THEN "testing" ELSE "no"
    /\ srcFilter' = [srcFilter EXCEPT !.ready = @ \/ srcMedium.delays]
    /\ srcReady' = IF srcMedium.delays THEN srcReady ELSE srcReady + 1
    /\ UNCHANGED <<srcWhat, srcTask, srcTell, srcBuffers, srcCount, srcUsed>>

\* Tests both, sends EVENT_READY, and clears both: the other one may come between.
Tests == IF srcFilter.ready /\ srcFilter.above THEN "sending" ELSE "no"
Sends ==
    /\ srcReady' = srcReady + 1 /\ srcFilter' = [srcFilter EXCEPT !.ready = FALSE, !.above = FALSE]
SrcPrepareTests ==
    /\ \/ srcPrep = "testing" /\ srcPrep' = Tests /\ UNCHANGED <<srcReady, srcFilter>>
       \/ srcPrep = "sending" /\ srcPrep' = "no" /\ Sends
    /\ UNCHANGED <<srcWhat, srcPlug, srcPhase, srcTask, srcTell, srcBuffers, srcBounds>>

AboveLowWaterline ==
    /\ srcPhase \in {"set", "prepared"} /\ srcMedium.delays /\ srcTell = "no" /\ srcReady = 0
    /\ srcTell' = "testing" /\ srcFilter' = [srcFilter EXCEPT !.above = TRUE]
    /\ UNCHANGED <<srcWhat, srcPlug, srcPhase, srcTask, srcPrep, srcReady, srcBuffers, srcBounds>>
OnEventTests ==
    /\ \/ srcTell = "testing" /\ srcTell' = Tests /\ UNCHANGED <<srcReady, srcFilter>>
       \/ srcTell = "sending" /\ srcTell' = "no" /\ Sends
    /\ UNCHANGED <<srcWhat, srcPlug, srcPhase, srcTask, srcPrep, srcBuffers, srcBounds>>

SrcStart ==
    /\ SrcCalling /\ srcPhase = "prepared" /\ srcPrep = "no"
    /\ srcPhase' = "running" /\ srcPlug' = [srcPlug EXCEPT !.state = "running"]
    /\ UNCHANGED <<srcWhat, srcFilter, srcTask, srcReadiness, srcBuffers, srcCount, srcUsed>>

\* Stop stops the plug-in first, then the thread; a plug-in that answers an error stays what it was for Base.
BaseStops(p) ==
    IF p.state \notin {"running", "prepared"} THEN p
    ELSE LET a == PlugStops(p) IN IF a.status = "ok" THEN [a.plug EXCEPT !.state = "prepared"] ELSE a.plug
SrcStop ==
    /\ SrcCalling /\ srcPhase \in {"set", "failed", "prepared", "running"} /\ srcPrep = "no"
    /\ srcPlug' = BaseStops(srcPlug) /\ srcPhase' = "stopping"
    /\ UNCHANGED <<srcWhat, srcFilter, srcTask, srcReadiness, srcBuffers, srcCount, srcUsed>>
SrcStopThread ==
    /\ srcPhase = "stopping" /\ srcTask \in {"stopped", "running"}
    /\ srcPhase' = "stopped" /\ srcTask' = "stopped"
    /\ srcFilter' = [srcFilter EXCEPT !.media = 0, !.seekable = "invalid", !.protocol = ""]
    /\ UNCHANGED <<srcWhat, srcPlug, srcReadiness, srcBuffers, srcBounds>>

\* An error of the connection: SetSource shall wait no longer, and the filter has no ear for its event.
HttpOnError ==
    /\ srcPlug.name = "http" /\ srcPlug.open /\ ~srcPlug.needExit
    /\ srcPlug' = [srcPlug EXCEPT !.needExit = TRUE]
    /\ UNCHANGED <<srcWhat, srcFilter, srcPhase, srcTask, srcReadiness, srcBuffers, srcBounds>>

-----------------------------------------------------------------------------
(* Reading.                                                                 *)

Lends(name) == name \in {"stream", "std"}
MayRead(want) ==
    /\ srcCount < MaxSrcReads /\ srcCount' = srcCount + 1
    /\ srcPlug.name = "std" => srcHeld < SrcPoolMax

\* PullData cuts the size where the plug-in tells its own, and seeks where it is not already.
PullSize(offset, want) ==
    LET size == SizeOf(srcPlug) IN IF size.known /\ size.size # 0 THEN Lesser(want, size.size - offset) ELSE want
PastTheEnd(offset) == SizeOf(srcPlug).known /\ SizeOf(srcPlug).size # 0 /\ offset >= SizeOf(srcPlug).size
PullSeeks(offset) ==
    IF srcFilter.position = offset THEN {Answer("ok", srcPlug)} ELSE SeekToPos(srcPlug, offset)
SrcPulls(offset, want) ==
    /\ srcPhase \in {"set", "prepared", "running"} /\ srcFilter.seekable = "seekable" /\ MayRead(want)
    /\ IF PastTheEnd(offset)
       THEN /\ srcLast' = [NoRead EXCEPT !.asked = offset, !.answer = "end"] /\ UNCHANGED <<srcPlug, srcFilter, srcHeld>>
       ELSE \E s \in PullSeeks(offset) :
              IF s.status # "ok"
              THEN /\ srcPlug' = s.plug /\ srcLast' = [NoRead EXCEPT !.asked = offset, !.answer = s.status]
                   /\ UNCHANGED <<srcFilter, srcHeld>>
              ELSE \E r \in ReadOf(s.plug, srcMedium, PullSize(offset, want)) :
                      /\ srcPlug' = r.plug
                      /\ srcFilter' = [srcFilter EXCEPT !.position = IF r.status = "ok" THEN offset + r.len ELSE offset]
                      /\ srcLast' = [asked |-> offset, from |-> r.from, len |-> r.len, answer |-> r.status]
                      /\ srcHeld' = IF r.status = "ok" /\ Lends(srcPlug.name) THEN srcHeld + 1 ELSE srcHeld
    /\ UNCHANGED <<srcWhat, srcPhase, srcTask, srcReadiness, srcCalls, srcUsed>>

\* ReadLoop: HTTP's Read looks for its connection, and then waits for the lock that Stop may have.
SrcReadBegins ==
    /\ srcTask = "running" /\ MayRead(SrcMemory) /\ srcTask' = "reading"
    /\ srcPlug.name = "http" => srcPlug.handle
    /\ UNCHANGED <<srcWhat, srcFilter, srcPlug, srcPhase, srcReadiness, srcBuffers, srcCalls, srcUsed>>
IsPushed(r) == r.status = "end" \/ (r.status = "ok" /\ (r.len > 0 \/ r.eos))
SrcReadEnds ==
    /\ srcTask = "reading" /\ (srcPlug.name = "http" => srcPlug.handle)
    /\ \E r \in ReadOf(srcPlug, srcMedium, SrcMemory) :
          /\ srcPlug' = r.plug
          /\ srcTask' = IF r.status = "end" \/ r.eos THEN "stopped" ELSE "running"
          /\ IF IsPushed(r)
             THEN /\ srcLast' = [asked |-> srcFilter.media, from |-> r.from, len |-> r.len,
                                 answer |-> IF r.eos THEN "end" ELSE r.status]
                  /\ srcFilter' = [srcFilter EXCEPT !.media = @ + r.len]
             ELSE UNCHANGED <<srcLast, srcFilter>>
          /\ srcHeld' = IF IsPushed(r) /\ r.status = "ok" /\ Lends(srcPlug.name)
                        THEN Lesser(srcHeld + 1, SrcPoolMax) ELSE srcHeld
    /\ UNCHANGED <<srcWhat, srcPhase, srcReadiness, srcBounds>>
SrcReadCrashes ==
    /\ srcTask = "reading" /\ srcPlug.name = "http" /\ ~srcPlug.handle /\ srcTask' = "crashed"
    /\ UNCHANGED <<srcWhat, srcFilter, srcPlug, srcPhase, srcReadiness, srcBuffers, srcBounds>>

\* A buffer that is done with goes back to the consumer's queue or to the pool.
SrcReleases ==
    /\ srcHeld > 0 /\ srcHeld' = srcHeld - 1
    /\ UNCHANGED <<srcWhat, srcFilter, srcPlug, srcPhase, srcTask, srcReadiness, srcLast, srcBounds>>

SrcInit ==
    /\ srcPlugins \in SrcBuilds /\ srcMedium \in SrcMedia /\ srcFilter = ClearData /\ srcPlug = NoPlug /\ srcPhase = "idle"
    /\ srcTask = "stopped"
    /\ srcPrep = "no" /\ srcTell = "no" /\ srcReady = 0 /\ srcHeld = 0 /\ srcLast = NoRead
    /\ srcCalls = 0 /\ srcCount = 0 /\ srcUsed = 0

SrcNext ==
    \/ \E m \in SrcMedia : SrcSetSource(m)
    \/ SrcPrepare \/ SrcPrepareTests \/ AboveLowWaterline \/ OnEventTests \/ SrcStart \/ SrcStop \/ SrcStopThread
    \/ HttpOnError
    \/ \E offset \in 0 .. 2 * SrcMemory, want \in SrcReads : SrcPulls(offset, want)
    \/ SrcReadBegins \/ SrcReadEnds \/ SrcReadCrashes \/ SrcReleases

SrcSpec == SrcInit /\ [][SrcNext]_srcVars

-----------------------------------------------------------------------------
(* What the sources promise.                                                *)

\* PullData gives the bytes of the offset it was asked for, a push gives those after the last push, and neither
\* gives bytes beyond the part of the medium that was named, whatever was read before.  Not so: not of a
\* descriptor after a read() or the first lseek failed (FdReads), nor of a data source that is the second of
\* its plug-in (ReusedSourceStartsAnew).
ReadInPlace == srcLast.answer = "ok" /\ srcLast.len > 0 => srcLast.from = srcLast.asked
InPart ==
    srcLast.answer = "ok" /\ srcLast.len > 0 /\ srcMedium.form = "fd part" => srcLast.from + srcLast.len <= srcMedium.span

\* The descriptor is where the plug-in takes it to be.
FdIsWhereItReads == srcPlug.name = "fd" => srcPlug.place = srcPlug.at

\* A flag that Prepare or OnEvent has set is not left with the other one set and nobody about to test them
\* (media_source_filter.cpp:131-152, 452-460).
ReadinessIsNotLost == (srcFilter.ready /\ srcFilter.above) => ("no" # srcPrep \/ "no" # srcTell)

\* What is read is what was asked for, whatever seeks failed and whatever a plug-in served before: of a
\* descriptor while it is where the plug-in takes it to be, and of a data source that is its plug-in's first.
SourcesInPlace ==
    /\ ReadInPlace \/ ~FdIsWhereItReads \/ (srcPlug.name = "std" /\ srcUsed > 1)
    /\ InPart
    /\ ReadinessIsNotLost

\* The plug-in for data sources that an application implements starts a second one at its begin; SetSource and
\* Reset leave offset_ (std_stream_source_plugin.cpp:115-126).
ReusedSourceStartsAnew == srcPlug.name = "std" => ReadInPlace

\* One Prepare is one EVENT_READY; Prepare and OnEvent may both find both flags set.
ReadyIsSentOnce == srcReady <= 1

\* Nobody uses the connection after Stop has closed it (http_lite_source_plugin.cpp:257 is tested unlocked).
ConnectionIsThere == srcTask # "crashed"

\* A medium that a plug-in served once it can serve again; HttpSourcePlugin's Reset drops the connection that
\* only Init makes, and Base does not call Init again.
SourceIsTakenAgain == srcPlug.name = "http" /\ srcPlug.state = "initialized" => srcPlug.handle

\* A data source that cannot tell its size is not one that is at its end (std_stream_source_plugin.cpp:120-124
\* takes it for one of size 0).
EndIsReached ==
    srcLast.answer = "end" /\ srcMedium.type = "stream" => srcLast.asked + srcLast.len >= srcMedium.real

=============================================================================
