----------------------------- MODULE BufferMemory -----------------------------
(***************************************************************************)
(* What a buffer's bytes lie in.  An AVBuffer of the inner API has an      *)
(* AVMemory of one of four kinds (virtual, shared, hardware, surface); the *)
(* one that is made here may go through a parcel to another process, more  *)
(* than once, and AVSharedMemoryBase ("basic") goes there by descriptor and*)
(* size.  The plug-ins' Buffer has Memories of its own: plain, over ashmem *)
(* (ShareMemory), and wrapped.                                             *)
(*                                                                         *)
(* The kernel's object (external) counts its descriptors and mappings, and *)
(* knows which of its bytes were ever written.  Addresses are not modelled:*)
(* a memory has a base or not.                                             *)
(***************************************************************************)
EXTENDS Integers, Sequences, FiniteSetsExt, TLC

CONSTANTS BmConfigs,       \* configurations that a client asks for
          BmWrites,        \* sizes that are written and read
          BmPositions,     \* positions at which they are; -1 is INVALID_POSITION
          BmCapacities,    \* capacities of the plug-ins' memories
          BmPage,          \* what a surface buffer has, whatever was asked
          MaxBmSends, MaxBmSteps   \* bounds: parcels, calls that touch bytes

ASSUME BmAssumption ==
    /\ BmWrites \subseteq Nat /\ BmPositions \subseteq Int /\ BmCapacities \subseteq Nat
    /\ {BmPage, MaxBmSends, MaxBmSteps} \subseteq Nat

Sides == {"here", "there"}
Less(a, b) == IF a < b THEN a ELSE b
More(a, b) == IF a < b THEN b ELSE a
InvalidPosition == -1

VARIABLES
    bmObject,    \* the kernel's object: size, descriptors and mappings that are open, bytes written
    bmSide,      \* the AVBuffer of each process
    bmParcel,    \* what is on its way to the other one
    bmBuffer,    \* a plug-in's Buffer: its memories and its kind of meta
    bmConfig,    \* two configurations that a client has
    bmLast,      \* the last call that touched bytes: what it was asked and gave
    bmSends, bmSteps

bmVars == <<bmObject, bmSide, bmParcel, bmBuffer, bmConfig, bmLast, bmSends, bmSteps>>

NoObject == [kind |-> "none", size |-> 0, fds |-> 0, maps |-> 0, written |-> {}, lost |-> 0]
NoAVBuffer == [kind |-> "none", capacity |-> 0, align |-> 0, offset |-> 0, size |-> 0, flag |-> "rw", fd |-> FALSE,
             mapped |-> FALSE, uid |-> 0, pts |-> 0, unknown |-> FALSE]
NothingSent == [kind |-> "none"]
NothingAsked == [call |-> "none", side |-> "here", asked |-> 0, got |-> 0]

Kinds == {"virtual", "shared", "hardware", "surface", "basic"}
BmTypeOK ==
    /\ bmObject.kind \in Kinds \union {"none"} /\ {bmObject.size, bmObject.fds, bmObject.maps} \subseteq Nat
    /\ bmObject.written \subseteq 0 .. 20
    /\ \A s \in Sides : DOMAIN bmSide[s] = DOMAIN NoAVBuffer /\ {bmSide[s].capacity, bmSide[s].size, bmSide[s].offset} \subseteq Int
    /\ DOMAIN bmLast = DOMAIN NothingAsked /\ bmParcel.kind \in Kinds \union {"none"}
    /\ \A i \in DOMAIN bmBuffer.data : {bmBuffer.data[i].capacity, bmBuffer.data[i].size} \subseteq Nat
    /\ bmBuffer.meta \in {"audio", "video"} /\ bmSends \in 0 .. MaxBmSends /\ bmSteps \in 0 .. MaxBmSteps

-----------------------------------------------------------------------------
(* A buffer is made.                                                        *)

\* What is allocated for a capacity and an alignment, of which the capacity is used.
AllocSize(capacity, align) == IF align > 0 THEN capacity + align - 1 ELSE capacity

\* Only kinds that can be shared out have the flag of the configuration.
FlagOf(c) == IF c.type \in {"shared", "hardware"} THEN c.flag ELSE "rw"
ConfigCapacity(c) == More(c.size, c.capacity)

\* A hardware allocator takes a descriptor of its own out of the configuration, whatever becomes of the buffer.
AllocatorTakes(c) == IF c.type = "hardware" THEN 1 ELSE 0
ConfigIsValid(c) == ConfigCapacity(c) >= 0 /\ c.align >= 0 /\ (c.type = "hardware" => c.dma)

\* Where each kind begins: virtual memory is there, a surface and ashmem are mapped when their address is
\* asked for, hardware is mapped at once; a surface has the capacity that its buffer has.
VirtualInit(b) == [b EXCEPT !.mapped = TRUE]
SharedInit(b) == [b EXCEPT !.fd = TRUE]
HardwareInit(b) == [b EXCEPT !.fd = TRUE, !.mapped = TRUE]
SurfaceInit(b) == [b EXCEPT !.capacity = BmPage]
NewAVMemory(c, capacity) ==
    LET b == [NoAVBuffer EXCEPT !.kind = c.type, !.capacity = capacity, !.align = c.align, !.flag = FlagOf(c)]
    IN  CASE c.type = "virtual" -> VirtualInit(b)
          [] c.type = "shared" -> SharedInit(b)
          [] c.type = "hardware" -> HardwareInit(b)
          [] c.type = "surface" -> SurfaceInit(b)
ObjectFor(c, b) ==
    [kind |-> c.type, size |-> IF c.type = "surface" THEN BmPage ELSE AllocSize(ConfigCapacity(c), c.align),
     fds |-> IF b.fd THEN 1 ELSE 0, maps |-> IF b.mapped THEN 1 ELSE 0, written |-> {}, lost |-> 0]

\* Unsuccessful, the allocator's Free gives back what was taken, if it is called at all: it is not when the
\* capacity or the alignment is refused.
AllocFails(c) ==
    /\ bmSide' = bmSide
    /\ bmObject' = IF AllocatorTakes(c) = 1 /\ ~ConfigIsValid(c) /\ c.dma THEN [NoObject EXCEPT !.kind = c.type, !.fds = 1, !.lost = 1] ELSE bmObject

NothingMade == bmObject.kind = "none" /\ bmSide["here"].kind = "none"
CreateAVBuffer(c) ==
    /\ NothingMade
    /\ \/ AllocFails(c)
       \/ /\ ConfigIsValid(c)
          /\ LET b == NewAVMemory(c, ConfigCapacity(c)) IN bmSide' = [bmSide EXCEPT !["here"] = b] /\ bmObject' = ObjectFor(c, b)
    /\ UNCHANGED <<bmParcel, bmBuffer, bmLast, bmSends, bmSteps>>

\* A buffer around memory that the caller has: the size must fit, and nothing is freed.
WrapsPointer(capacity, size) ==
    /\ NothingMade /\ 0 <= size /\ size <= capacity
    /\ bmSide' = [bmSide EXCEPT !["here"] = [NoAVBuffer EXCEPT !.kind = "virtual", !.capacity = capacity, !.size = size, !.mapped = TRUE]]
    /\ bmObject' = [NoObject EXCEPT !.kind = "virtual", !.size = capacity, !.maps = 1, !.written = 0 .. size - 1]
    /\ UNCHANGED <<bmParcel, bmBuffer, bmLast, bmSends, bmSteps>>

\* AVSharedMemoryBase of this process: ashmem, mapped at once.
CreateFromLocal(capacity, flag) ==
    /\ NothingMade /\ capacity > 0
    /\ bmSide' = [bmSide EXCEPT !["here"] = [NoAVBuffer EXCEPT !.kind = "basic", !.capacity = capacity, !.flag = flag,
                                                          !.fd = TRUE, !.mapped = TRUE]]
    /\ bmObject' = [NoObject EXCEPT !.kind = "basic", !.size = capacity, !.fds = 1, !.maps = 1]
    /\ UNCHANGED <<bmParcel, bmBuffer, bmLast, bmSends, bmSteps>>

\* The first use of an identifier draws one; a buffer without memory has none.
GetUniqueId(b) == IF b.kind = "none" THEN 0 ELSE IF b.uid = 0 THEN 1 ELSE b.uid

-----------------------------------------------------------------------------
(* It goes through a parcel.                                                *)

\* The parcel has the buffer's identity and times, then kind and common fields of the memory, then a descriptor
\* of its own.  Virtual memory cannot go, and the caller is told so.
CommonOf(b) == [capacity |-> b.capacity, align |-> b.align, offset |-> b.offset, size |-> b.size]
WriteToMessageParcel ==
    /\ bmSends < MaxBmSends /\ bmSends' = bmSends + 1 /\ bmParcel.kind = "none"
    /\ LET b == bmSide["here"]
       IN  /\ b.kind \in {"shared", "hardware", "surface"}
           /\ bmParcel' = [kind |-> b.kind, uid |-> GetUniqueId(b), pts |-> b.pts, flag |-> b.flag, common |-> CommonOf(b)]
           /\ bmSide' = [bmSide EXCEPT !["here"].uid = GetUniqueId(b)]
    /\ bmObject' = [bmObject EXCEPT !.fds = @ + 1]
    /\ UNCHANGED <<bmBuffer, bmLast, bmSteps>>

\* A basic memory goes as descriptor, size and flags.
SendsDescriptor ==
    /\ bmSends < MaxBmSends /\ bmSends' = bmSends + 1 /\ bmParcel.kind = "none" /\ bmSide["here"].kind = "basic"
    /\ bmParcel' = [kind |-> "basic", uid |-> 0, pts |-> 0, flag |-> bmSide["here"].flag, common |-> CommonOf(bmSide["here"])]
    /\ bmObject' = [bmObject EXCEPT !.fds = @ + 1]
    /\ UNCHANGED <<bmSide, bmBuffer, bmLast, bmSteps>>

ParcelIsDropped ==
    /\ bmParcel.kind # "none" /\ bmParcel' = NothingSent /\ bmObject' = [bmObject EXCEPT !.fds = @ - 1]
    /\ UNCHANGED <<bmSide, bmBuffer, bmLast, bmSends, bmSteps>>

\* ReadCommon refuses what is negative; of the size it asks whether it is negative and above the capacity.
ReadCommon(b, p) == [b EXCEPT !.capacity = p.common.capacity, !.align = p.common.align, !.offset = p.common.offset, !.size = p.common.size]
SkipCommon(b, p) == [b EXCEPT !.offset = p.common.offset, !.size = p.common.size]

\* The other process makes its memory of the first parcel: ashmem dup's the descriptor and maps when asked,
\* hardware maps at once, and a surface takes its capacity from what came.
SharedFromParcel(b) == [b EXCEPT !.fd = TRUE]
HardwareFromParcel(b) == [b EXCEPT !.fd = TRUE, !.mapped = TRUE]
SurfaceFromParcel(b) == [b EXCEPT !.capacity = BmPage]
BasicFromRemote(b) == [b EXCEPT !.fd = TRUE, !.mapped = TRUE, !.size = 0, !.unknown = FALSE]
MemoryFrom(p) ==
    LET b == ReadCommon([NoAVBuffer EXCEPT !.kind = p.kind, !.flag = p.flag, !.uid = p.uid, !.pts = p.pts, !.unknown = TRUE], p)
    IN  CASE p.kind = "shared" -> SharedFromParcel(b)
          [] p.kind = "hardware" -> HardwareFromParcel(b)
          [] p.kind = "surface" -> SurfaceFromParcel(b)
          [] p.kind = "basic" -> BasicFromRemote(b)

\* A bug a change could bring: the descriptor that was read is kept and so is its copy.
TakesWithoutClosing(b) == [bmObject EXCEPT !.fds = @ + (IF b.fd THEN 1 ELSE 0), !.maps = @ + (IF b.mapped THEN 1 ELSE 0)]

\* What was read out of the parcel is closed, and what the memory keeps is a copy.
Takes(b) == [bmObject EXCEPT !.fds = (@ - 1) + (IF b.fd THEN 1 ELSE 0), !.maps = @ + (IF b.mapped THEN 1 ELSE 0)]

ReadsFirstParcel ==
    /\ bmParcel.kind # "none" /\ bmSide["there"].kind = "none" /\ bmParcel' = NothingSent
    /\ \/ LET b == MemoryFrom(bmParcel) IN bmSide' = [bmSide EXCEPT !["there"] = b] /\ bmObject' = Takes(b)
       \/ bmSide' = bmSide /\ bmObject' = [bmObject EXCEPT !.fds = @ - 1]   \* it cannot be mapped, and is undone
    /\ UNCHANGED <<bmBuffer, bmLast, bmSends, bmSteps>>

\* A later parcel of the same buffer brings offset, size and times; that of another one is refused.
ReadsAgain ==
    /\ bmParcel.kind \in {"shared", "hardware", "surface"} /\ bmSide["there"].kind = bmParcel.kind
    /\ bmParcel' = NothingSent
    /\ bmSide' = IF bmSide["there"].uid # bmParcel.uid THEN bmSide
                 ELSE [bmSide EXCEPT !["there"] = [SkipCommon(@, bmParcel) EXCEPT !.pts = bmParcel.pts]]
    /\ bmObject' = [bmObject EXCEPT !.fds = @ - 1]
    /\ UNCHANGED <<bmBuffer, bmLast, bmSends, bmSteps>>

-----------------------------------------------------------------------------
(* Bytes are written and read.                                              *)

\* GetAddr maps ashmem and surfaces at the first call.
Addressed(b) == [b EXCEPT !.mapped = TRUE]
Maps(b) == IF b.mapped THEN 0 ELSE 1
MapFails(s) == /\ ~bmSide[s].mapped /\ bmSide' = bmSide /\ bmObject' = bmObject
MemoryMayBeWritten(b) == b.flag \in {"w", "rw"}
MemoryMayBeRead(b) == b.flag \in {"r", "rw"}

StartOfWrite(m, position) == IF position <= InvalidPosition THEN m.size ELSE Less(position, m.capacity)
LengthOfWrite(m, position, n) == Less(n, m.capacity - StartOfWrite(m, position))
StartOfRead(m, position) == IF position > InvalidPosition THEN Less(position, m.size) ELSE 0
LengthOfRead(m, position, n) == Less(n, m.size - StartOfRead(m, position))

BytesFrom(start, length) == start .. start + length - 1
Touches(s) == /\ bmSide[s].kind # "none" /\ bmSteps < MaxBmSteps /\ bmSteps' = bmSteps + 1
Gave(call, s, n, got) == bmLast' = [call |-> call, side |-> s, asked |-> n, got |-> got]

\* AVMemory::Write asks the flag first; AVSharedMemoryBase::Write does not ask: its maker may write whatever the
\* flag says, and a write by the process that mapped it for reading faults, after which there is nothing to see.
WriteIsLet(b) == b.kind = "basic" \/ MemoryMayBeWritten(b)
WriteFaults(s) == s = "there" /\ bmSide[s].kind = "basic" /\ bmSide[s].flag = "r"
MemoryWrites(s, n, position) ==
    /\ Touches(s) /\ n > 0 /\ ~WriteFaults(s)
    /\ LET b == bmSide[s]
           start == StartOfWrite(b, position)
           length == LengthOfWrite(b, position, n)
       IN  \/ /\ \/ ~WriteIsLet(b) /\ bmSide' = bmSide /\ bmObject' = bmObject
                 \/ WriteIsLet(b) /\ MapFails(s)
              /\ Gave("write", s, n, 0)
           \/ /\ WriteIsLet(b) /\ Gave("write", s, n, length)
              /\ bmSide' = [bmSide EXCEPT ![s] = [Addressed(b) EXCEPT !.size = start + length]]
              /\ bmObject' = [bmObject EXCEPT !.maps = @ + Maps(b), !.written = @ \union BytesFrom(start, length)]
    /\ UNCHANGED <<bmParcel, bmBuffer, bmSends>>

MemoryReads(s, n, position) ==
    /\ Touches(s) /\ n > 0
    /\ LET b == bmSide[s]
           length == LengthOfRead(b, position, n)
       IN  \/ /\ b.kind # "basic" /\ (~MemoryMayBeRead(b) \/ ~b.mapped)
              /\ bmSide' = bmSide /\ bmObject' = bmObject /\ Gave("read", s, n, 0)
           \/ /\ b.kind = "basic" \/ MemoryMayBeRead(b)
              /\ bmSide' = [bmSide EXCEPT ![s] = Addressed(b)] /\ bmObject' = [bmObject EXCEPT !.maps = @ + Maps(b)]
              /\ Gave("read", s, n, IF StartOfRead(b, position) + length <= b.capacity THEN length ELSE 0)
    /\ UNCHANGED <<bmParcel, bmBuffer, bmSends>>

\* SetSize and SetOffset cut to the capacity.
Cut(m, n) == Less(m.capacity, More(0, n))
SetsSize(s, n) ==
    /\ Touches(s) /\ bmSide[s].kind # "basic"
    /\ bmSide' = [bmSide EXCEPT ![s].size = Cut(bmSide[s], n), ![s].pts = 1 - @]
    /\ UNCHANGED <<bmObject, bmParcel, bmBuffer, bmLast, bmSends>>
SetsOffset(s, n) ==
    /\ Touches(s) /\ bmSide[s].kind # "basic"
    /\ bmSide' = [bmSide EXCEPT ![s].offset = Cut(bmSide[s], n)]
    /\ UNCHANGED <<bmObject, bmParcel, bmBuffer, bmLast, bmSends>>

\* Destroyed, each kind unmaps and closes what it has; a buffer around the caller's memory only forgets it.
Unmapped(o, b) == [o EXCEPT !.maps = @ - (IF b.mapped THEN 1 ELSE 0)]
Closed(o, b) == [o EXCEPT !.fds = @ - (IF b.fd THEN 1 ELSE 0)]
VirtualReleases(o, b) == Unmapped(o, b)
SurfaceReleases(o, b) == Unmapped(o, b)
SharedReleases(o, b) == Closed(Unmapped(o, b), b)
HardwareReleases(o, b) == Closed(Unmapped(o, b), b)
BasicReleases(o, b) == Closed(Unmapped(o, b), b)
Releases(o, b) ==
    CASE b.kind = "virtual" -> VirtualReleases(o, b) [] b.kind = "surface" -> SurfaceReleases(o, b)
      [] b.kind = "shared" -> SharedReleases(o, b) [] b.kind = "hardware" -> HardwareReleases(o, b)
      [] b.kind = "basic" -> BasicReleases(o, b)
Destroyed(s) ==
    /\ bmSide[s].kind # "none"
    /\ bmSide' = [bmSide EXCEPT ![s] = NoAVBuffer] /\ bmObject' = Releases(bmObject, bmSide[s])
    /\ UNCHANGED <<bmParcel, bmBuffer, bmLast, bmSends, bmSteps>>

\* GetConfig of a buffer that came without a configuration asks the memory for it, once.
AsksConfig(s) ==
    /\ bmSide[s].kind \notin {"none", "basic"} /\ bmSide[s].unknown /\ bmSide' = [bmSide EXCEPT ![s].unknown = FALSE]
    /\ UNCHANGED <<bmObject, bmParcel, bmBuffer, bmLast, bmSends, bmSteps>>

-----------------------------------------------------------------------------
(* The plug-ins' Buffer: memories one after another, and the meta of its    *)
(* kind.  ashmem takes a write only when all of it fits, padding included.  *)

NewMemory(kind, capacity, align) == [kind |-> kind, capacity |-> capacity, room |-> AllocSize(capacity, align), size |-> 0]
HasRoom == Len(bmBuffer.data) < 2
Memory(kind, capacity, align, size) ==
    bmBuffer' = [bmBuffer EXCEPT !.data = Append(@, [NewMemory(kind, capacity, align) EXCEPT !.size = size])]
OnlyBuffer == UNCHANGED <<bmObject, bmSide, bmParcel, bmSends>>

\* A kind of allocator that the build has no memory for gives no memory.
AllocMemory(kind, capacity, align) ==
    /\ HasRoom /\ (bmBuffer' = bmBuffer \/ Memory(kind, capacity, align, 0))
    /\ OnlyBuffer /\ UNCHANGED <<bmLast, bmSteps>>
CreateDefaultBuffer(type, capacity, align) ==
    /\ bmBuffer.data = <<>> /\ bmBuffer' = [data |-> <<NewMemory("plain", capacity, align)>>, meta |-> type, object |-> type]
    /\ OnlyBuffer /\ UNCHANGED <<bmLast, bmSteps>>
WrapMemory(capacity, size) ==
    /\ HasRoom /\ size <= capacity /\ Memory("wrapped", capacity, 0, size) /\ OnlyBuffer /\ UNCHANGED <<bmLast, bmSteps>>

DataTouched(i) == /\ i \in DOMAIN bmBuffer.data /\ bmSteps < MaxBmSteps /\ bmSteps' = bmSteps + 1 /\ OnlyBuffer
Resized(i, size) == bmBuffer' = [bmBuffer EXCEPT !.data[i].size = size]

PlainWrites(i, n, position) ==
    LET m == bmBuffer.data[i]
        length == LengthOfWrite(m, position, n)
    IN  Resized(i, StartOfWrite(m, position) + length) /\ Gave("data", "here", n, length)
ShareWrites(i, n, position) ==
    LET m == bmBuffer.data[i]
        start == StartOfWrite(m, position)
        length == LengthOfWrite(m, position, n)
    IN  IF start + n > m.room THEN bmBuffer' = bmBuffer /\ Gave("data", "here", n, 0)
        ELSE Resized(i, start + length) /\ Gave("data", "here", n, length)
DataWrites(i, n, position) ==
    /\ DataTouched(i)
    /\ IF bmBuffer.data[i].kind = "share" THEN ShareWrites(i, n, position) ELSE PlainWrites(i, n, position)

PlainReads(i, n, position) == LengthOfRead(bmBuffer.data[i], position, n)
ShareReads(i, n, position) ==
    IF StartOfRead(bmBuffer.data[i], position) + n > bmBuffer.data[i].room THEN 0 ELSE LengthOfRead(bmBuffer.data[i], position, n)
DataReads(i, n, position) ==
    /\ DataTouched(i) /\ bmBuffer' = bmBuffer
    /\ Gave("data", "here", n, IF bmBuffer.data[i].kind = "share" THEN ShareReads(i, n, position) ELSE PlainReads(i, n, position))

\* An address is asked for with the size that will be written, which counts at once; the size may be told later.
GetWritableAddr(i, n, position) ==
    /\ DataTouched(i)
    /\ IF position + n > bmBuffer.data[i].capacity THEN bmBuffer' = bmBuffer ELSE Resized(i, position + n)
    /\ UNCHANGED bmLast
UpdateDataSize(i, n, position) ==
    /\ DataTouched(i) /\ position + n <= bmBuffer.data[i].capacity /\ Resized(i, position + n) /\ UNCHANGED bmLast

\* Reset empties the first memory alone and makes new meta of the kind that the meta says it is.
ResetBuffer ==
    /\ bmBuffer.data # <<>> /\ bmBuffer' = [bmBuffer EXCEPT !.data[1].size = 0, !.object = bmBuffer.meta]
    /\ OnlyBuffer /\ UNCHANGED <<bmLast, bmSteps>>
ChangeBufferMetaType(type) ==
    /\ bmBuffer' = [bmBuffer EXCEPT !.meta = type, !.object = type] /\ OnlyBuffer /\ UNCHANGED <<bmLast, bmSteps>>
\* Update takes the tags and the kind of another meta; the object stays what it was.
UpdateBufferMeta(type) ==
    /\ bmBuffer' = [bmBuffer EXCEPT !.meta = type] /\ OnlyBuffer /\ UNCHANGED <<bmLast, bmSteps>>

-----------------------------------------------------------------------------
(* A configuration has numbers and, behind a pointer of its own, what a     *)
(* surface is asked for.                                                    *)

ConfigsApart == bmObject.kind = "none" /\ bmBuffer.data = <<>> /\ UNCHANGED <<bmObject, bmSide, bmParcel, bmBuffer, bmLast, bmSends, bmSteps>>
NewConfig(value) == [value |-> value, surface |-> value]
NewConfigs == [x |-> NewConfig(1), y |-> NewConfig(2)]
Gone == 0      \* the pointer of one that was moved from

\* A copy, made or assigned, copies what the pointer points at: one that was moved from has nothing there.
CopyConfig(to, from) ==
    /\ to # from /\ bmConfig[from].surface # Gone /\ bmConfig' = [bmConfig EXCEPT ![to] = bmConfig[from]]
AssignConfig(to, from) ==
    /\ to # from /\ Gone \notin {bmConfig[from].surface, bmConfig[to].surface}
    /\ bmConfig' = [bmConfig EXCEPT ![to] = bmConfig[from]]
\* A move takes the pointer and leaves the numbers.
MoveConfig(to, from) ==
    /\ to # from /\ bmConfig' = [bmConfig EXCEPT ![to] = bmConfig[from], ![from].surface = Gone]
\* Through a parcel numbers and what is asked of a surface arrive, in the order they were written.
WrittenConfig(c) == <<c.value, c.surface>>
SendsConfig(to, from) ==
    /\ to # from /\ Gone \notin {bmConfig[from].surface, bmConfig[to].surface}
    /\ LET parcel == WrittenConfig(bmConfig[from])
       IN  bmConfig' = [bmConfig EXCEPT ![to] = [value |-> parcel[1], surface |-> parcel[2]]]

-----------------------------------------------------------------------------
BmInit ==
    /\ bmObject = NoObject /\ bmSide = [s \in Sides |-> NoAVBuffer] /\ bmParcel = NothingSent
    /\ bmBuffer = [data |-> <<>>, meta |-> "audio", object |-> "audio"]
    /\ bmConfig = NewConfigs
    /\ bmLast = NothingAsked /\ bmSends = 0 /\ bmSteps = 0

BmCreates == \/ \E c \in BmConfigs : CreateAVBuffer(c)
             \/ \E c \in BmCapacities, n \in BmWrites : WrapsPointer(c, n)
             \/ \E c \in BmCapacities, f \in {"r", "rw"} : CreateFromLocal(c, f)
BmTravels == WriteToMessageParcel \/ SendsDescriptor \/ ParcelIsDropped \/ ReadsFirstParcel \/ ReadsAgain
BmTouches == \E s \in Sides, n \in BmWrites :
                 \/ \E p \in BmPositions : MemoryWrites(s, n, p) \/ MemoryReads(s, n, p)
                 \/ SetsSize(s, n) \/ SetsOffset(s, n)
BmData ==
    \/ \E k \in {"plain", "share"}, c \in BmCapacities, a \in {0, 4} : AllocMemory(k, c, a)
    \/ \E c \in BmCapacities, n \in BmWrites : WrapMemory(c, n)
    \/ \E t \in {"audio", "video"}, c \in BmCapacities : CreateDefaultBuffer(t, c, 4)
    \/ \E i \in 1 .. 2, n \in BmWrites : \E p \in BmPositions :
           DataWrites(i, n, p) \/ DataReads(i, n, p) \/ (p >= 0 /\ (GetWritableAddr(i, n, p) \/ UpdateDataSize(i, n, p)))
    \/ ResetBuffer \/ \E t \in {"audio", "video"} : ChangeBufferMetaType(t) \/ UpdateBufferMeta(t)

BmSettles == ConfigsApart /\ \E to, from \in {"x", "y"} :
    CopyConfig(to, from) \/ AssignConfig(to, from) \/ MoveConfig(to, from) \/ SendsConfig(to, from)

\* Configurations, a buffer of the inner API and one of the plug-ins have nothing in common: each behaviour follows one.
UnusedConfigs == bmConfig = NewConfigs /\ bmConfig' = bmConfig
BmNext ==
    \/ BmSettles
    \/ bmBuffer.data = <<>> /\ UnusedConfigs /\ (BmCreates \/ BmTravels \/ BmTouches \/ \E s \in Sides : Destroyed(s) \/ AsksConfig(s))
    \/ bmObject.kind = "none" /\ UnusedConfigs /\ BmData

BmSpec == BmInit /\ [][BmNext]_bmVars

-----------------------------------------------------------------------------
Holders(P(_)) == Cardinality({s \in Sides : P(s)})

\* No memory says it has more than its capacity, which the other process knows as the maker does; and what the
\* kernel keeps open and mapped is what the memories of both sides and the parcel on its way hold, however often
\* the buffer travelled, was refused there or given up here: no descriptor and no mapping is left over.  What a
\* configuration asks of a surface is what its other numbers came with.
MemoriesHold ==
    /\ \A s \in Sides : bmSide[s].size <= bmSide[s].capacity /\ bmSide[s].offset <= bmSide[s].capacity
    /\ \A s \in Sides : bmSide[s].kind # "none" => bmSide[s].kind = bmObject.kind /\ bmSide[s].capacity <= bmObject.size
    /\ \A b \in bmObject.written : b < bmObject.size
    /\ bmObject.fds = Holders(LAMBDA s : bmSide[s].fd) + (IF bmParcel.kind = "none" THEN 0 ELSE 1) + bmObject.lost
    /\ bmObject.maps = Holders(LAMBDA s : bmSide[s].mapped)
    /\ \A i \in DOMAIN bmBuffer.data : bmBuffer.data[i].size <= bmBuffer.data[i].capacity
    /\ \A c \in DOMAIN bmConfig : bmConfig[c].surface \in {Gone, bmConfig[c].value}

-----------------------------------------------------------------------------
(* What one would expect and the code does not keep: not in any run.        *)

\* What is below the size was written by someone: SetSize and a write beyond the size leave a gap.
ReadsOnlyWritten == \A s \in Sides : bmSide[s].kind # "none" => 0 .. bmSide[s].size - 1 \subseteq bmObject.written
\* A refused configuration gives back the descriptor that its allocator dup'd.
DescriptorIsGivenBack == bmObject.lost = 0
\* A configuration can be assigned to: one that was moved from cannot.
EveryConfigIsWhole == \A c \in {"x", "y"} : bmConfig[c].surface # Gone
\* Meta says what it is.
MetaIsItsKind == bmBuffer.meta = bmBuffer.object

=============================================================================
