---------------------------- MODULE MetaFormat -----------------------------
(***************************************************************************)
(* Any, the value of any type; Meta, the map from tags to Any, and how it   *)
(* crosses to another process; Format, the map of the public interface, and *)
(* OH_AVFormat, its C face.                                                 *)
(*                                                                         *)
(* Part one (anyVars): Any objects that are made, copied, moved, swapped    *)
(* and reset.  What an Any holds lies in the object itself and needs no     *)
(* care ("trivial": memcpy), lies in the object and has a constructor and a *)
(* destructor ("stack": a shared_ptr) or lies on the heap ("heap": a string *)
(* or a vector).  Slot 0 is the temporary of an operation.                  *)
(*                                                                         *)
(* Part two (formatVars): Format objects over Meta objects, and a caller    *)
(* who holds a Meta and the address of a buffer.                            *)
(***************************************************************************)
EXTENDS Integers, Sequences, SequencesExt, FiniteSets

CONSTANTS AnySlots,    \* Any objects
          AnyValues,   \* values an Any holds
          FormatNames, \* Format objects
          MetaIds,     \* Meta objects there may be
          FormatTags,  \* tags in use, in the order of the map's keys
          MaxFormatCalls, \* calls on Formats
          MaxAllocs    \* allocations of buffers

ASSUME MetaFormatAssumption ==
    /\ AnySlots \subseteq Nat \ {0} /\ IsFiniteSet(AnySlots) /\ 0 \notin AnyValues
    /\ Cardinality(FormatNames) < Cardinality(MetaIds)
    /\ {MaxFormatCalls, MaxAllocs} \subseteq Nat

VARIABLES anyAt,     \* each Any's functionTable_ and storage_
          anyCells,  \* what each heap cell holds; 0: free
          anyRefs,   \* what each shared object holds and how many point to it
          anyMeant   \* the value each Any should have

anyVars == <<anyAt, anyCells, anyRefs, anyMeant>>

VARIABLES fmMetas,   \* each Meta's map_
          fmFormats, \* each Format: its meta_, formatMap_, whether it was moved from
          fmCaller,  \* the Meta the caller holds; the address GetBuffer gave it
          fmSent,    \* what was last sent in a parcel and what was read (history)
          fmMarks    \* calls, allocations, whether AnyCast met a value of another type

formatVars == <<fmMetas, fmFormats, fmCaller, fmSent, fmMarks>>

-----------------------------------------------------------------------------
(* Any: each operator takes the store and gives the store after it.         *)

Storages == {"trivial", "stack", "heap"}
NoAny == [type |-> "none", data |-> 0]
Cells == 0 .. Cardinality(AnySlots)   \* one more than the Any objects: the temporary has one

AnyStore == [at |-> anyAt, cells |-> anyCells, refs |-> anyRefs]

AnyInit ==
    /\ anyAt = [x \in AnySlots \cup {0} |-> NoAny]
    /\ anyCells = [c \in Cells |-> 0] /\ anyRefs = [v \in AnyValues |-> 0]
    /\ anyMeant = [x \in AnySlots |-> NoAny]

HasValue(s, x) == s.at[x].type # "none"

\* The value in an Any: of a heap one, what its cell holds.
Held(s, x) ==
    IF s.at[x].type = "heap" THEN [type |-> "heap", data |-> s.cells[s.at[x].data]] ELSE s.at[x]

FreeCell(s) == CHOOSE c \in Cells : s.cells[c] = 0

\* DoEmplace: the table, and the value in its place.
DoEmplace(s, x, type, v) ==
    CASE type = "trivial" -> [s EXCEPT !.at[x] = [type |-> type, data |-> v]]
      [] type = "stack" -> [s EXCEPT !.at[x] = [type |-> type, data |-> v], !.refs[v] = @ + 1]
      [] type = "heap" -> [s EXCEPT !.at[x] = [type |-> type, data |-> FreeCell(s)], !.cells[FreeCell(s)] = v]

\* FunctionTable::copy: the copy constructor of the value.
CopyStorage(s, x, y) == DoEmplace(s, x, s.at[y].type, Held(s, y).data)

\* A faulty HeapFunctionTable::Move that leaves the source its pointer.
MoveStorageShares(s, x, y) == [s EXCEPT !.at[x] = s.at[y]]

\* FunctionTable::move: the source keeps its table, and an empty value: zeros, a moved-from
\* object that was destroyed, or no pointer (-1).
MoveStorage(s, x, y) ==
    [s EXCEPT !.at[x] = s.at[y], !.at[y].data = IF s.at[y].type = "heap" THEN -1 ELSE 0]

\* FunctionTable::destroy; of a moved-from value it releases nothing.
Destroy(s, x) ==
    CASE s.at[x].type = "heap" /\ s.at[x].data \in Cells -> [s EXCEPT !.cells[s.at[x].data] = 0]
      [] s.at[x].type = "stack" /\ s.at[x].data # 0 -> [s EXCEPT !.refs[s.at[x].data] = @ - 1]
      [] OTHER -> s

AnyReset(s, x) == IF HasValue(s, x) THEN [Destroy(s, x) EXCEPT !.at[x] = NoAny] ELSE s

\* MoveFrom moves and then resets the source, which destroys it once more.
MoveFrom(s, x, y) == IF HasValue(s, y) THEN AnyReset(MoveStorage(s, x, y), y) ELSE s

CopyConstruct(s, x, y) == IF HasValue(s, y) THEN CopyStorage(s, x, y) ELSE s
MoveConstruct(s, x, y) == IF HasValue(s, y) THEN [MoveStorage(s, x, y) EXCEPT !.at[y] = NoAny] ELSE s
MoveAssign(s, x, y) == MoveFrom(AnyReset(s, x), x, y)

\* operator=(const Any&): a copy in a temporary, which is then moved and dies.
CopyAssign(s, x, y) == AnyReset(MoveAssign(CopyConstruct(s, 0, y), x, 0), 0)

AnySwap(s, x, y) == AnyReset(MoveAssign(MoveAssign(MoveConstruct(s, 0, x), x, y), y, 0), 0)

AnyBecomes(s) == anyAt' = s.at /\ anyCells' = s.cells /\ anyRefs' = s.refs

AnyEmplaced(x, type, v) ==
    /\ AnyBecomes(DoEmplace(AnyReset(AnyStore, x), x, type, v))
    /\ anyMeant' = [anyMeant EXCEPT ![x] = [type |-> type, data |-> v]]

AnyResets(x) == AnyBecomes(AnyReset(AnyStore, x)) /\ anyMeant' = [anyMeant EXCEPT ![x] = NoAny]

AnyCopied(x, y) == AnyBecomes(CopyAssign(AnyStore, x, y)) /\ anyMeant' = [anyMeant EXCEPT ![x] = anyMeant[y]]

\* What was moved away is gone, also when an Any is moved to itself.
AnyMoved(x, y) ==
    /\ AnyBecomes(MoveAssign(AnyStore, x, y))
    /\ anyMeant' = [anyMeant EXCEPT ![x] = anyMeant[y], ![y] = NoAny]

AnySwapped(x, y) ==
    /\ AnyBecomes(AnySwap(AnyStore, x, y))
    /\ anyMeant' = [anyMeant EXCEPT ![x] = anyMeant[y], ![y] = anyMeant[x]]

AnyNext ==
    \E x, y \in AnySlots :
        \/ AnyCopied(x, y) \/ AnyMoved(x, y) \/ AnySwapped(x, y) \/ AnyResets(x)
        \/ \E type \in Storages, v \in AnyValues : AnyEmplaced(x, type, v)

AnyTypeOK == \A x \in AnySlots \cup {0} : anyAt[x].type \in Storages \cup {"none"}

\* An Any has the value it was given, whatever way it came there; each heap cell has one
\* Any that frees it, and each shared object is counted once by each Any that has it.
ValuesAreOwnedOnce ==
    /\ \A x \in AnySlots : Held(AnyStore, x) = anyMeant[x]
    /\ anyAt[0] = NoAny
    /\ \A c \in Cells : anyCells[c] # 0 =>
           \E x \in AnySlots : {y \in AnySlots : anyAt[y] = [type |-> "heap", data |-> c]} = {x}
    /\ \A v \in AnyValues :
           anyRefs[v] = Cardinality({x \in AnySlots : anyAt[x] = [type |-> "stack", data |-> v]})

-----------------------------------------------------------------------------
(* Meta: what a value is, and how it crosses in a parcel.                   *)

\* GetDefaultAnyValue: the type that a tag is registered with; a string if it is not.
DefaultType(tag) ==
    CASE tag = "width" -> "int32" [] tag = "duration" -> "int64" [] tag = "range" -> "bool"
      [] tag = "media type" -> "enum32" [] tag = "layout" -> "enum64"
      [] tag = "config" -> "bytes" [] tag = "file size" -> "uint64" [] OTHER -> "string"

BaseTypes == {"bool", "int32", "int64", "string", "bytes"}
NoValue == [type |-> "none", v |-> 0]

\* SetMetaData stores a number as the enumeration or the bool that the tag is for.
Number(tag, type, v) ==
    IF DefaultType(tag) \in {"enum32", "bool"} /\ type = "int32" THEN [type |-> DefaultType(tag), v |-> v]
    ELSE IF DefaultType(tag) = "enum64" /\ type = "int64" THEN [type |-> "enum64", v |-> v]
    ELSE [type |-> type, v |-> v]

\* Any::ToParcel: the type and the value; an enumeration goes as a number without type;
\* of any other type only the word that it has none is written.
InParcel(value) ==
    IF value.type \in BaseTypes THEN <<value.type, value.v>>
    ELSE IF value.type \in {"enum32", "enum64"} THEN <<"invalid", value.v>>
    ELSE <<"invalid">>

\* Meta::ToParcel: its size, and each tag with its value.
TagsOf(meta) == SelectSeq(FormatTags, LAMBDA tag : meta[tag] # NoValue)
ToParcel(meta) ==
    FoldLeft(LAMBDA parcel, tag : parcel \o <<tag>> \o InParcel(meta[tag]), <<>>, TagsOf(meta))

\* Any::FromParcel of a value that begins the parcel: what it has after it, and how much of
\* the parcel it takes.  A value without type is taken for the tag's enumeration; if the tag
\* has none, the default stays and nothing more is read.
OutOfParcel(tag, parcel) ==
    IF Head(parcel) # "invalid" THEN [value |-> [type |-> Head(parcel), v |-> parcel[2]], taken |-> 2]
    ELSE IF DefaultType(tag) \in {"enum32", "enum64"} /\ Len(parcel) > 1
         THEN [value |-> [type |-> DefaultType(tag), v |-> parcel[2]], taken |-> 2]
    ELSE [value |-> [type |-> DefaultType(tag), v |-> 0], taken |-> 1]

\* Meta::FromParcel reads as many entries as were written.
EmptyMeta == [tag \in ToSet(FormatTags) |-> NoValue]
FromParcel(parcel, size) ==
    FoldLeft(LAMBDA got, i :
                 LET tag == Head(got.rest)
                     read == OutOfParcel(tag, Tail(got.rest)) IN
                 IF tag \notin ToSet(FormatTags) THEN got   \* the reader is lost
                 ELSE [meta |-> [got.meta EXCEPT ![tag] = read.value],
                       rest |-> SubSeq(got.rest, read.taken + 2, Len(got.rest)) \o <<"end", "end">>],
             [meta |-> EmptyMeta, rest |-> parcel \o <<"end", "end">>],
             [i \in 1 .. size |-> i]).meta

-----------------------------------------------------------------------------
(* Format and OH_AVFormat.                                                  *)

FormatInit ==
    /\ LET made == CHOOSE m \in [FormatNames -> MetaIds] : \A f, g \in FormatNames : f # g => m[f] # m[g] IN
       fmFormats = [f \in FormatNames |-> [meta |-> made[f], cached |-> {}, moved |-> FALSE]]
    /\ fmMetas = [m \in MetaIds |-> EmptyMeta]
    /\ fmCaller = [meta |-> 0, buffer |-> 0, from |-> 0]
    /\ fmSent = [sent |-> EmptyMeta, got |-> EmptyMeta]
    /\ fmMarks = [calls |-> 0, allocs |-> 0, miscast |-> FALSE]

MetaOf(f) == fmMetas[fmFormats[f].meta]
FormatCalled == fmMarks.calls < MaxFormatCalls
CallCounted == [fmMarks EXCEPT !.calls = @ + 1]

FormatSets(f, tag, value) == fmMetas' = [fmMetas EXCEPT ![fmFormats[f].meta][tag] = value]

\* PutIntValue and PutLongValue; PutFormatVector and the setters of other types are alike.
PutNumber(f, tag, type, v) ==
    /\ FormatCalled /\ fmMarks' = CallCounted
    /\ FormatSets(f, tag, Number(tag, type, v))
    /\ UNCHANGED <<fmFormats, fmCaller, fmSent>>

\* meta_->SetData by whoever holds the Meta: the type is the value's own.
SetData(f, tag) ==
    /\ FormatCalled /\ fmMarks' = CallCounted
    /\ FormatSets(f, tag, [type |-> DefaultType(tag), v |-> 1])
    /\ UNCHANGED <<fmFormats, fmCaller, fmSent>>

RemoveKey(f, tag) ==
    /\ FormatCalled /\ MetaOf(f)[tag] # NoValue /\ fmMarks' = CallCounted
    /\ FormatSets(f, tag, NoValue)
    /\ UNCHANGED <<fmFormats, fmCaller, fmSent>>

\* PutBuffer writes into the vector that is there, which may move it; the address in
\* formatMap_ follows.  A value of another type is left alone.
PutBuffer(f, tag, moves) ==
    LET old == MetaOf(f)[tag]
        at == IF old.type = "bytes" /\ ~moves THEN old.v ELSE fmMarks.allocs + 1 IN
    /\ FormatCalled /\ old.type \in {"none", "bytes"} /\ at <= MaxAllocs
    /\ FormatSets(f, tag, [type |-> "bytes", v |-> at])
    /\ fmFormats' = [fmFormats EXCEPT ![f].cached =
                        IF \E c \in @ : c[1] = tag THEN {c \in @ : c[1] # tag} \cup {<<tag, at>>} ELSE @]
    /\ fmMarks' = [CallCounted EXCEPT !.allocs = IF at > @ THEN at ELSE @]
    /\ UNCHANGED <<fmCaller, fmSent>>

GetBuffer(f, tag) ==
    /\ FormatCalled /\ MetaOf(f)[tag].type = "bytes" /\ fmMarks' = CallCounted
    /\ fmCaller' = [fmCaller EXCEPT !.buffer = MetaOf(f)[tag].v, !.from = fmFormats[f].meta]
    /\ UNCHANGED <<fmMetas, fmFormats, fmSent>>

\* GetValueType takes what is no base type for a number, and Stringify and GetFormatMap
\* then cast it: AnyCast follows a null pointer.
Miscast(meta) == \E tag \in DOMAIN meta : meta[tag].type \notin BaseTypes \cup {"none"} \/ meta[tag].type = "bool"

GetFormatMap(f) ==
    /\ FormatCalled
    /\ fmFormats' = [fmFormats EXCEPT ![f].cached =
                        {<<tag, MetaOf(f)[tag].v>> : tag \in {t \in ToSet(FormatTags) : MetaOf(f)[t].type = "bytes"}}]
    /\ fmMarks' = [CallCounted EXCEPT !.miscast = @ \/ Miscast(MetaOf(f))]
    /\ UNCHANGED <<fmMetas, fmCaller, fmSent>>

\* operator=(const Format&), OH_AVFormat_Copy: the map is copied, its vectors anew.
FormatCopied(f, g) ==
    /\ FormatCalled /\ f # g /\ fmMarks' = CallCounted /\ "bytes" \notin {MetaOf(g)[tag].type : tag \in ToSet(FormatTags)}
    /\ fmMetas' = [fmMetas EXCEPT ![fmFormats[f].meta] = MetaOf(g)]
    /\ UNCHANGED <<fmFormats, fmCaller, fmSent>>

\* operator=(Format&&) takes the Meta and leaves the other its pointer to it.
FormatMoved(f, g) ==
    /\ FormatCalled /\ f # g /\ fmMarks' = CallCounted
    /\ fmFormats' = [fmFormats EXCEPT ![f] = [fmFormats[g] EXCEPT !.cached = fmFormats[f].cached],
                                      ![g].moved = TRUE]
    /\ UNCHANGED <<fmMetas, fmCaller, fmSent>>

FreeMetas == MetaIds \ ({fmFormats[f].meta : f \in FormatNames} \cup {fmCaller.meta})

\* Format(): an object that was moved from ends and another begins.
FormatRenewed(f) ==
    /\ fmFormats[f].moved
    /\ \E m \in FreeMetas : /\ fmFormats' = [fmFormats EXCEPT ![f] = [meta |-> m, cached |-> {}, moved |-> FALSE]]
                            /\ fmMetas' = [fmMetas EXCEPT ![m] = EmptyMeta]
    /\ UNCHANGED <<fmCaller, fmSent, fmMarks>>

\* GetMeta gives the caller the Meta itself; or it makes one of its own.
GetMeta(m) ==
    /\ FormatCalled /\ fmMarks' = CallCounted
    /\ m \in FreeMetas \cup {fmFormats[f].meta : f \in {g \in FormatNames : ~fmFormats[g].moved}}
    /\ fmCaller' = [fmCaller EXCEPT !.meta = m]
    /\ fmMetas' = IF m \in FreeMetas THEN [fmMetas EXCEPT ![m] = EmptyMeta] ELSE fmMetas
    /\ UNCHANGED <<fmFormats, fmSent>>

\* A faulty SetMeta that never copies.
NeverShared(keeps) == FALSE

\* use_count() > 1: another Format, or the caller, has the Meta as well.
SharedMeta(keeps) == keeps \/ \E f \in FormatNames : fmFormats[f].meta = fmCaller.meta

\* SetMeta of the Meta the caller holds, which it gives away or keeps.
SetMeta(f, keeps) ==
    /\ FormatCalled /\ fmCaller.meta # 0 /\ fmMarks' = CallCounted
    /\ IF SharedMeta(keeps)
       THEN fmMetas' = [fmMetas EXCEPT ![fmFormats[f].meta] = fmMetas[fmCaller.meta]] /\ fmFormats' = fmFormats
       ELSE fmFormats' = [fmFormats EXCEPT ![f].meta = fmCaller.meta] /\ fmMetas' = fmMetas
    /\ fmCaller' = IF keeps THEN fmCaller ELSE [fmCaller EXCEPT !.meta = 0]
    /\ fmSent' = fmSent

\* The Meta is written to a parcel, and the other process reads it.
MetaCrosses(f) ==
    /\ fmMarks.calls > 0
    /\ fmSent' = [sent |-> MetaOf(f), got |-> FromParcel(ToParcel(MetaOf(f)), Len(TagsOf(MetaOf(f))))]
    /\ fmSent' # fmSent
    /\ UNCHANGED <<fmMetas, fmFormats, fmCaller, fmMarks>>

FormatNext ==
    \E f \in FormatNames :
        \/ \E tag \in ToSet(FormatTags) :
             \/ \E type \in {"int32", "int64"} : PutNumber(f, tag, type, 1)
             \/ SetData(f, tag) \/ RemoveKey(f, tag) \/ GetBuffer(f, tag)
             \/ \E moves \in BOOLEAN : DefaultType(tag) = "bytes" /\ PutBuffer(f, tag, moves)
        \/ GetFormatMap(f) \/ FormatRenewed(f) \/ MetaCrosses(f)
        \/ \E g \in FormatNames : FormatCopied(f, g) \/ FormatMoved(f, g)
        \/ \E m \in MetaIds : GetMeta(m)
        \/ \E keeps \in BOOLEAN : SetMeta(f, keeps)

FormatTypeOK ==
    /\ \A f \in FormatNames : fmFormats[f].meta \in MetaIds /\ fmFormats[f].moved \in BOOLEAN
    /\ \A m \in MetaIds : DOMAIN fmMetas[m] = ToSet(FormatTags)
    /\ fmCaller.meta \in MetaIds \cup {0}

-----------------------------------------------------------------------------
(* Properties.                                                             *)

\* A value that is of a base type, or the enumeration its tag is registered with, comes
\* out of a parcel as it went in, whatever other values of these kinds go with it.
Transferable(tag, value) ==
    value.type \in BaseTypes \/ (value.type \in {"enum32", "enum64"} /\ value.type = DefaultType(tag))

ParcelKeeps ==
    LET present == ToSet(TagsOf(fmSent.sent)) IN
    (\A tag \in present : Transferable(tag, fmSent.sent[tag])) => fmSent.got = fmSent.sent

\* Two Formats never have one Meta, unless one of them was moved from: a caller that hands
\* over a Meta it got elsewhere does not tie them.
FormatsStayApart ==
    \A f, g \in FormatNames :
        f # g /\ ~fmFormats[f].moved /\ ~fmFormats[g].moved => fmFormats[f].meta # fmFormats[g].meta

FormatsKeepTheirOwn == ParcelKeeps /\ FormatsStayApart

\* The address that GetBuffer gave is good as long as the Format has the buffer, as the C
\* header says: not so, for PutBuffer may move it.
HeldBufferLives ==
    fmCaller.buffer # 0 /\ (\E f \in FormatNames : fmFormats[f].meta = fmCaller.from) =>
        \A tag \in ToSet(FormatTags) :
            fmMetas[fmCaller.from][tag].type = "bytes" => fmMetas[fmCaller.from][tag].v = fmCaller.buffer

\* A Format can be turned into a string: not so with an enumeration or a bool in it.
DumpIsSafe == ~fmMarks.miscast
=============================================================================
