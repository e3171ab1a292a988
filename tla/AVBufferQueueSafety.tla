------------------------ MODULE AVBufferQueueSafety ------------------------
(***************************************************************************)
(* Proofs about AVBufferQueue, for any sets of threads and buffers, any    *)
(* sizes and any number of steps. The types come first; then, every buffer *)
(* is in exactly one place when the consumer's listener is installed       *)
(* before the first push. The lists keep to the states of the buffers      *)
(* without it too; no sleeper misses a buffer and no refused producer its  *)
(* notification; a resize deletes no more than it takes off the size; and  *)
(* the queue implements BufferHandoff, which is its promise.               *)
(***************************************************************************)
EXTENDS AVBufferQueue, TLAPS, FiniteSetTheorems, SequenceTheorems

-----------------------------------------------------------------------------
(* What the operations on the two lists do to the elements of a list.      *)

\* A concatenation that has a name of its own.
LEMMA Concatenated ==
    ASSUME NEW S, NEW a \in Seq(S), NEW b \in Seq(S), NEW c, c = a \o b
    PROVE  /\ c \in Seq(S) /\ Len(c) = Len(a) + Len(b)
           /\ \A j \in 1..(Len(a) + Len(b)) : c[j] = IF j <= Len(a) THEN a[j] ELSE b[j - Len(a)]
  BY ConcatProperties

\* Insertion adds one element, and no duplicate of another.
LEMMA InsertAtElements ==
    ASSUME NEW S, NEW s \in Seq(S), NEW i \in 1..(Len(s) + 1), NEW e \in S
    PROVE  /\ InsertAt(s, i, e) \in Seq(S)
           /\ Elements(InsertAt(s, i, e)) = Elements(s) \cup {e}
           /\ NoDuplicates(s) /\ e \notin Elements(s) => NoDuplicates(InsertAt(s, i, e))
<1> DEFINE left == SubSeq(s, 1, i - 1)
           right == SubSeq(s, i, Len(s))
           r == InsertAt(s, i, e)
<1>1. /\ Len(s) \in Nat /\ i \in Nat /\ DOMAIN s = 1..Len(s)
      /\ \A j \in 1..Len(s) : s[j] \in S
  BY LenProperties
<1>2. /\ left \in Seq(S) /\ Len(left) = i - 1 /\ \A j \in 1..(i - 1) : left[j] = s[j]
      /\ right \in Seq(S) /\ Len(right) = Len(s) - i + 1
      /\ \A j \in 1..(Len(s) - i + 1) : right[j] = s[i + j - 1]
  BY <1>1, SubSeqProperties
<1>3. <<e>> \in Seq(S) /\ Len(<<e>>) = 1 /\ <<e>>[1] = e
  OBVIOUS
<1>4. /\ left \o <<e>> \in Seq(S) /\ Len(left \o <<e>>) = i
      /\ \A j \in 1..i : (left \o <<e>>)[j] = IF j < i THEN s[j] ELSE e
  <2> HIDE DEF left
  <2> QED BY <1>1, <1>2, <1>3, ConcatProperties
<1>5. r = (left \o <<e>>) \o right
  BY DEF InsertAt
<1>6. /\ r \in Seq(S) /\ Len(r) = Len(s) + 1
      /\ \A j \in 1..(Len(s) + 1) : r[j] = IF j < i THEN s[j] ELSE IF j = i THEN e ELSE s[j - 1]
  <2> HIDE DEF r, left, right
  <2>a. PICK begun : begun = left \o <<e>>
    OBVIOUS
  <2>b. begun \in Seq(S) /\ right \in Seq(S) /\ r = begun \o right
    BY <1>2, <1>4, <1>5, <2>a
  <2>d. Len(begun) = i
    BY <1>4, <2>a
  <2>c. /\ r \in Seq(S) /\ Len(r) = Len(begun) + Len(right)
        /\ \A j \in 1..(Len(begun) + Len(right)) :
              r[j] = IF j <= Len(begun) THEN begun[j] ELSE right[j - Len(begun)]
    BY <2>b, Concatenated
  <2>1. /\ r \in Seq(S) /\ Len(r) = i + Len(right)
        /\ \A j \in 1..(i + Len(right)) :
              r[j] = IF j <= i THEN (left \o <<e>>)[j] ELSE right[j - i]
    BY <2>a, <2>c, <2>d, Zenon
  <2>2. ASSUME NEW j \in 1..(Len(s) + 1)
        PROVE  r[j] = IF j < i THEN s[j] ELSE IF j = i THEN e ELSE s[j - 1]
    <3>1. CASE j <= i
      <4>1. j \in 1..i /\ j \in 1..(i + Len(right))
        BY <3>1, <1>1, <1>2
      <4>2. r[j] = (left \o <<e>>)[j]
        BY <3>1, <4>1, <2>1
      <4>3. (left \o <<e>>)[j] = IF j < i THEN s[j] ELSE e
        BY <4>1, <1>4
      <4>4. r[j] = IF j < i THEN s[j] ELSE e
        BY <4>2, <4>3, Zenon
      <4>5. j < i \/ (j = i /\ ~(j < i))
        BY <3>1, <1>1
      <4> QED BY <4>4, <4>5, Zenon
    <3>2. CASE j > i
      <4>1. j - i \in 1..(Len(s) - i + 1) /\ i + (j - i) - 1 = j - 1
        BY <3>2, <1>1
      <4>2. right[j - i] = s[j - 1]
        BY <4>1, <1>2
      <4> QED BY <3>2, <4>2, <2>1, <1>1, <1>2
    <3> QED BY <3>1, <3>2, <1>1
  <2> QED BY <2>1, <2>2, <1>1, <1>2
<1> HIDE DEF r
<1>7. DOMAIN r = 1..(Len(s) + 1)
  BY <1>6, LenProperties
<1>8. Elements(r) = Elements(s) \cup {e}
  <2>1. ASSUME NEW x \in Elements(r) PROVE x \in Elements(s) \cup {e}
    <3>1. PICK j \in 1..(Len(s) + 1) : x = r[j]
      BY <1>7 DEF Elements
    <3>2. CASE j < i
      BY <3>1, <3>2, <1>1, <1>6, SMTT(60) DEF Elements
    <3>3. CASE j = i
      BY <3>1, <3>3, <1>1, <1>6
    <3>4. CASE j > i
      <4>1. x = s[j - 1] /\ j - 1 \in DOMAIN s
        BY <3>1, <3>4, <1>1, <1>6
      <4> QED BY <4>1 DEF Elements
    <3> QED BY <3>2, <3>3, <3>4, <1>1
  <2>2. ASSUME NEW x \in Elements(s) PROVE x \in Elements(r)
    <3>1. PICK j \in 1..Len(s) : x = s[j]
      BY <1>1 DEF Elements
    <3>2. x = r[IF j < i THEN j ELSE j + 1]
      BY <3>1, <1>1, <1>6
    <3> QED BY <3>2, <1>1, <1>7 DEF Elements
  <2>3. e \in Elements(r)
    BY <1>1, <1>6, <1>7 DEF Elements
  <2> QED BY <2>1, <2>2, <2>3
<1>9. ASSUME NoDuplicates(s), e \notin Elements(s) PROVE NoDuplicates(r)
  <2> SUFFICES ASSUME NEW j \in 1..(Len(s) + 1), NEW k \in 1..(Len(s) + 1), r[j] = r[k]
               PROVE  j = k
    BY <1>7 DEF NoDuplicates
  <2>1. \A m \in 1..Len(s) : s[m] # e
    BY <1>1, <1>9 DEF Elements
  <2>2. \A m, n \in 1..Len(s) : s[m] = s[n] => m = n
    BY <1>1, <1>9 DEF NoDuplicates
  <2> QED BY <2>1, <2>2, <1>1, <1>6
<1> QED BY <1>6, <1>8, <1>9 DEF r

\* Removal of a position takes away its element.
LEMMA RemoveAtElements ==
    ASSUME NEW S, NEW s \in Seq(S), NEW i \in DOMAIN s, NoDuplicates(s)
    PROVE  /\ s[i] \in S
           /\ RemoveAt(s, i) \in Seq(S)
           /\ Elements(RemoveAt(s, i)) = Elements(s) \ {s[i]}
           /\ NoDuplicates(RemoveAt(s, i))
<1> DEFINE left == SubSeq(s, 1, i - 1)
           right == SubSeq(s, i + 1, Len(s))
           r == RemoveAt(s, i)
<1>1. /\ Len(s) \in Nat /\ i \in 1..Len(s) /\ DOMAIN s = 1..Len(s)
      /\ \A j \in 1..Len(s) : s[j] \in S
  BY LenProperties
<1>2. /\ left \in Seq(S) /\ Len(left) = i - 1 /\ \A j \in 1..(i - 1) : left[j] = s[j]
      /\ right \in Seq(S) /\ Len(right) = Len(s) - i
      /\ \A j \in 1..(Len(s) - i) : right[j] = s[i + j]
  <2>1. left \in Seq(S) /\ Len(left) = i - 1 /\ \A j \in 1..(i - 1) : left[j] = s[j]
    BY <1>1, SubSeqProperties
  <2>2. right \in Seq(S) /\ Len(right) = Len(s) - i
    BY <1>1, SubSeqProperties
  <2>3. ASSUME NEW j \in 1..(Len(s) - i) PROVE right[j] = s[i + j]
    BY <1>1, SubSeqProperties
  <2> HIDE DEF left, right
  <2> QED BY <2>1, <2>2, <2>3
<1>3. r = left \o right
  BY DEF RemoveAt
<1>4. /\ r \in Seq(S) /\ Len(r) = Len(s) - 1
      /\ \A j \in 1..(Len(s) - 1) : r[j] = IF j < i THEN s[j] ELSE s[j + 1]
  <2> HIDE DEF r, left, right
  <2>1. /\ r \in Seq(S) /\ Len(r) = Len(left) + Len(right)
        /\ \A j \in 1..(Len(left) + Len(right)) :
              r[j] = IF j <= Len(left) THEN left[j] ELSE right[j - Len(left)]
    <3>1. left \in Seq(S) /\ right \in Seq(S) /\ r = left \o right
      BY <1>2, <1>3
    <3> QED BY <3>1, Concatenated
  <2>2. ASSUME NEW j \in 1..(Len(s) - 1)
        PROVE  r[j] = IF j < i THEN s[j] ELSE s[j + 1]
    <3>1. CASE j < i
      BY <3>1, <2>1, <1>1, <1>2, SMTT(60)
    <3>2. CASE j >= i
      <4>1. j - (i - 1) \in 1..(Len(s) - i) /\ i + (j - (i - 1)) = j + 1
        BY <3>2, <1>1
      <4>2. right[j - (i - 1)] = s[j + 1]
        BY <4>1, <1>2
      <4> QED BY <3>2, <4>2, <2>1, <1>1, <1>2, SMTT(60)
    <3> QED BY <3>1, <3>2, <1>1
  <2>3. Len(left) + Len(right) = Len(s) - 1
    BY <1>1, <1>2
  <2> QED BY <2>1, <2>2, <2>3
<1> HIDE DEF r
<1>5. DOMAIN r = 1..(Len(s) - 1)
  BY <1>4, LenProperties
<1>6. \A m, n \in 1..Len(s) : s[m] = s[n] => m = n
  BY <1>1 DEF NoDuplicates
<1>7. Elements(r) = Elements(s) \ {s[i]}
  <2>1. ASSUME NEW x \in Elements(r) PROVE x \in Elements(s) \ {s[i]}
    <3>1. PICK j \in 1..(Len(s) - 1) : x = r[j]
      BY <1>5 DEF Elements
    <3> QED BY <3>1, <1>1, <1>4, <1>6, SMTT(60) DEF Elements
  <2>2. ASSUME NEW x \in Elements(s), x # s[i] PROVE x \in Elements(r)
    <3>1. PICK j \in 1..Len(s) : x = s[j]
      BY <1>1 DEF Elements
    <3>2. j # i
      BY <2>2, <3>1
    <3>3. x = r[IF j < i THEN j ELSE j - 1] /\ (IF j < i THEN j ELSE j - 1) \in DOMAIN r
      BY <3>1, <3>2, <1>1, <1>4, <1>5
    <3> QED BY <3>3 DEF Elements
  <2> QED BY <2>1, <2>2
<1>8. NoDuplicates(r)
  <2> SUFFICES ASSUME NEW j \in 1..(Len(s) - 1), NEW k \in 1..(Len(s) - 1), r[j] = r[k]
               PROVE  j = k
    BY <1>5 DEF NoDuplicates
  <2>1. /\ (IF j < i THEN j ELSE j + 1) \in 1..Len(s)
        /\ (IF k < i THEN k ELSE k + 1) \in 1..Len(s)
    BY <1>1
  <2>2. /\ r[j] = s[IF j < i THEN j ELSE j + 1]
        /\ r[k] = s[IF k < i THEN k ELSE k + 1]
    BY <1>4
  <2>3. (IF j < i THEN j ELSE j + 1) = (IF k < i THEN k ELSE k + 1)
    BY <1>6, <2>1, <2>2, Zenon
  <2> QED BY <1>1, <2>3
<1> QED BY <1>1, <1>4, <1>7, <1>8 DEF r

LEMMA SuffixProperties ==
    ASSUME NEW S, NEW s \in Seq(S), NEW m \in 1..(Len(s) + 1)
    PROVE  /\ SubSeq(s, m, Len(s)) \in Seq(S)
           /\ Len(SubSeq(s, m, Len(s))) = Len(s) - m + 1
           /\ \A j \in 1..(Len(s) - m + 1) : SubSeq(s, m, Len(s))[j] = s[m + j - 1]
<1>1. Len(s) \in Nat /\ m \in Nat /\ \A j \in 1..Len(s) : s[j] \in S
  BY LenProperties
<1> QED BY <1>1, SubSeqProperties

LEMMA RemoveAtType ==
    ASSUME NEW S, NEW s \in Seq(S), NEW i \in 1..Len(s)
    PROVE  RemoveAt(s, i) \in Seq(S)
<1>1. Len(s) \in Nat /\ \A j \in 1..Len(s) : s[j] \in S
  BY LenProperties
<1>2. SubSeq(s, 1, i - 1) \in Seq(S) /\ SubSeq(s, i + 1, Len(s)) \in Seq(S)
  BY <1>1, SubSeqProperties
<1> QED BY <1>2, ConcatProperties DEF RemoveAt

\* Dropping the first n positions takes away their elements.
LEMMA DropElements ==
    ASSUME NEW S, NEW s \in Seq(S), NEW n \in Nat, n <= Len(s), NoDuplicates(s)
    PROVE  /\ SubSeq(s, n + 1, Len(s)) \in Seq(S)
           /\ Elements(SubSeq(s, n + 1, Len(s))) = Elements(s) \ {s[i] : i \in 1..n}
           /\ NoDuplicates(SubSeq(s, n + 1, Len(s)))
<1> DEFINE r == SubSeq(s, n + 1, Len(s))
<1>1. /\ Len(s) \in Nat /\ DOMAIN s = 1..Len(s)
      /\ \A j \in 1..Len(s) : s[j] \in S
  BY LenProperties
<1>2. /\ r \in Seq(S) /\ Len(r) = Len(s) - n
      /\ \A j \in 1..(Len(s) - n) : r[j] = s[n + j]
  <2>1. n + 1 \in 1..(Len(s) + 1)
    BY <1>1
  <2>2. /\ r \in Seq(S) /\ Len(r) = Len(s) - (n + 1) + 1
        /\ \A j \in 1..(Len(s) - (n + 1) + 1) : r[j] = s[(n + 1) + j - 1]
    BY <2>1, SuffixProperties
  <2>3. Len(s) - (n + 1) + 1 = Len(s) - n /\ \A j \in Int : n + j = (n + 1) + j - 1
    BY <1>1
  <2> HIDE DEF r
  <2> QED BY <2>2, <2>3
<1> HIDE DEF r
<1>3. DOMAIN r = 1..(Len(s) - n)
  BY <1>2, LenProperties
<1>4. \A j, k \in 1..Len(s) : s[j] = s[k] => j = k
  BY <1>1 DEF NoDuplicates
<1>5. Elements(r) = Elements(s) \ {s[i] : i \in 1..n}
  <2>1. ASSUME NEW x \in Elements(r) PROVE x \in Elements(s) \ {s[i] : i \in 1..n}
    <3>1. PICK j \in 1..(Len(s) - n) : x = r[j]
      BY <1>3 DEF Elements
    <3>2. x = s[n + j] /\ n + j \in 1..Len(s)
      BY <3>1, <1>1, <1>2
    <3>3. \A i \in 1..n : s[i] # x
      BY <3>2, <1>1, <1>4
    <3> QED BY <3>2, <3>3, <1>1 DEF Elements
  <2>2. ASSUME NEW x \in Elements(s), x \notin {s[i] : i \in 1..n} PROVE x \in Elements(r)
    <3>1. PICK j \in 1..Len(s) : x = s[j]
      BY <1>1 DEF Elements
    <3>2. j > n
      BY <2>2, <3>1, <1>1
    <3>3. x = r[j - n] /\ j - n \in DOMAIN r
      BY <3>1, <3>2, <1>1, <1>2, <1>3
    <3> QED BY <3>3 DEF Elements
  <2> QED BY <2>1, <2>2
<1>6. NoDuplicates(r)
  BY <1>1, <1>2, <1>3, <1>4 DEF NoDuplicates
<1> QED BY <1>2, <1>5, <1>6 DEF r

LEMMA AppendElements ==
    ASSUME NEW S, NEW s \in Seq(S), NEW e \in S
    PROVE  /\ Append(s, e) \in Seq(S)
           /\ Elements(Append(s, e)) = Elements(s) \cup {e}
           /\ NoDuplicates(s) /\ e \notin Elements(s) => NoDuplicates(Append(s, e))
<1> DEFINE r == Append(s, e)
<1>1. Len(s) \in Nat /\ DOMAIN s = 1..Len(s)
  BY LenProperties
<1>2. /\ r \in Seq(S) /\ Len(r) = Len(s) + 1
      /\ \A j \in 1..Len(s) : r[j] = s[j]
      /\ r[Len(s) + 1] = e
  BY AppendProperties
<1> HIDE DEF r
<1>3. DOMAIN r = 1..(Len(s) + 1)
  BY <1>2, LenProperties
<1>4. Elements(r) = Elements(s) \cup {e}
  <2>1. ASSUME NEW x \in Elements(r) PROVE x \in Elements(s) \cup {e}
    BY <1>1, <1>2, <1>3 DEF Elements
  <2>2. Elements(s) \subseteq Elements(r)
    BY <1>1, <1>2, <1>3 DEF Elements
  <2>3. e \in Elements(r)
    BY <1>1, <1>2, <1>3 DEF Elements
  <2> QED BY <2>1, <2>2, <2>3
<1>5. ASSUME NoDuplicates(s), e \notin Elements(s) PROVE NoDuplicates(r)
  <2>1. \A m \in 1..Len(s) : s[m] # e
    BY <1>1, <1>5 DEF Elements
  <2>2. \A m, n \in 1..Len(s) : s[m] = s[n] => m = n
    BY <1>1, <1>5 DEF NoDuplicates
  <2> QED BY <2>1, <2>2, <1>1, <1>2, <1>3 DEF NoDuplicates
<1> QED BY <1>2, <1>4, <1>5 DEF r

LEMMA HeadTailElements ==
    ASSUME NEW S, NEW s \in Seq(S), s # <<>>, NoDuplicates(s)
    PROVE  /\ Head(s) \in S /\ Head(s) \in Elements(s)
           /\ Tail(s) \in Seq(S)
           /\ Elements(Tail(s)) = Elements(s) \ {Head(s)}
           /\ NoDuplicates(Tail(s))
<1>1. Len(s) \in Nat \ {0} /\ DOMAIN s = 1..Len(s)
  BY LenProperties, EmptySeq
<1>2. Head(s) = s[1] /\ Tail(s) = SubSeq(s, 1 + 1, Len(s))
  BY <1>1, TailIsSubSeq
<1>3. {s[i] : i \in 1..1} = {s[1]}
  OBVIOUS
<1>4. 1 <= Len(s) /\ s[1] \in S /\ s[1] \in Elements(s)
  BY <1>1, ElementOfSeq DEF Elements
<1> QED BY <1>2, <1>3, <1>4, DropElements, ZenonT(60)

-----------------------------------------------------------------------------
(* Type correctness.                                                       *)

USE DEF NoId

LEMMA InsertType ==
    ASSUME TypeOK, NEW id \in Ids, InsertFreeBufferInOrder(id)
    PROVE  free' \in Seq(Ids)
  BY InsertAtElements DEF TypeOK, InsertFreeBufferInOrder

LEMMA DropType ==
    ASSUME TypeOK, NEW count \in Nat, DropFromLists(count)
    PROVE  free' \in Seq(Ids) /\ dirty' \in Seq(Ids)
<1>1. /\ Len(free) \in Nat /\ FreeDrop(count) \in Nat /\ FreeDrop(count) <= Len(free)
      /\ Len(dirty) \in Nat /\ DirtyDrop(count) \in Nat /\ DirtyDrop(count) <= Len(dirty)
  BY LenProperties DEF TypeOK, FreeDrop, DirtyDrop, Lesser
<1>2. FreeDrop(count) + 1 \in 1..(Len(free) + 1) /\ DirtyDrop(count) + 1 \in 1..(Len(dirty) + 1)
  BY <1>1
<1> QED BY <1>2, SuffixProperties DEF TypeOK, DropFromLists

LEMMA CacheWithoutType ==
    ASSUME TypeOK, NEW count
    PROVE  CacheWithout(count) \in [Ids -> Element]
  BY ZenonT(60) DEF TypeOK, CacheWithout, Element, NoElement

LEMMA CachedFinite ==
    IsFiniteSet(Cached) /\ GetCachedBufferCount \in Nat
<1>1. Cached \in SUBSET Ids
  BY DEF Cached
<1> QED BY <1>1, IdsAssumption, FS_Subset, FS_CardinalityType DEF GetCachedBufferCount

LEMMA RoomNeededType == TypeOK => RoomNeeded \in Nat
  BY CachedFinite, SizesAssumption DEF TypeOK, RoomNeeded

LEMMA ShrinkCountType ==
    ASSUME TypeOK, NEW t \in Threads, call[t].at = "shrink"
    PROVE  ShrinkCount(t) \in Nat
<1>1. call[t].size \in 1..MaxQueueSize /\ size \in 1..MaxQueueSize
  BY DEF TypeOK, Call
<1> QED BY <1>1, SizesAssumption DEF ShrinkCount

\* What a call of RequestBuffer does once it can be served.
LEMMA ObtainType ==
    ASSUME TypeOK, NEW t \in Threads, NEW need \in Capacities,
           NEW type \in MemTypes \cup {UnknownMemory}, Obtain(t, need, type)
    PROVE  /\ cache' \in [Ids -> Element] /\ held' \in [Threads -> SUBSET Ids]
           /\ free' \in Seq(Ids) /\ dirty' \in Seq(Ids)
<1> USE DEF TypeOK, Element, NoElement, NewElement, CachedStates, Hand, SetState, Fresh
<1>1. NewElement(need, type) \in Element
  OBVIOUS
<1>2. CASE Reuse(t, need, type)
  <2>1. PICK i \in DOMAIN free :
           /\ free' = RemoveAt(free, i)
           /\ \/ LendIdle(t, free[i], need)
              \/ Replace(t, free[i], need, type)
              \/ Lose(free[i], need)
           /\ dirty' = dirty
    BY <1>2 DEF Reuse
  <2>2. i \in 1..Len(free) /\ free[i] \in Ids
    BY LenProperties
  <2>3. free' \in Seq(Ids)
    BY <2>1, <2>2, RemoveAtType
  <2>4. CASE LendIdle(t, free[i], need)
    BY <2>1, <2>2, <2>3, <2>4, ZenonT(60) DEF LendIdle
  <2>5. CASE Replace(t, free[i], need, type)
    <3>1. PICK new \in Fresh :
             /\ cache' = [cache EXCEPT ![free[i]] = NoElement, ![new] = NewElement(need, type)]
             /\ held' = [held EXCEPT ![t] = @ \cup {new}]
      BY <2>5 DEF Replace
    <3>2. NoElement \in Element
      OBVIOUS
    <3> HIDE DEF NewElement, NoElement, Element
    <3> QED BY <3>1, <3>2, <1>1, <2>1, <2>2, <2>3
  <2>6. CASE Lose(free[i], need)
    BY <2>1, <2>2, <2>3, <2>6 DEF Lose
  <2> QED BY <2>1, <2>4, <2>5, <2>6
<1>3. CASE AllocBuffer(t, need, type)
  <2> HIDE DEF NewElement, NoElement, Element
  <2> QED BY <1>1, <1>3 DEF AllocBuffer
<1> QED BY <1>2, <1>3 DEF Obtain

LEMMA RequestTypes ==
    ASSUME TypeOK, NEW t \in Threads, NEW need \in Capacities, NEW type \in MemTypes,
           \/ RequestBuffer(t, need, type)
           \/ RequestBlocks(t, need, type, "enterTimed")
           \/ RequestBlocks(t, need, type, "enterForever")
           \/ RequestRefused(t, type)
    PROVE  TypeOK'
<1>1. CASE RequestBuffer(t, need, type)
  <2>1. Obtain(t, need, type)
    BY <1>1 DEF RequestBuffer
  <2>2. /\ cache' \in [Ids -> Element] /\ held' \in [Threads -> SUBSET Ids]
        /\ free' \in Seq(Ids) /\ dirty' \in Seq(Ids)
    BY <2>1, ObtainType
  <2> QED BY <1>1, <2>2 DEF TypeOK, RequestBuffer, CheckConfig, signalVars
<1>2. ASSUME NEW label \in {"enterTimed", "enterForever"},
             RequestBlocks(t, need, type, label)
      PROVE  TypeOK'
  <2>1. call' \in [Threads -> Call]
    <3>1. /\ call' = [call EXCEPT ![t].at = label, ![t].size = need]
          /\ call[t] \in Call /\ need \in Nat
      BY <1>2, SizesAssumption DEF TypeOK, RequestBlocks
    <3>2. [call[t] EXCEPT !.at = label, !.size = need] \in Call
      BY <3>1 DEF Call, Labels
    <3>3. call' = [call EXCEPT ![t] = [call[t] EXCEPT !.at = label, !.size = need]]
      BY <3>1 DEF TypeOK, Call
    <3> QED BY <3>2, <3>3 DEF TypeOK
  <2> QED BY <1>2, <2>1 DEF TypeOK, RequestBlocks, CheckConfig, signalVars
<1>3. CASE RequestRefused(t, type)
  BY <1>3 DEF TypeOK, RequestRefused, CheckConfig, signalVars
<1> QED BY <1>1, <1>2, <1>3

\* The helpers that change one field.
LEMMA ReturnType ==
    ASSUME TypeOK, NEW t \in Threads, Return(t)
    PROVE  call' \in [Threads -> Call]
<1>1. NoCall \in Call
  BY DEF NoCall, Call, Labels
<1> QED BY <1>1 DEF TypeOK, Return

\* A call that goes on with a buffer.
LEMMA CallWithBuffer ==
    ASSUME NEW c \in Call, NEW id \in Ids,
           NEW label \in {"pushed", "pushedCancel", "notifyConsumer", "attachPush", "attachRelease"}
    PROVE  /\ [c EXCEPT !.at = label, !.id = id] \in Call
           /\ [c EXCEPT !.at = label, !.id = id, !.attaching = TRUE] \in Call
  BY ZenonT(60) DEF Call, Labels

LEMMA GotoType ==
    ASSUME TypeOK, NEW t \in Threads, NEW label \in Labels, Goto(t, label),
           [call[t] EXCEPT !.at = label] \in Call
    PROVE  call' \in [Threads -> Call]
<1>1. call' = [call EXCEPT ![t] = [call[t] EXCEPT !.at = label]]
  BY DEF Goto, TypeOK, Call
<1> QED BY <1>1 DEF TypeOK

LEMMA GotoFreely ==
    ASSUME TypeOK, NEW t \in Threads,
           NEW label \in {"idle", "notifyProducer", "grown"}, Goto(t, label)
    PROVE  call' \in [Threads -> Call]
<1>1. [call[t] EXCEPT !.at = label] \in Call /\ label \in Labels
  BY SMTT(60) DEF TypeOK, Call, Labels
<1> QED BY <1>1, GotoType

LEMMA SetStateType ==
    ASSUME TypeOK, NEW id \in Ids, NEW s \in CachedStates, SetState(id, s)
    PROVE  cache' \in [Ids -> Element]
  BY ZenonT(60) DEF TypeOK, SetState, Element

LEMMA HeldType ==
    ASSUME TypeOK, NEW t \in Threads, NEW id \in Ids, Hand(t, id) \/ GiveUp(t, id)
    PROVE  held' \in [Threads -> SUBSET Ids]
  BY DEF TypeOK, Hand, GiveUp

LEMMA NoElementType == NoElement \in Element
  BY DEF NoElement, Element

LEMMA DeleteMarkedType ==
    ASSUME TypeOK, NEW t \in Threads, NEW id \in Ids, DeleteMarked(t, id)
    PROVE  TypeOK'
<1>1. cache' \in [Ids -> Element]
  BY NoElementType DEF DeleteMarked, TypeOK
<1>2. call' \in [Threads -> Call] /\ held' \in [Threads -> SUBSET Ids]
  BY ReturnType, HeldType DEF DeleteMarked
<1> QED BY <1>1, <1>2 DEF DeleteMarked, TypeOK, signalVars

LEMMA MarkPushedType ==
    ASSUME TypeOK, NEW t \in Threads, NEW id \in Ids, NEW available \in BOOLEAN,
           MarkPushed(t, id, available)
    PROVE  TypeOK'
<1> DEFINE label == IF available THEN "pushed" ELSE "pushedCancel"
<1>1. cache' \in [Ids -> Element]
  BY SetStateType DEF MarkPushed, CachedStates
<1>2. [call[t] EXCEPT !.at = label, !.id = id] \in Call
  BY CallWithBuffer, ZenonT(60) DEF TypeOK
<1>3. call' = [call EXCEPT ![t] = [call[t] EXCEPT !.at = label, !.id = id]]
  BY ZenonT(60) DEF TypeOK, Call, MarkPushed
<1>4. call' \in [Threads -> Call]
  BY <1>2, <1>3 DEF TypeOK
<1> QED BY <1>1, <1>4 DEF MarkPushed, TypeOK, signalVars

LEMMA MakeIdleType ==
    ASSUME TypeOK, NEW t \in Threads, NEW id \in Ids, MakeIdle(t, id)
    PROVE  TypeOK'
<1>1. cache' \in [Ids -> Element]
  BY SetStateType DEF MakeIdle, CachedStates
<1>2. call' \in [Threads -> Call] /\ held' \in [Threads -> SUBSET Ids]
  BY GotoFreely, HeldType DEF MakeIdle
<1>3. free' \in Seq(Ids)
  BY InsertType DEF MakeIdle
<1> QED BY <1>1, <1>2, <1>3 DEF MakeIdle, NotifyAll, TypeOK, signalVars

LEMMA ReturnFilledType ==
    ASSUME TypeOK, NEW t \in Threads, NEW id \in Ids, ReturnFilled(t, id)
    PROVE  TypeOK'
<1>1. cache' \in [Ids -> Element] /\ held' \in [Threads -> SUBSET Ids]
  BY SetStateType, HeldType DEF ReturnFilled, CachedStates
<1>2. [call[t] EXCEPT !.at = "notifyConsumer", !.id = id] \in Call
  BY CallWithBuffer, ZenonT(60) DEF TypeOK
<1>3. call' = [call EXCEPT ![t] = [call[t] EXCEPT !.at = "notifyConsumer", !.id = id]]
  BY ZenonT(60) DEF TypeOK, Call, ReturnFilled
<1>4. call' \in [Threads -> Call]
  BY <1>2, <1>3 DEF TypeOK
<1>5. dirty' \in Seq(Ids)
  BY AppendElements DEF ReturnFilled, TypeOK
<1> QED BY <1>1, <1>4, <1>5 DEF ReturnFilled, TypeOK, signalVars

LEMMA AcquireType ==
    ASSUME TypeOK, NEW t \in Threads, AcquireBuffer(t)
    PROVE  TypeOK'
<1>1. Head(dirty) \in Ids /\ Tail(dirty) \in Seq(Ids)
  BY HeadTailProperties DEF AcquireBuffer, TypeOK
<1>2. cache' \in [Ids -> Element] /\ held' \in [Threads -> SUBSET Ids]
  BY <1>1, SetStateType, HeldType DEF AcquireBuffer, CachedStates
<1>3. signals' \in 0..MaxSignals
  BY SizesAssumption DEF AcquireBuffer, TypeOK
<1> QED BY <1>1, <1>2, <1>3 DEF AcquireBuffer, TypeOK

LEMMA AttachType ==
    ASSUME TypeOK, NEW t \in Threads, NEW id \in Ids, NEW need \in Capacities,
           NEW type \in MemTypes, NEW filled \in BOOLEAN,
           AttachBuffer(t, id, need, type, filled)
    PROVE  TypeOK'
<1> DEFINE label == IF filled THEN "attachPush" ELSE "attachRelease"
           new == [state |-> "ATTACHED", isDeleting |-> FALSE,
                   capacity |-> need, memType |-> type]
<1>1. new \in Element /\ CacheWithout(RoomNeeded) \in [Ids -> Element]
  BY CacheWithoutType DEF Element, CachedStates
<1>2. cache' \in [Ids -> Element]
  <2>1. cache' = [CacheWithout(RoomNeeded) EXCEPT ![id] = new]
    BY DEF AttachBuffer
  <2> HIDE DEF new
  <2> QED BY <1>1, <2>1
<1>3. free' \in Seq(Ids) /\ dirty' \in Seq(Ids)
  BY RoomNeededType, DropType DEF AttachBuffer
<1>4. [call[t] EXCEPT !.at = label, !.id = id, !.attaching = TRUE] \in Call
  BY CallWithBuffer, ZenonT(60) DEF TypeOK
<1>5. call' = [call EXCEPT ![t] = [call[t] EXCEPT !.at = label, !.id = id, !.attaching = TRUE]]
  BY ZenonT(60) DEF TypeOK, Call, AttachBuffer
<1>6. call' \in [Threads -> Call] /\ held' \in [Threads -> SUBSET Ids]
  BY <1>4, <1>5, HeldType DEF TypeOK, AttachBuffer
<1> QED BY <1>2, <1>3, <1>6 DEF AttachBuffer, CheckConfig, TypeOK, signalVars

LEMMA ShrinkType ==
    ASSUME TypeOK, NEW t \in Threads, Shrink(t)
    PROVE  TypeOK'
<1>1. ShrinkCount(t) \in Nat /\ call[t].size \in 1..MaxQueueSize
  BY ShrinkCountType DEF Shrink, TypeOK, Call
<1>2. free' \in Seq(Ids) /\ dirty' \in Seq(Ids) /\ cache' \in [Ids -> Element]
  BY <1>1, DropType, CacheWithoutType DEF Shrink
<1>3. call' \in [Threads -> Call]
  BY ReturnType DEF Shrink
<1> QED BY <1>1, <1>2, <1>3 DEF Shrink, TypeOK, signalVars

LEMMA FailType ==
    ASSUME TypeOK, NEW t \in Threads, Fail(t),
           call[t].at \in {"pushed", "notifyConsumer"}
    PROVE  call' \in [Threads -> Call]
<1>1. [call[t] EXCEPT !.at = "forceDetach"] \in Call /\ "forceDetach" \in Labels
  BY ZenonT(60) DEF TypeOK, Call, Labels
<1> QED BY <1>1, GotoType, ReturnType DEF Fail

\* The steps of a call after its first.
LEMMA ContinueType ==
    ASSUME TypeOK, NEW t \in Threads, Continue(t)
    PROVE  TypeOK'
<1>1. CASE EnterWait(t)
  <2>1. /\ [call[t] EXCEPT !.at = "sleepTimed"] \in Call
           \/ [call[t] EXCEPT !.at = "sleepForever"] \in Call
        /\ call[t].at = "enterTimed" => [call[t] EXCEPT !.at = "sleepTimed"] \in Call
        /\ call[t].at = "enterForever" => [call[t] EXCEPT !.at = "sleepForever"] \in Call
        /\ "sleepTimed" \in Labels /\ "sleepForever" \in Labels
    BY <1>1, ZenonT(60) DEF EnterWait, TypeOK, Call, Labels
  <2>2. call' \in [Threads -> Call]
    BY <1>1, <2>1, GotoType DEF EnterWait
  <2> QED BY <1>1, <2>2 DEF EnterWait, TypeOK, queueVars, signalVars
<1>2. CASE WakeAndObtain(t)
  <2>1. call[t].size \in Capacities /\ memoryType \in MemTypes \cup {UnknownMemory}
    BY <1>2 DEF WakeAndObtain, WaitEnds, TypeOK, Call
  <2>2. /\ cache' \in [Ids -> Element] /\ held' \in [Threads -> SUBSET Ids]
        /\ free' \in Seq(Ids) /\ dirty' \in Seq(Ids)
    BY <1>2, <2>1, ObtainType DEF WakeAndObtain
  <2>3. call' \in [Threads -> Call]
    BY <1>2, ReturnType DEF WakeAndObtain
  <2> QED BY <1>2, <2>2, <2>3 DEF WakeAndObtain, TypeOK, signalVars
<1>3. CASE WakeAndSleep(t)
  BY <1>3 DEF WakeAndSleep, TypeOK, queueVars, signalVars
<1>4. CASE WakeRefused(t)
  BY <1>4, ReturnType DEF WakeRefused, TypeOK, queueVars
<1>5. ASSUME NEW b \in Brokers, OnBufferFilled(t, b) PROVE TypeOK'
  <2>1. call[t].id \in Ids
    BY <1>5 DEF OnBufferFilled, TypeOK, Call
  <2>2. held' \in [Threads -> SUBSET Ids]
    BY <1>5, <2>1 DEF OnBufferFilled, TypeOK
  <2> QED BY <1>5, <2>2, ReturnType DEF OnBufferFilled, TypeOK, queueVars, signalVars
<1>6. CASE PushReturns(t)
  <2>1. call[t].id \in Ids
    BY <1>6 DEF PushReturns, TypeOK, Call
  <2> QED BY <1>6, <2>1, DeleteMarkedType, ReturnFilledType, MakeIdleType
          DEF PushReturns, CancelBuffer
<1>7. CASE ReturnRefused(t)
  BY <1>7, FailType DEF ReturnRefused, TypeOK, queueVars, signalVars
<1>8. CASE NotifyConsumer(t)
  <2>1. signals' \in 0..MaxSignals
    BY <1>8, SizesAssumption DEF NotifyConsumer, TypeOK, Lesser
  <2> QED BY <1>8, <2>1, ReturnType DEF NotifyConsumer, TypeOK, queueVars
<1>9. CASE NoConsumerListener(t)
  <2>1. call[t].id \in Ids
    BY <1>9 DEF NoConsumerListener, TypeOK, Call
  <2> QED BY <1>9, <2>1, FailType, HeldType DEF NoConsumerListener, TypeOK, queueVars, signalVars
<1>10. CASE NotifyProducer(t)
  BY <1>10, ReturnType DEF NotifyProducer, TypeOK, queueVars
<1>11. CASE AttachGoesOn(t)
  <2>1. call[t].id \in Ids
    BY <1>11 DEF AttachGoesOn, TypeOK, Call
  <2> QED BY <1>11, <2>1, DeleteMarkedType, MarkPushedType, MakeIdleType
          DEF AttachGoesOn, Release
<1>12. CASE ForceDetach(t)
  <2>1. cache' \in [Ids -> Element]
    BY <1>12, ZenonT(150) DEF ForceDetach, EraseFromMap, TypeOK, Element
  <2> QED BY <1>12, <2>1, ReturnType DEF ForceDetach, TypeOK, signalVars
<1>13. CASE GrowNotifies(t)
  BY <1>13, ReturnType DEF GrowNotifies, NotifyAll, TypeOK, queueVars, signalVars
<1>14. CASE Shrink(t)
  BY <1>14, ShrinkType
<1> QED BY <1>1, <1>2, <1>3, <1>4, <1>5, <1>6, <1>7, <1>8, <1>9, <1>10, <1>11, <1>12,
           <1>13, <1>14 DEF Continue, Proceed

\* The first steps of the calls.
LEMMA CallsType ==
    ASSUME TypeOK, NEW t \in Threads,
           \/ ProducerCalls(t) \/ ConsumerCalls(t) \/ AttacherCalls(t)
           \/ \E id \in Ids : ReturnBuffer(t, id)
           \/ \E new \in 1..MaxQueueSize : Grow(t, new) \/ DecideShrink(t, new)
    PROVE  TypeOK'
<1>1. CASE ProducerCalls(t)
  <2>1. ASSUME NEW id \in Ids, NEW available \in BOOLEAN, PushBuffer(t, id, available)
        PROVE  TypeOK'
    BY <2>1, DeleteMarkedType, MarkPushedType DEF PushBuffer
  <2>2. ASSUME NEW type \in MemTypes, RequestRefused(t, type) PROVE TypeOK'
    BY <2>2 DEF TypeOK, RequestRefused, CheckConfig, signalVars
  <2> QED BY <1>1, <2>1, <2>2, RequestTypes DEF ProducerCalls
<1>2. CASE ConsumerCalls(t)
  <2>1. CASE AcquireBuffer(t)
    BY <2>1, AcquireType
  <2>2. CASE AcquireRefused(t)
    BY <2>2, SizesAssumption DEF AcquireRefused, TypeOK, queueVars
  <2>4. ASSUME NEW id \in Ids, ReleaseBuffer(t, id) PROVE TypeOK'
    BY <2>4, DeleteMarkedType, MakeIdleType DEF ReleaseBuffer, Release
  <2> QED BY <1>2, <2>1, <2>2, <2>4 DEF ConsumerCalls
<1>3. CASE AttacherCalls(t)
  <2>1. ASSUME NEW id \in Ids, DetachBuffer(t, id) PROVE TypeOK'
    <3>1. cache' \in [Ids -> Element]
      BY <2>1, ZenonT(60) DEF DetachBuffer, EraseFromMap, TypeOK, Element
    <3> QED BY <2>1, <3>1 DEF DetachBuffer, TypeOK, signalVars
  <2> QED BY <1>3, <2>1, AttachType DEF AttacherCalls
<1>4. ASSUME NEW id \in Ids, ReturnBuffer(t, id) PROVE TypeOK'
  BY <1>4, DeleteMarkedType, ReturnFilledType, MakeIdleType DEF ReturnBuffer, CancelBuffer
<1>5. ASSUME NEW new \in 1..MaxQueueSize, Grow(t, new) PROVE TypeOK'
  BY <1>5, GotoFreely DEF Grow, TypeOK, signalVars
<1>6. ASSUME NEW new \in 1..MaxQueueSize, DecideShrink(t, new) PROVE TypeOK'
  <2>1. [call[t] EXCEPT !.at = "shrink", !.size = new] \in Call
    <3>1. new \in Nat /\ call[t] \in Call
      BY SizesAssumption DEF TypeOK
    <3> QED BY <3>1 DEF Call, Labels
  <2>2. call' = [call EXCEPT ![t] = [call[t] EXCEPT !.at = "shrink", !.size = new]]
    BY <1>6 DEF TypeOK, Call, DecideShrink
  <2>3. call' \in [Threads -> Call]
    BY <2>1, <2>2 DEF TypeOK
  <2> QED BY <1>6, <2>3 DEF DecideShrink, TypeOK, queueVars, signalVars
<1> QED BY <1>1, <1>2, <1>3, <1>4, <1>5, <1>6

LEMMA InitType == Init => TypeOK
  BY SizesAssumption, ChoicesAssumption, NoElementType, EmptySeq
     DEF Init, TypeOK, NoCall, Call, Labels

LEMMA NextType ==
    ASSUME TypeOK, [Next]_vars
    PROVE  TypeOK'
<1>1. ASSUME NEW t \in Threads, Continue(t) PROVE TypeOK'
  BY <1>1, ContinueType
<1>2. ASSUME NEW t \in Threads, SpuriousWakeup(t) PROVE TypeOK'
  BY <1>2 DEF SpuriousWakeup, TypeOK, queueVars, signalVars
<1>3. CASE SetConsumerListener
  BY <1>3 DEF SetConsumerListener, TypeOK, queueVars
<1>4. CASE UNCHANGED vars
  BY <1>4 DEF vars, TypeOK, queueVars, signalVars
<1>5. /\ Producers \cup Brokers \subseteq Threads /\ Consumers \subseteq Threads
      /\ Attachers \subseteq Threads /\ Resizers \subseteq Threads
  BY ThreadsAssumption DEF Threads
<1>6. ASSUME NEW t \in Threads,
             \/ ProducerCalls(t) \/ ConsumerCalls(t) \/ AttacherCalls(t)
             \/ \E id \in Ids : ReturnBuffer(t, id)
             \/ \E new \in 1..MaxQueueSize : Grow(t, new) \/ DecideShrink(t, new)
      PROVE  TypeOK'
  BY <1>6, CallsType
<1>7. CASE Next
  BY <1>1, <1>2, <1>3, <1>5, <1>6, <1>7, Zenon DEF Next
<1> QED BY <1>4, <1>7

\* Every variable keeps its type, and with it a call in progress the buffer
\* and the size its next step needs.
THEOREM TypeCorrect == Spec => []TypeOK
  BY InitType, NextType, PTL DEF Spec

-----------------------------------------------------------------------------
(* Safety.                                                                 *)

\* The inductive invariant.  A step of a call between two critical sections
\* relies on the buffer still being in the hands of its thread.
InFlightIsHeld ==
    \A t \in Threads :
        call[t].at \in {"pushed", "pushedCancel", "attachPush", "attachRelease", "forceDetach"}
            => call[t].id \in held[t]

Lists == ListsMatchStates /\ MarkedIsOut

Ownership == ListsMatchStates /\ ExclusiveOwnership /\ NoBufferLost /\ MarkedIsOut

IInv == TypeOK /\ Ownership /\ InFlightIsHeld /\ hasListener

-----------------------------------------------------------------------------
(* What one critical section does to the places of the buffers.            *)

\* The facts about places that most steps need: what is in a list is in
\* nobody's hands, and has the state of its list.
LEMMA Places ==
    ASSUME TypeOK, Ownership
    PROVE  /\ \A t \in Threads : held[t] \subseteq Ids
           /\ \A t \in Threads : \A id \in held[t] :
                 /\ cache[id].state \notin {"RELEASED", "RETURNED"}
                 /\ \A s \in Threads : s # t => id \notin held[s]
           /\ \A id \in Elements(free) : cache[id].state = "RELEASED" /\ ~cache[id].isDeleting
           /\ \A id \in Elements(dirty) : cache[id].state = "RETURNED" /\ ~cache[id].isDeleting
           /\ Elements(free) \subseteq Ids /\ Elements(dirty) \subseteq Ids
  BY DEF TypeOK, Ownership, ListsMatchStates, ExclusiveOwnership, MarkedIsOut

\* A thread changes the element of a buffer it has in its hands, and the
\* buffer stays there.
LEMMA ChangeOwned ==
    ASSUME TypeOK, Ownership, NEW t \in Threads, NEW id \in held[t], NEW e \in Element,
           e.state \notin {"RELEASED", "RETURNED"},
           cache' = [cache EXCEPT ![id] = e], UNCHANGED <<free, dirty, held>>
    PROVE  Ownership'
<1>1. id \in Ids /\ id \notin Elements(free) \cup Elements(dirty)
  BY Places DEF Ownership, ExclusiveOwnership
<1>2. \A other \in Ids : cache'[other] = IF other = id THEN e ELSE cache[other]
  BY DEF TypeOK
<1>3. ListsMatchStates'
  BY <1>1, <1>2, Places DEF Ownership, ListsMatchStates, NoDuplicates, Elements
<1>4. ExclusiveOwnership' /\ MarkedIsOut'
  BY <1>1, <1>2 DEF Ownership, ExclusiveOwnership, MarkedIsOut, Elements
<1>5. NoBufferLost'
  BY <1>1, <1>2 DEF Ownership, NoBufferLost, Cached, Elements
<1> QED BY <1>3, <1>4, <1>5 DEF Ownership

LEMMA DeleteMarkedPlaces ==
    ASSUME TypeOK, Ownership, NEW t \in Threads, NEW id \in held[t], DeleteMarked(t, id)
    PROVE  Ownership'
<1>1. id \in Ids /\ id \notin Elements(free) \cup Elements(dirty)
  BY Places DEF Ownership, ExclusiveOwnership
<1>2. \A other \in Ids : cache'[other] = IF other = id THEN NoElement ELSE cache[other]
  BY DEF TypeOK, DeleteMarked
<1>3. /\ \A s \in Threads : held'[s] = IF s = t THEN held[t] \ {id} ELSE held[s]
      /\ free' = free /\ dirty' = dirty
  BY DEF TypeOK, DeleteMarked, GiveUp
<1>4. NoElement.state = "ABSENT" /\ NoElement.isDeleting = FALSE
  BY DEF NoElement
<1>5. ListsMatchStates'
  BY <1>1, <1>2, <1>3, <1>4, Places DEF Ownership, ListsMatchStates, NoDuplicates, Elements
<1>6. ExclusiveOwnership' /\ MarkedIsOut'
  BY <1>1, <1>2, <1>3, <1>4 DEF Ownership, ExclusiveOwnership, MarkedIsOut, Elements
<1>7. NoBufferLost'
  BY <1>1, <1>2, <1>3, <1>4 DEF Ownership, NoBufferLost, Cached, Elements
<1> QED BY <1>5, <1>6, <1>7 DEF Ownership

LEMMA MarkPushedPlaces ==
    ASSUME TypeOK, Ownership, NEW t \in Threads, NEW id \in held[t], NEW available \in BOOLEAN,
           MarkPushed(t, id, available)
    PROVE  Ownership'
<1> DEFINE e == [cache[id] EXCEPT !.state = "PUSHED"]
<1>1. id \in Ids
  BY Places
<1>2. e \in Element /\ e.state = "PUSHED" /\ cache' = [cache EXCEPT ![id] = e]
  BY <1>1 DEF MarkPushed, SetState, TypeOK, Element, CachedStates
<1> HIDE DEF e
<1> QED BY <1>2, ChangeOwned DEF MarkPushed

\* A buffer in somebody's hands goes to one of the lists.
LEMMA MakeIdlePlaces ==
    ASSUME TypeOK, Ownership, NEW t \in Threads, NEW id \in held[t], MakeIdle(t, id)
    PROVE  Ownership'
<1>1. id \in Ids /\ id \notin Elements(free) \cup Elements(dirty)
  BY Places DEF Ownership, ExclusiveOwnership
<1>2. \A other \in Ids :
         /\ cache'[other].state = IF other = id THEN "RELEASED" ELSE cache[other].state
         /\ cache'[other].isDeleting = cache[other].isDeleting
  BY DEF TypeOK, MakeIdle, SetState, Element
<1>3. /\ \A s \in Threads : held'[s] = IF s = t THEN held[t] \ {id} ELSE held[s]
      /\ dirty' = dirty /\ ~cache[id].isDeleting
  BY DEF TypeOK, MakeIdle, GiveUp
<1>4. Elements(free)' = Elements(free) \cup {id} /\ NoDuplicates(free)'
  BY <1>1, InsertAtElements DEF MakeIdle, InsertFreeBufferInOrder, TypeOK, Ownership, ListsMatchStates
<1>5. ListsMatchStates'
  BY <1>1, <1>2, <1>3, <1>4, Places DEF Ownership, ListsMatchStates, NoDuplicates
<1>6. ExclusiveOwnership' /\ MarkedIsOut'
  BY <1>1, <1>2, <1>3, <1>4, Places DEF Ownership, ExclusiveOwnership, MarkedIsOut
<1>7. NoBufferLost'
  BY <1>1, <1>2, <1>3, <1>4 DEF Ownership, NoBufferLost, Cached
<1> QED BY <1>5, <1>6, <1>7 DEF Ownership

LEMMA ReturnFilledPlaces ==
    ASSUME TypeOK, Ownership, NEW t \in Threads, NEW id \in held[t], ReturnFilled(t, id)
    PROVE  Ownership'
<1>1. id \in Ids /\ id \notin Elements(free) \cup Elements(dirty)
  BY Places DEF Ownership, ExclusiveOwnership
<1>2. \A other \in Ids :
         /\ cache'[other].state = IF other = id THEN "RETURNED" ELSE cache[other].state
         /\ cache'[other].isDeleting = cache[other].isDeleting
  BY DEF TypeOK, ReturnFilled, SetState, Element
<1>3. /\ \A s \in Threads : held'[s] = IF s = t THEN held[t] \ {id} ELSE held[s]
      /\ free' = free /\ ~cache[id].isDeleting
  BY DEF TypeOK, ReturnFilled, GiveUp
<1>4. Elements(dirty)' = Elements(dirty) \cup {id} /\ NoDuplicates(dirty)'
  BY <1>1, AppendElements DEF ReturnFilled, TypeOK, Ownership, ListsMatchStates
<1>5. ListsMatchStates'
  BY <1>1, <1>2, <1>3, <1>4, Places DEF Ownership, ListsMatchStates, NoDuplicates
<1>6. ExclusiveOwnership' /\ MarkedIsOut'
  BY <1>1, <1>2, <1>3, <1>4, Places DEF Ownership, ExclusiveOwnership, MarkedIsOut
<1>7. NoBufferLost'
  BY <1>1, <1>2, <1>3, <1>4 DEF Ownership, NoBufferLost, Cached
<1> QED BY <1>5, <1>6, <1>7 DEF Ownership

LEMMA AcquirePlaces ==
    ASSUME TypeOK, Ownership, NEW t \in Threads, AcquireBuffer(t)
    PROVE  Ownership'
<1> DEFINE id == Head(dirty)
<1>1. /\ id \in Ids /\ id \in Elements(dirty)
      /\ Elements(dirty)' = Elements(dirty) \ {id} /\ NoDuplicates(dirty)'
  BY HeadTailElements DEF AcquireBuffer, TypeOK, Ownership, ListsMatchStates
<1>2. cache[id].state = "RETURNED" /\ ~cache[id].isDeleting /\ \A s \in Threads : id \notin held[s]
  BY <1>1, Places
<1>3. \A other \in Ids :
         /\ cache'[other].state = IF other = id THEN "ACQUIRED" ELSE cache[other].state
         /\ cache'[other].isDeleting = cache[other].isDeleting
  BY <1>1 DEF TypeOK, AcquireBuffer, SetState, Element
<1>4. /\ \A s \in Threads : held'[s] = IF s = t THEN held[t] \cup {id} ELSE held[s]
      /\ free' = free /\ Elements(free)' = Elements(free)
  BY DEF TypeOK, AcquireBuffer, Hand, Elements
<1> HIDE DEF id
<1>5. ListsMatchStates'
  BY <1>1, <1>2, <1>3, <1>4, Places DEF Ownership, ListsMatchStates, NoDuplicates
<1>6. ExclusiveOwnership' /\ MarkedIsOut'
  BY <1>1, <1>2, <1>3, <1>4, Places DEF Ownership, ExclusiveOwnership, MarkedIsOut
<1>7. NoBufferLost'
  BY <1>1, <1>2, <1>3, <1>4 DEF Ownership, NoBufferLost, Cached
<1> QED BY <1>5, <1>6, <1>7 DEF Ownership

\* A new buffer enters the cache and the hands of a thread.
LEMMA NewPlaces ==
    ASSUME TypeOK, Ownership, NEW t \in Threads, NEW new \in Ids, NEW e \in Element,
           cache[new].state = "ABSENT", \A s \in Threads : s # t => new \notin held[s],
           e.state \notin {"ABSENT", "RELEASED", "RETURNED"},
           cache' = [cache EXCEPT ![new] = e], Hand(t, new), UNCHANGED <<free, dirty>>
    PROVE  Ownership'
<1>1. new \notin Elements(free) \cup Elements(dirty)
  BY Places
<1>2. \A other \in Ids : cache'[other] = IF other = new THEN e ELSE cache[other]
  BY DEF TypeOK
<1>3. /\ \A s \in Threads : held'[s] = IF s = t THEN held[t] \cup {new} ELSE held[s]
      /\ free' = free /\ dirty' = dirty
  BY DEF TypeOK, Hand
<1>4. ListsMatchStates'
  BY <1>1, <1>2, <1>3, Places DEF Ownership, ListsMatchStates, NoDuplicates, Elements
<1>5. ExclusiveOwnership' /\ MarkedIsOut'
  BY <1>1, <1>2, <1>3, Places DEF Ownership, ExclusiveOwnership, MarkedIsOut, Elements
<1>6. NoBufferLost'
  BY <1>1, <1>2, <1>3 DEF Ownership, NoBufferLost, Cached, Elements
<1> QED BY <1>4, <1>5, <1>6 DEF Ownership

\* An idle buffer is lent, replaced or lost.
LEMMA ReusePlaces ==
    ASSUME TypeOK, Ownership, NEW t \in Threads, NEW need \in Capacities,
           NEW type \in MemTypes \cup {UnknownMemory}, Reuse(t, need, type)
    PROVE  Ownership'
<1>1. PICK i \in DOMAIN free :
         /\ free' = RemoveAt(free, i)
         /\ LendIdle(t, free[i], need) \/ Replace(t, free[i], need, type) \/ Lose(free[i], need)
         /\ dirty' = dirty
  BY DEF Reuse
<1> DEFINE id == free[i]
<1>2. /\ id \in Ids /\ id \in Elements(free)
      /\ Elements(free)' = Elements(free) \ {id} /\ NoDuplicates(free)'
      /\ Elements(dirty)' = Elements(dirty) /\ NoDuplicates(dirty)'
  <2>1. id \in Elements(free)
    BY DEF Elements
  <2>2. /\ id \in Ids /\ Elements(free)' = Elements(free) \ {id} /\ NoDuplicates(free)'
    BY <1>1, RemoveAtElements DEF TypeOK, Ownership, ListsMatchStates
  <2>3. Elements(dirty)' = Elements(dirty) /\ NoDuplicates(dirty)'
    BY <1>1 DEF Elements, NoDuplicates, Ownership, ListsMatchStates
  <2> QED BY <2>1, <2>2, <2>3
<1>3. cache[id].state = "RELEASED" /\ ~cache[id].isDeleting /\ \A s \in Threads : id \notin held[s]
  BY <1>2, Places
<1>4. CASE LendIdle(t, id, need)
  <2>1. \A other \in Ids :
           /\ cache'[other].state = IF other = id THEN "REQUESTED" ELSE cache[other].state
           /\ cache'[other].isDeleting = cache[other].isDeleting
    BY <1>2, <1>4 DEF TypeOK, LendIdle, SetState, Element
  <2>2. \A s \in Threads : held'[s] = IF s = t THEN held[t] \cup {id} ELSE held[s]
    BY <1>4 DEF TypeOK, LendIdle, Hand
  <2> HIDE DEF id
  <2>3. ListsMatchStates'
    BY <1>1, <1>2, <1>3, <2>1, <2>2 DEF Ownership, ListsMatchStates
  <2>4. ExclusiveOwnership' /\ MarkedIsOut'
    BY <1>1, <1>2, <1>3, <2>1, <2>2, Places DEF Ownership, ExclusiveOwnership, MarkedIsOut
  <2>5. NoBufferLost'
    BY <1>1, <1>2, <1>3, <2>1, <2>2 DEF Ownership, NoBufferLost, Cached
  <2> QED BY <2>3, <2>4, <2>5 DEF Ownership
<1>5. CASE Replace(t, id, need, type)
  <2>1. PICK new \in Fresh :
           /\ cache' = [cache EXCEPT ![id] = NoElement, ![new] = NewElement(need, type)]
           /\ Hand(t, new)
    BY <1>5 DEF Replace
  <2>2. /\ new \in Ids /\ new # id /\ cache[new].state = "ABSENT"
        /\ \A s \in Threads : new \notin held[s]
    BY <1>3, <2>1 DEF Fresh
  <2>3. \A other \in Ids :
           /\ cache'[other].state = IF other = new THEN "REQUESTED"
                                    ELSE IF other = id THEN "ABSENT" ELSE cache[other].state
           /\ cache'[other].isDeleting =
                  IF other \in {new, id} THEN FALSE ELSE cache[other].isDeleting
    BY <1>2, <2>1, <2>2 DEF TypeOK, NoElement, NewElement
  <2>4. \A s \in Threads : held'[s] = IF s = t THEN held[t] \cup {new} ELSE held[s]
    BY <2>1 DEF TypeOK, Hand
  <2>5. new \notin Elements(free) \cup Elements(dirty)
    BY <2>2, Places
  <2> HIDE DEF id
  <2>6. ListsMatchStates'
    BY <1>1, <1>2, <1>3, <2>2, <2>3, <2>4, <2>5, ZenonT(150)
       DEF Ownership, ListsMatchStates
  <2>7. ExclusiveOwnership' /\ MarkedIsOut'
    <3>1. ExclusiveOwnership'
      BY <1>2, <1>3, <2>2, <2>4, <2>5 DEF Ownership, ExclusiveOwnership
    <3>2. MarkedIsOut'
      BY <1>2, <2>3, <2>5 DEF Ownership, MarkedIsOut
    <3> QED BY <3>1, <3>2
  <2>8. NoBufferLost'
    BY <1>1, <1>2, <1>3, <2>2, <2>3, <2>4, ZenonT(60) DEF Ownership, NoBufferLost, Cached
  <2> QED BY <2>6, <2>7, <2>8 DEF Ownership
<1>6. CASE Lose(id, need)
  <2>1. \A other \in Ids :
           /\ cache'[other].state = IF other = id THEN "ABSENT" ELSE cache[other].state
           /\ cache'[other].isDeleting = IF other = id THEN FALSE ELSE cache[other].isDeleting
    BY <1>2, <1>6 DEF TypeOK, Lose, NoElement
  <2>2. held' = held
    BY <1>6 DEF Lose
  <2> HIDE DEF id
  <2>3. ListsMatchStates'
    BY <1>1, <1>2, <1>3, <2>1, <2>2, ZenonT(60) DEF Ownership, ListsMatchStates
  <2>4. ExclusiveOwnership' /\ MarkedIsOut'
    BY <1>1, <1>2, <1>3, <2>1, <2>2 DEF Ownership, ExclusiveOwnership, MarkedIsOut
  <2>5. NoBufferLost'
    BY <1>1, <1>2, <1>3, <2>1, <2>2 DEF Ownership, NoBufferLost, Cached
  <2> QED BY <2>3, <2>4, <2>5 DEF Ownership
<1> QED BY <1>1, <1>4, <1>5, <1>6

LEMMA UnchangedPlaces ==
    ASSUME TypeOK, Ownership, UNCHANGED <<cache, free, dirty, held>>
    PROVE  Ownership'
  BY DEF Ownership, ListsMatchStates, ExclusiveOwnership, NoBufferLost, MarkedIsOut,
         Cached, Elements, NoDuplicates

LEMMA ObtainPlaces ==
    ASSUME TypeOK, Ownership, NEW t \in Threads, NEW need \in Capacities,
           NEW type \in MemTypes \cup {UnknownMemory}, Obtain(t, need, type)
    PROVE  Ownership'
<1>1. CASE Reuse(t, need, type)
  BY <1>1, ReusePlaces
<1>2. CASE AllocBuffer(t, need, type)
  <2>1. CASE UNCHANGED <<cache, held>>
    BY <1>2, <2>1, UnchangedPlaces DEF AllocBuffer
  <2>2. ASSUME NEW new \in Fresh, cache' = [cache EXCEPT ![new] = NewElement(need, type)],
               Hand(t, new)
        PROVE  Ownership'
    <3>1. NewElement(need, type) \in Element /\ NewElement(need, type).state = "REQUESTED"
      BY DEF NewElement, Element, CachedStates
    <3>2. new \in Ids /\ cache[new].state = "ABSENT" /\ \A s \in Threads : new \notin held[s]
      BY DEF Fresh
    <3>3. free' = free /\ dirty' = dirty
      BY <1>2 DEF AllocBuffer
    <3> QED BY <2>2, <3>1, <3>2, <3>3, NewPlaces
  <2> QED BY <1>2, <2>1, <2>2 DEF AllocBuffer
<1> QED BY <1>1, <1>2 DEF Obtain

\* DeleteBuffers takes its victims off the lists and out of the cache, and
\* marks other buffers only when it has emptied both lists.
LEMMA DeleteBuffersPlaces ==
    ASSUME TypeOK, Lists, NEW count \in Nat, DropFromLists(count)
    PROVE  /\ NoDuplicates(free)' /\ NoDuplicates(dirty)'
           /\ Elements(free)' = Elements(free) \ Victims(count)
           /\ Elements(dirty)' = Elements(dirty) \ Victims(count)
           /\ Victims(count) \subseteq Elements(free) \cup Elements(dirty)
           /\ \A id \in Ids \ Victims(count) :
                 /\ CacheWithout(count)[id].state = cache[id].state
                 /\ CacheWithout(count)[id].isDeleting =>
                       \/ cache[id].isDeleting
                       \/ Elements(free)' = {} /\ Elements(dirty)' = {}
           /\ \A id \in Ids \cap Victims(count) : CacheWithout(count)[id] = NoElement
<1> DEFINE F == FreeDrop(count)
           D == DirtyDrop(count)
           m == Len(free)
           n == Len(dirty)
           freeVictims == {free[i] : i \in 1..F}
           dirtyVictims == {dirty[i] : i \in 1..D}
<1>1. /\ m \in Nat /\ DOMAIN free = 1..m
      /\ n \in Nat /\ DOMAIN dirty = 1..n
  BY LenProperties DEF TypeOK
<1>2. /\ F = (IF count <= m THEN count ELSE m)
      /\ D = (IF count - F <= n THEN count - F ELSE n)
      /\ free' = SubSeq(free, F + 1, m) /\ dirty' = SubSeq(dirty, D + 1, n)
      /\ Victims(count) = freeVictims \cup dirtyVictims
  BY DEF FreeDrop, DirtyDrop, Lesser, DropFromLists, Victims
<1>3. /\ F \in Nat /\ F <= m /\ D \in Nat /\ D <= n
      /\ count - F - D \in Int
      /\ count - F - D > 0 => F = m /\ D = n
      /\ 1..F \subseteq 1..m /\ 1..D \subseteq 1..n
  <2> HIDE DEF F, D, m, n
  <2>1. F \in Nat /\ F <= m /\ D \in Nat /\ D <= n
    BY <1>1, <1>2
  <2> QED BY <1>1, <1>2, <2>1
<1>4. freeVictims \subseteq Elements(free) /\ dirtyVictims \subseteq Elements(dirty)
  <2> HIDE DEF F, D, m, n
  <2> QED BY <1>1, <1>3 DEF Elements
<1>5. /\ Elements(free)' = Elements(free) \ freeVictims /\ NoDuplicates(free)'
      /\ Elements(dirty)' = Elements(dirty) \ dirtyVictims /\ NoDuplicates(dirty)'
  BY <1>2, <1>3, DropElements, ZenonT(60) DEF TypeOK, Lists, ListsMatchStates
<1>6. F = m /\ D = n => freeVictims = Elements(free) /\ dirtyVictims = Elements(dirty)
  BY <1>1 DEF Elements
<1> HIDE DEF F, D, m, n, freeVictims, dirtyVictims
<1>7. Elements(free) \cap Elements(dirty) = {}
  <2> SUFFICES ASSUME NEW id \in Elements(free), id \in Elements(dirty) PROVE FALSE
    OBVIOUS
  <2>1. cache[id].state = "RELEASED" /\ cache[id].state = "RETURNED"
    BY DEF Lists, ListsMatchStates
  <2> QED BY <2>1
<1>8. /\ Elements(free)' = Elements(free) \ Victims(count)
      /\ Elements(dirty)' = Elements(dirty) \ Victims(count)
      /\ Victims(count) \subseteq Elements(free) \cup Elements(dirty)
  BY <1>2, <1>4, <1>5, <1>7
<1>9. Marked(count) # {} => Elements(free)' = {} /\ Elements(dirty)' = {}
  <2> SUFFICES ASSUME NEW id \in Marked(count)
               PROVE  Elements(free)' = {} /\ Elements(dirty)' = {}
    OBVIOUS
  <2> DEFINE before == {other \in Cached \ Victims(count) : other < id}
  <2>1. Cardinality(before) < count - F - D
    BY DEF Marked, F, D
  <2>2. before \in SUBSET Ids
    BY DEF Cached
  <2> HIDE DEF before
  <2>3. Cardinality(before) \in Nat
    BY <2>2, IdsAssumption, FS_Subset, FS_CardinalityType
  <2>4. F = m /\ D = n
    BY <1>3, <2>1, <2>3
  <2> QED BY <1>5, <1>6, <2>4
<1>10. ASSUME NEW id \in Ids \ Victims(count)
       PROVE  /\ CacheWithout(count)[id].state = cache[id].state
              /\ CacheWithout(count)[id].isDeleting =>
                    \/ cache[id].isDeleting
                    \/ Elements(free)' = {} /\ Elements(dirty)' = {}
  <2>1. CacheWithout(count)[id] = [cache[id] EXCEPT !.isDeleting = @ \/ id \in Marked(count)]
    BY <1>10 DEF CacheWithout
  <2>2. CacheWithout(count)[id].state = cache[id].state
    BY <2>1 DEF TypeOK, Element
  <2>3. CacheWithout(count)[id].isDeleting = (cache[id].isDeleting \/ id \in Marked(count))
    BY <2>1, Zenon DEF TypeOK, Element
  <2> QED BY <2>2, <2>3, <1>9
<1>11. \A id \in Ids \cap Victims(count) : CacheWithout(count)[id] = NoElement
  BY DEF CacheWithout
<1> QED BY <1>5, <1>8, <1>10, <1>11

LEMMA ShrinkPlaces ==
    ASSUME TypeOK, Ownership, NEW t \in Threads, Shrink(t)
    PROVE  Ownership'
<1> DEFINE count == ShrinkCount(t)
<1>1. count \in Nat
  BY ShrinkCountType DEF Shrink
<1>2. cache' = CacheWithout(count) /\ DropFromLists(count) /\ held' = held
  BY DEF Shrink
<1> HIDE DEF count
<1>3. /\ NoDuplicates(free)' /\ NoDuplicates(dirty)'
      /\ Elements(free)' = Elements(free) \ Victims(count)
      /\ Elements(dirty)' = Elements(dirty) \ Victims(count)
      /\ Victims(count) \subseteq Elements(free) \cup Elements(dirty)
      /\ \A id \in Ids \ Victims(count) :
            /\ cache'[id].state = cache[id].state
            /\ cache'[id].isDeleting =>
                  \/ cache[id].isDeleting
                  \/ Elements(free)' = {} /\ Elements(dirty)' = {}
      /\ \A id \in Ids \cap Victims(count) :
            cache'[id].state = "ABSENT" /\ ~cache'[id].isDeleting
  BY <1>1, <1>2, DeleteBuffersPlaces DEF NoElement, Lists, Ownership
<1>4. ListsMatchStates'
  BY <1>3, Places DEF Ownership, ListsMatchStates
<1>5. ExclusiveOwnership'
  BY <1>2, <1>3 DEF Ownership, ExclusiveOwnership
<1>6. MarkedIsOut'
  BY <1>3 DEF Ownership, MarkedIsOut
<1>7. NoBufferLost'
  BY <1>2, <1>3 DEF Ownership, NoBufferLost, Cached
<1> QED BY <1>4, <1>5, <1>6, <1>7 DEF Ownership

LEMMA AttachPlaces ==
    ASSUME TypeOK, Ownership, NEW t \in Threads, NEW id \in Ids, NEW need \in Capacities,
           NEW type \in MemTypes, NEW filled \in BOOLEAN,
           AttachBuffer(t, id, need, type, filled)
    PROVE  Ownership'
<1> DEFINE count == RoomNeeded
           e == [state |-> "ATTACHED", isDeleting |-> FALSE, capacity |-> need, memType |-> type]
<1>1. count \in Nat
  BY RoomNeededType
<1>2. /\ cache' = [CacheWithout(count) EXCEPT ![id] = e]
      /\ DropFromLists(count) /\ Hand(t, id)
  BY DEF AttachBuffer
<1>3. cache[id].state = "ABSENT" /\ \A s \in Threads : s # t => id \notin held[s]
  BY DEF AttachBuffer, IsAttachable, Fresh, Ownership, ExclusiveOwnership
<1>4. e.state = "ATTACHED" /\ e.isDeleting = FALSE
  OBVIOUS
<1> HIDE DEF count, e
<1>5. id \notin Elements(free) \cup Elements(dirty)
  BY <1>3, Places
<1>6. \A other \in Ids :
         cache'[other] = IF other = id THEN e ELSE CacheWithout(count)[other]
  BY <1>2 DEF CacheWithout
<1>7. \A s \in Threads : held'[s] = IF s = t THEN held[t] \cup {id} ELSE held[s]
  BY <1>2 DEF TypeOK, Hand
<1>8. /\ NoDuplicates(free)' /\ NoDuplicates(dirty)'
      /\ Elements(free)' = Elements(free) \ Victims(count)
      /\ Elements(dirty)' = Elements(dirty) \ Victims(count)
      /\ Victims(count) \subseteq Elements(free) \cup Elements(dirty)
      /\ cache'[id].state = "ATTACHED" /\ ~cache'[id].isDeleting
      /\ \A other \in Ids \ Victims(count) : other # id =>
            /\ cache'[other].state = cache[other].state
            /\ cache'[other].isDeleting =>
                  \/ cache[other].isDeleting
                  \/ Elements(free)' = {} /\ Elements(dirty)' = {}
      /\ \A other \in Ids \cap Victims(count) : other # id =>
            cache'[other].state = "ABSENT" /\ ~cache'[other].isDeleting
  BY <1>1, <1>2, <1>4, <1>6, DeleteBuffersPlaces DEF NoElement, Lists, Ownership
<1>9. ListsMatchStates'
  BY <1>3, <1>5, <1>8, Places DEF Ownership, ListsMatchStates
<1>10. ExclusiveOwnership'
  BY <1>3, <1>5, <1>7, <1>8 DEF Ownership, ExclusiveOwnership
<1>11. MarkedIsOut'
  BY <1>5, <1>8 DEF Ownership, MarkedIsOut
<1>12. NoBufferLost'
  BY <1>5, <1>7, <1>8 DEF Ownership, NoBufferLost, Cached
<1> QED BY <1>9, <1>10, <1>11, <1>12 DEF Ownership

-----------------------------------------------------------------------------
(* The calls in progress.                                                  *)

LEMMA InFlightFrame ==
    ASSUME TypeOK, InFlightIsHeld, NEW t \in Threads,
           \A s \in Threads : s # t => call'[s] = call[s] /\ held[s] \subseteq held'[s],
           call'[t].at \in {"pushed", "pushedCancel", "attachPush", "attachRelease", "forceDetach"}
               => call'[t].id \in held'[t]
    PROVE  InFlightIsHeld'
  BY DEF InFlightIsHeld

\* A call that ends, or has only a notification left, needs no buffer.
LEMMA InFlightEnds ==
    ASSUME TypeOK, InFlightIsHeld, NEW t \in Threads,
           \A s \in Threads : s # t => held[s] \subseteq held'[s],
           \/ Return(t)
           \/ \E label \in {"enterTimed", "enterForever", "sleepTimed", "sleepForever",
                            "notifyProducer", "grown", "shrink"} :
                 \/ Goto(t, label)
                 \/ \E n \in Nat : call' = [call EXCEPT ![t].at = label, ![t].size = n]
           \/ \E id \in Ids : call' = [call EXCEPT ![t].at = "notifyConsumer", ![t].id = id]
    PROVE  InFlightIsHeld'
<1>1. \A s \in Threads : s # t => call'[s] = call[s]
  BY DEF TypeOK, Return, Goto
<1>2. call'[t].at \notin {"pushed", "pushedCancel", "attachPush", "attachRelease", "forceDetach"}
  BY DEF TypeOK, Call, NoCall, Return, Goto
<1> QED BY <1>1, <1>2, InFlightFrame

LEMMA InFlightUnchanged ==
    ASSUME TypeOK, InFlightIsHeld, UNCHANGED call,
           \A s \in Threads : held[s] \subseteq held'[s]
    PROVE  InFlightIsHeld'
  BY DEF InFlightIsHeld

LEMMA HandsOfOthers ==
    ASSUME TypeOK, NEW t \in Threads, NEW id \in Ids,
           Hand(t, id) \/ GiveUp(t, id) \/ UNCHANGED held
    PROVE  \A s \in Threads : s # t => held[s] \subseteq held'[s]
  BY DEF TypeOK, Hand, GiveUp

-----------------------------------------------------------------------------
(* The inductive step.                                                     *)

\* What a critical section on a buffer in the thread's hands preserves.
LEMMA SectionSafe ==
    ASSUME IInv, NEW t \in Threads, NEW id \in held[t],
           \/ DeleteMarked(t, id) \/ MakeIdle(t, id) \/ ReturnFilled(t, id)
           \/ \E available \in BOOLEAN : MarkPushed(t, id, available)
    PROVE  Ownership' /\ InFlightIsHeld' /\ hasListener'
<1> USE DEF IInv
<1>1. id \in Ids
  BY Places
<1>2. CASE DeleteMarked(t, id)
  BY <1>1, <1>2, DeleteMarkedPlaces, HandsOfOthers, InFlightEnds DEF DeleteMarked, signalVars
<1>3. CASE MakeIdle(t, id)
  BY <1>1, <1>3, MakeIdlePlaces, HandsOfOthers, InFlightEnds DEF MakeIdle, signalVars
<1>4. CASE ReturnFilled(t, id)
  BY <1>1, <1>4, ReturnFilledPlaces, HandsOfOthers, InFlightEnds DEF ReturnFilled, signalVars
<1>5. ASSUME NEW available \in BOOLEAN, MarkPushed(t, id, available)
      PROVE  Ownership' /\ InFlightIsHeld' /\ hasListener'
  <2>1. /\ held' = held
        /\ \A s \in Threads : s # t => call'[s] = call[s]
        /\ call'[t].id = id
    <3> DEFINE label == IF available THEN "pushed" ELSE "pushedCancel"
    <3>1. held' = held /\ call' = [call EXCEPT ![t].at = label, ![t].id = id]
      BY <1>5 DEF MarkPushed
    <3> HIDE DEF label
    <3> QED BY <3>1 DEF TypeOK, Call
  <2>2. InFlightIsHeld'
    BY <2>1, InFlightFrame
  <2> QED BY <1>5, <2>2, MarkPushedPlaces DEF MarkPushed, signalVars
<1> QED BY <1>2, <1>3, <1>4, <1>5

\* A step that leaves the buffers where they are.
LEMMA QuietSafe ==
    ASSUME IInv, NEW t \in Threads, UNCHANGED <<cache, free, dirty, held, hasListener>>,
           \/ UNCHANGED call
           \/ Return(t)
           \/ \E label \in {"enterTimed", "enterForever", "sleepTimed", "sleepForever",
                            "notifyProducer", "grown", "shrink"} :
                 \/ Goto(t, label)
                 \/ \E n \in Nat : call' = [call EXCEPT ![t].at = label, ![t].size = n]
    PROVE  Ownership' /\ InFlightIsHeld' /\ hasListener'
<1> USE DEF IInv
<1>1. Ownership' /\ hasListener'
  BY UnchangedPlaces
<1>2. InFlightIsHeld'
  BY InFlightUnchanged, InFlightEnds
<1> QED BY <1>1, <1>2

LEMMA FailSafe ==
    ASSUME IInv, NEW t \in Threads, call[t].at = "pushed", Fail(t),
           UNCHANGED <<cache, free, dirty, held, hasListener>>
    PROVE  Ownership' /\ InFlightIsHeld' /\ hasListener'
<1> USE DEF IInv
<1>1. CASE Return(t)
  BY <1>1, QuietSafe
<1>2. CASE Goto(t, "forceDetach")
  <2>1. call[t].id \in held[t]
    BY DEF InFlightIsHeld
  <2>2. /\ \A s \in Threads : s # t => call'[s] = call[s]
        /\ call'[t].id = call[t].id
    BY <1>2 DEF TypeOK, Call, Goto
  <2>3. InFlightIsHeld'
    BY <2>1, <2>2, InFlightFrame
  <2> QED BY <2>3, UnchangedPlaces
<1> QED BY <1>1, <1>2 DEF Fail

\* DetachBuffer, forced or not.
LEMMA EraseSafe ==
    ASSUME IInv, NEW t \in Threads, NEW id \in held[t], EraseFromMap(id),
           UNCHANGED <<free, dirty, held, hasListener>>, UNCHANGED call \/ Return(t)
    PROVE  Ownership' /\ InFlightIsHeld' /\ hasListener'
<1> USE DEF IInv
<1> DEFINE e == [cache[id] EXCEPT !.state = "ABSENT", !.isDeleting = FALSE]
<1>1. id \in Ids
  BY Places
<1>2. e \in Element /\ e.state = "ABSENT" /\ cache' = [cache EXCEPT ![id] = e]
  BY <1>1, ZenonT(60) DEF EraseFromMap, TypeOK, Element
<1> HIDE DEF e
<1>3. Ownership'
  BY <1>2, ChangeOwned
<1>4. InFlightIsHeld'
  BY InFlightUnchanged, InFlightEnds
<1> QED BY <1>3, <1>4

LEMMA ProducerSafe ==
    ASSUME IInv, NEW t \in Threads, ProducerCalls(t)
    PROVE  Ownership' /\ InFlightIsHeld' /\ hasListener'
<1>1. ASSUME NEW need \in Capacities, NEW type \in MemTypes, RequestBuffer(t, need, type)
      PROVE  Ownership' /\ InFlightIsHeld' /\ hasListener'
  <2>1. Ownership'
    BY <1>1, ObtainPlaces DEF IInv, RequestBuffer
  <2>2. \A s \in Threads : held[s] \subseteq held'[s]
    BY <1>1 DEF IInv, TypeOK, RequestBuffer, Obtain, Reuse, AllocBuffer, LendIdle, Replace, Lose, Hand
  <2>3. InFlightIsHeld'
    BY <1>1, <2>2, InFlightUnchanged DEF IInv, RequestBuffer
  <2> QED BY <1>1, <2>1, <2>3 DEF IInv, RequestBuffer, signalVars
<1>2. ASSUME NEW need \in Capacities, NEW type \in MemTypes,
             NEW label \in {"enterTimed", "enterForever"}, RequestBlocks(t, need, type, label)
      PROVE  Ownership' /\ InFlightIsHeld' /\ hasListener'
  <2>1. need \in Nat
    BY SizesAssumption
  <2> QED BY <1>2, <2>1, QuietSafe DEF RequestBlocks, signalVars
<1>3. ASSUME NEW type \in MemTypes, RequestRefused(t, type)
      PROVE  Ownership' /\ InFlightIsHeld' /\ hasListener'
  BY <1>3, QuietSafe DEF RequestRefused
<1>4. ASSUME NEW id \in Ids, NEW available \in BOOLEAN, PushBuffer(t, id, available)
      PROVE  Ownership' /\ InFlightIsHeld' /\ hasListener'
  BY <1>4, SectionSafe DEF PushBuffer
<1> QED BY <1>1, <1>2, <1>3, <1>4 DEF ProducerCalls

LEMMA ConsumerSafe ==
    ASSUME IInv, NEW t \in Threads, ConsumerCalls(t)
    PROVE  Ownership' /\ InFlightIsHeld' /\ hasListener'
<1>1. CASE AcquireBuffer(t)
  <2>1. Ownership'
    BY <1>1, AcquirePlaces DEF IInv
  <2>2. \A s \in Threads : held[s] \subseteq held'[s]
    BY <1>1 DEF IInv, TypeOK, AcquireBuffer, Hand
  <2> QED BY <1>1, <2>1, <2>2, InFlightUnchanged DEF IInv, AcquireBuffer
<1>2. CASE AcquireRefused(t)
  BY <1>2, QuietSafe DEF AcquireRefused, queueVars
<1>3. ASSUME NEW id \in Ids, ReleaseBuffer(t, id)
      PROVE  Ownership' /\ InFlightIsHeld' /\ hasListener'
  BY <1>3, SectionSafe DEF ReleaseBuffer, Release
<1> QED BY <1>1, <1>2, <1>3 DEF ConsumerCalls

LEMMA AttacherSafe ==
    ASSUME IInv, NEW t \in Threads, AttacherCalls(t)
    PROVE  Ownership' /\ InFlightIsHeld' /\ hasListener'
<1>1. ASSUME NEW id \in Ids, NEW need \in Capacities, NEW type \in MemTypes,
             NEW filled \in BOOLEAN, AttachBuffer(t, id, need, type, filled)
      PROVE  Ownership' /\ InFlightIsHeld' /\ hasListener'
  <2>1. Ownership'
    BY <1>1, AttachPlaces DEF IInv
  <2>2. Hand(t, id)
    BY <1>1 DEF AttachBuffer
  <2>3. PICK label : call' = [call EXCEPT ![t].at = label, ![t].id = id, ![t].attaching = TRUE]
    BY <1>1 DEF AttachBuffer
  <2>4. call'[t].id = id /\ \A s \in Threads : s # t => call'[s] = call[s]
    BY <2>3 DEF IInv, TypeOK, Call
  <2>5. id \in held'[t] /\ \A s \in Threads : s # t => held[s] \subseteq held'[s]
    BY <2>2 DEF IInv, TypeOK, Hand
  <2>6. InFlightIsHeld'
    BY <2>4, <2>5, InFlightFrame DEF IInv
  <2> QED BY <1>1, <2>1, <2>6 DEF IInv, AttachBuffer, signalVars
<1>2. ASSUME NEW id \in Ids, DetachBuffer(t, id)
      PROVE  Ownership' /\ InFlightIsHeld' /\ hasListener'
  BY <1>2, EraseSafe DEF DetachBuffer, signalVars
<1> QED BY <1>1, <1>2 DEF AttacherCalls

LEMMA ContinueSafe ==
    ASSUME IInv, NEW t \in Threads, Continue(t)
    PROVE  Ownership' /\ InFlightIsHeld' /\ hasListener'
<1>1. CASE EnterWait(t)
  BY <1>1, QuietSafe DEF EnterWait, queueVars, signalVars
<1>2. CASE WakeAndObtain(t)
  <2>1. call[t].size \in Capacities /\ memoryType \in MemTypes \cup {UnknownMemory}
    BY <1>2 DEF WakeAndObtain, WaitEnds, IInv, TypeOK, Call
  <2>2. Ownership'
    BY <1>2, <2>1, ObtainPlaces DEF IInv, WakeAndObtain
  <2>3. \A s \in Threads : held[s] \subseteq held'[s]
    BY <1>2 DEF IInv, TypeOK, WakeAndObtain, Obtain, Reuse, AllocBuffer, LendIdle, Replace, Lose, Hand
  <2>4. InFlightIsHeld'
    BY <1>2, <2>3, InFlightEnds DEF IInv, WakeAndObtain
  <2> QED BY <1>2, <2>2, <2>4 DEF IInv, WakeAndObtain, signalVars
<1>3. CASE WakeAndSleep(t) \/ WakeRefused(t)
  BY <1>3, QuietSafe DEF WakeAndSleep, WakeRefused, queueVars, signalVars
<1>4. ASSUME NEW b \in Brokers, OnBufferFilled(t, b)
      PROVE  Ownership' /\ InFlightIsHeld' /\ hasListener'
  <2> DEFINE id == call[t].id
  <2>1. id \in held[t] /\ id \in Ids /\ b \in Threads
    BY <1>4, Places DEF IInv, InFlightIsHeld, OnBufferFilled, Threads
  <2>2. \A s \in Threads : held'[s] = IF s = b THEN held[b] \cup {id}
                                      ELSE IF s = t THEN held[t] \ {id} ELSE held[s]
    BY <1>4, <2>1 DEF IInv, TypeOK, OnBufferFilled
  <2>3. UNCHANGED <<cache, free, dirty, hasListener>> /\ Return(t)
    BY <1>4 DEF OnBufferFilled, queueVars, signalVars
  <2> HIDE DEF id
  <2>4. id \notin Elements(free) \cup Elements(dirty)
    BY <2>1 DEF IInv, Ownership, ExclusiveOwnership
  <2>5. ExclusiveOwnership'
    BY <2>1, <2>2, <2>3, <2>4 DEF IInv, Ownership, ExclusiveOwnership, Elements
  <2>6. NoBufferLost'
    BY <2>1, <2>2, <2>3 DEF IInv, Ownership, NoBufferLost, Cached, Elements
  <2>7. ListsMatchStates' /\ MarkedIsOut'
    BY <2>3 DEF IInv, Ownership, ListsMatchStates, MarkedIsOut, NoDuplicates, Elements
  <2>8. InFlightIsHeld'
    BY <2>2, <2>3, InFlightEnds DEF IInv
  <2> QED BY <2>3, <2>5, <2>6, <2>7, <2>8 DEF IInv, Ownership
<1>5. CASE PushReturns(t)
  <2>1. call[t].id \in held[t]
    BY <1>5 DEF IInv, InFlightIsHeld, PushReturns
  <2> QED BY <1>5, <2>1, SectionSafe DEF PushReturns, CancelBuffer
<1>6. CASE ReturnRefused(t)
  BY <1>6, FailSafe DEF ReturnRefused, queueVars, signalVars
<1>7. CASE NotifyConsumer(t) \/ NotifyProducer(t) \/ GrowNotifies(t)
  BY <1>7, QuietSafe DEF NotifyConsumer, NotifyProducer, GrowNotifies, queueVars, signalVars
<1>8. CASE NoConsumerListener(t)
  BY <1>8 DEF NoConsumerListener, IInv
<1>9. CASE AttachGoesOn(t)
  <2>1. call[t].id \in held[t]
    BY <1>9 DEF IInv, InFlightIsHeld, AttachGoesOn
  <2> QED BY <1>9, <2>1, SectionSafe DEF AttachGoesOn, Release
<1>10. CASE ForceDetach(t)
  <2>1. call[t].id \in held[t]
    BY <1>10 DEF IInv, InFlightIsHeld, ForceDetach
  <2> QED BY <1>10, <2>1, EraseSafe DEF ForceDetach, signalVars
<1>11. CASE Shrink(t)
  <2>1. Ownership'
    BY <1>11, ShrinkPlaces DEF IInv
  <2>2. InFlightIsHeld'
    BY <1>11, InFlightEnds DEF IInv, Shrink
  <2> QED BY <1>11, <2>1, <2>2 DEF IInv, Shrink, signalVars
<1> QED BY <1>1, <1>2, <1>3, <1>4, <1>5, <1>6, <1>7, <1>8, <1>9, <1>10, <1>11
        DEF Continue, Proceed

\* The invariant holds while the consumer's listener is there from the start.
LEMMA InductiveInvariant ==
    ASSUME ListenerFirst
    PROVE  Spec => []IInv
<1>1. Init => IInv
  <2> SUFFICES ASSUME Init PROVE IInv
    OBVIOUS
  <2>1. Elements(<<>>) = {} /\ NoDuplicates(<<>>)
    BY DEF Elements, NoDuplicates
  <2>2. ListsMatchStates
    BY <2>1 DEF Init, ListsMatchStates, NoElement
  <2>3. ExclusiveOwnership /\ NoBufferLost /\ MarkedIsOut
    BY <2>1 DEF Init, ExclusiveOwnership, NoBufferLost, MarkedIsOut, Cached, NoElement
  <2>4. InFlightIsHeld /\ hasListener
    BY DEF Init, InFlightIsHeld, NoCall
  <2> QED BY <2>2, <2>3, <2>4, InitType DEF IInv, Ownership
<1>2. IInv /\ [Next]_vars => IInv'
  <2> SUFFICES ASSUME IInv, [Next]_vars PROVE IInv'
    OBVIOUS
  <2> DEFINE Safe == Ownership' /\ InFlightIsHeld' /\ hasListener'
  <2>1. ASSUME NEW t \in Threads, Continue(t) PROVE Safe
    BY <2>1, ContinueSafe
  <2>2. ASSUME NEW t \in Threads,
               SpuriousWakeup(t) \/ \E new \in 1..MaxQueueSize : Grow(t, new) \/ DecideShrink(t, new)
        PROVE  Safe
    <3>1. 1..MaxQueueSize \subseteq Nat
      BY SizesAssumption
    <3>2. CASE SpuriousWakeup(t)
      BY <3>2, QuietSafe DEF SpuriousWakeup, queueVars, signalVars
    <3>3. ASSUME NEW new \in 1..MaxQueueSize, Grow(t, new) PROVE Safe
      BY <3>3, QuietSafe DEF Grow, signalVars
    <3>4. ASSUME NEW new \in 1..MaxQueueSize, DecideShrink(t, new) PROVE Safe
      BY <3>1, <3>4, QuietSafe DEF DecideShrink, queueVars, signalVars
    <3> QED BY <2>2, <3>2, <3>3, <3>4
  <2>3. ASSUME NEW t \in Threads, NEW id \in Ids, ReturnBuffer(t, id) PROVE Safe
    BY <2>3, SectionSafe DEF ReturnBuffer, CancelBuffer
  <2>4. ASSUME SetConsumerListener PROVE Safe
    BY <2>4 DEF SetConsumerListener, IInv
  <2>5. ASSUME UNCHANGED vars PROVE Safe
    BY <2>5, UnchangedPlaces DEF vars, queueVars, signalVars, IInv, InFlightIsHeld, TypeOK
  <2>6. /\ Producers \cup Brokers \subseteq Threads
        /\ Producers \subseteq Threads /\ Consumers \subseteq Threads
        /\ Attachers \subseteq Threads /\ Resizers \subseteq Threads
    BY ThreadsAssumption DEF Threads
  <2>7. ASSUME Next PROVE Safe
    BY <2>1, <2>2, <2>3, <2>4, <2>6, <2>7, ProducerSafe, ConsumerSafe, AttacherSafe, Zenon DEF Next
  <2>8. TypeOK'
    BY NextType DEF IInv
  <2> QED BY <2>5, <2>7, <2>8 DEF IInv
<1> QED BY <1>1, <1>2, PTL DEF Spec

\* While the consumer's listener is there from the start, the lists of the
\* queue and the states of its buffers agree, a buffer is in one place only,
\* no cached buffer is lost, and none that is marked for deletion is lent.
THEOREM OwnershipInvariant ==
    ASSUME ListenerFirst
    PROVE  Spec => [](ListsMatchStates /\ ExclusiveOwnership /\ NoBufferLost /\ MarkedIsOut)
<1>1. IInv => ListsMatchStates /\ ExclusiveOwnership /\ NoBufferLost /\ MarkedIsOut
  BY DEF IInv, Ownership
<1> QED BY <1>1, InductiveInvariant, PTL

\* A cached buffer that is in neither list is in somebody's hands: none leaks, while
\* the listener is there from the start.
THEOREM NothingIsLost ==
    ASSUME ListenerFirst
    PROVE  Spec => []NoBufferLost
<1>1. IInv => NoBufferLost
  BY DEF IInv, Ownership
<1> QED BY <1>1, InductiveInvariant, PTL

-----------------------------------------------------------------------------
(* The lists alone.  Without a listener a failing push files a buffer and  *)
(* leaves it with its client too, so that nobody owns it alone; the state  *)
(* that each call tests keeps the lists right even then.  Only a forced    *)
(* DetachBuffer tests nothing: a client that attaches needs the listener.  *)

NobodyAttaches ==
    \A t \in Threads : /\ call[t].at \notin {"attachPush", "attachRelease", "forceDetach"}
                       /\ ~call[t].attaching

ListInv == TypeOK /\ Lists /\ NobodyAttaches

LEMMA ListFacts ==
    ASSUME TypeOK, Lists
    PROVE  /\ \A id \in Elements(free) : cache[id].state = "RELEASED" /\ ~cache[id].isDeleting
           /\ \A id \in Elements(dirty) : cache[id].state = "RETURNED" /\ ~cache[id].isDeleting
           /\ Elements(free) \subseteq Ids /\ Elements(dirty) \subseteq Ids
  BY DEF TypeOK, Lists, ListsMatchStates, MarkedIsOut

\* An element that is in no list changes, and does not enter one.
LEMMA ListsApart ==
    ASSUME TypeOK, Lists, NEW id \in Ids \ (Elements(free) \cup Elements(dirty)), NEW e,
           e.state \notin {"RELEASED", "RETURNED"},
           cache' = [cache EXCEPT ![id] = e], UNCHANGED <<free, dirty>>
    PROVE  Lists'
<1>1. \A other \in Ids : cache'[other] = IF other = id THEN e ELSE cache[other]
  BY DEF TypeOK
<1>2. NoDuplicates(free)' /\ NoDuplicates(dirty)' /\ UNCHANGED <<Elements(free), Elements(dirty)>>
  BY DEF Lists, ListsMatchStates, NoDuplicates, Elements
<1>3. ListsMatchStates'
  BY <1>1, <1>2 DEF Lists, ListsMatchStates
<1>4. MarkedIsOut'
  BY <1>1, <1>2 DEF Lists, MarkedIsOut
<1> QED BY <1>3, <1>4 DEF Lists

LEMMA ListsUnchanged ==
    ASSUME Lists, UNCHANGED <<cache, free, dirty>>
    PROVE  Lists'
  BY DEF Lists, ListsMatchStates, MarkedIsOut, NoDuplicates, Elements

\* A critical section on a buffer that its caller names.
LEMMA SectionLists ==
    ASSUME TypeOK, Lists, NEW t \in Threads, NEW id \in Ids,
           \/ DeleteMarked(t, id) \/ ReturnFilled(t, id)
           \/ cache[id].state \in {"PUSHED", "ACQUIRED", "ATTACHED"} /\ MakeIdle(t, id)
           \/ \E available \in BOOLEAN : MarkPushed(t, id, available)
    PROVE  Lists'
<1>1. CASE DeleteMarked(t, id)
  <2>1. id \notin Elements(free) \cup Elements(dirty)
    BY <1>1 DEF DeleteMarked, Lists, MarkedIsOut
  <2> QED BY <1>1, <2>1, ListsApart DEF DeleteMarked, NoElement
<1>2. CASE \E available \in BOOLEAN : MarkPushed(t, id, available)
  <2> DEFINE e == [cache[id] EXCEPT !.state = "PUSHED"]
  <2>1. /\ cache[id].state \in {"REQUESTED", "ATTACHED"} /\ UNCHANGED <<free, dirty>>
        /\ cache' = [cache EXCEPT ![id] = e]
    BY <1>2 DEF MarkPushed, SetState, TypeOK
  <2>2. e.state = "PUSHED"
    BY DEF TypeOK, Element
  <2>3. id \notin Elements(free) \cup Elements(dirty)
    BY <2>1, ListFacts
  <2> HIDE DEF e
  <2> QED BY <2>1, <2>2, <2>3, ListsApart
<1>3. ASSUME MakeIdle(t, id), cache[id].state \in {"PUSHED", "ACQUIRED", "ATTACHED"}
      PROVE  Lists'
  <2>1. \A other \in Ids :
           /\ cache'[other].state = IF other = id THEN "RELEASED" ELSE cache[other].state
           /\ cache'[other].isDeleting = cache[other].isDeleting
    BY <1>3 DEF TypeOK, MakeIdle, SetState, Element
  <2>2. id \notin Elements(free) \cup Elements(dirty) /\ ~cache[id].isDeleting /\ dirty' = dirty
    BY <1>3, ListFacts DEF MakeIdle
  <2>3. Elements(free)' = Elements(free) \cup {id} /\ NoDuplicates(free)'
    BY <1>3, <2>2, InsertAtElements
       DEF MakeIdle, InsertFreeBufferInOrder, TypeOK, Lists, ListsMatchStates
  <2>4. Elements(dirty)' = Elements(dirty) /\ NoDuplicates(dirty)'
    BY <2>2 DEF Elements, NoDuplicates, Lists, ListsMatchStates
  <2>5. ListsMatchStates'
    BY <1>3, <2>1, <2>3, <2>4 DEF Lists, ListsMatchStates
  <2>6. MarkedIsOut'
    BY <2>1, <2>2, <2>3, <2>4 DEF Lists, MarkedIsOut
  <2> QED BY <2>5, <2>6 DEF Lists
<1>4. CASE ReturnFilled(t, id)
  <2>1. \A other \in Ids :
           /\ cache'[other].state = IF other = id THEN "RETURNED" ELSE cache[other].state
           /\ cache'[other].isDeleting = cache[other].isDeleting
    BY <1>4 DEF TypeOK, ReturnFilled, SetState, Element
  <2>2. /\ id \notin Elements(free) \cup Elements(dirty) /\ ~cache[id].isDeleting
        /\ cache[id].state = "PUSHED" /\ free' = free
    BY <1>4, ListFacts DEF ReturnFilled
  <2>3. Elements(dirty)' = Elements(dirty) \cup {id} /\ NoDuplicates(dirty)'
    BY <1>4, <2>2, AppendElements DEF ReturnFilled, TypeOK, Lists, ListsMatchStates
  <2>4. Elements(free)' = Elements(free) /\ NoDuplicates(free)'
    BY <2>2 DEF Elements, NoDuplicates, Lists, ListsMatchStates
  <2>5. ListsMatchStates'
    BY <2>1, <2>2, <2>3, <2>4 DEF Lists, ListsMatchStates
  <2>6. MarkedIsOut'
    BY <2>1, <2>2, <2>3, <2>4 DEF Lists, MarkedIsOut
  <2> QED BY <2>5, <2>6 DEF Lists
<1> QED BY <1>1, <1>2, <1>3, <1>4

LEMMA AcquireLists ==
    ASSUME TypeOK, Lists, NEW t \in Threads, AcquireBuffer(t)
    PROVE  Lists'
<1> DEFINE id == Head(dirty)
<1>1. /\ id \in Ids /\ id \in Elements(dirty)
      /\ Elements(dirty)' = Elements(dirty) \ {id} /\ NoDuplicates(dirty)'
  BY HeadTailElements DEF AcquireBuffer, TypeOK, Lists, ListsMatchStates
<1>2. cache[id].state = "RETURNED" /\ ~cache[id].isDeleting
  BY <1>1, ListFacts
<1>3. \A other \in Ids :
         /\ cache'[other].state = IF other = id THEN "ACQUIRED" ELSE cache[other].state
         /\ cache'[other].isDeleting = cache[other].isDeleting
  BY <1>1 DEF TypeOK, AcquireBuffer, SetState, Element
<1>4. Elements(free)' = Elements(free) /\ NoDuplicates(free)'
  BY DEF AcquireBuffer, Elements, NoDuplicates, Lists, ListsMatchStates
<1> HIDE DEF id
<1>5. ListsMatchStates'
  BY <1>1, <1>2, <1>3, <1>4 DEF Lists, ListsMatchStates
<1>6. MarkedIsOut'
  BY <1>1, <1>2, <1>3, <1>4 DEF Lists, MarkedIsOut
<1> QED BY <1>5, <1>6 DEF Lists

\* An idle buffer leaves freeBufferList_, or a new one enters the cache.
LEMMA ObtainLists ==
    ASSUME TypeOK, Lists, NEW t \in Threads, NEW need \in Capacities,
           NEW type \in MemTypes \cup {UnknownMemory}, Obtain(t, need, type)
    PROVE  Lists'
<1>1. CASE Reuse(t, need, type)
  <2>1. PICK i \in DOMAIN free :
           /\ free' = RemoveAt(free, i)
           /\ LendIdle(t, free[i], need) \/ Replace(t, free[i], need, type) \/ Lose(free[i], need)
           /\ dirty' = dirty
    BY <1>1 DEF Reuse
  <2> DEFINE id == free[i]
  <2>2. id \in Ids /\ Elements(free)' = Elements(free) \ {id} /\ NoDuplicates(free)'
    BY <2>1, RemoveAtElements DEF TypeOK, Lists, ListsMatchStates
  <2>3. id \in Elements(free) /\ cache[id].state = "RELEASED" /\ ~cache[id].isDeleting
    BY ListFacts DEF Elements
  <2>4. Elements(dirty)' = Elements(dirty) /\ NoDuplicates(dirty)'
    BY <2>1 DEF Elements, NoDuplicates, Lists, ListsMatchStates
  <2>5. PICK new \in Ids :
           /\ cache[new].state = "ABSENT" \/ new = id
           /\ \A other \in Ids :
                 IF other \in {new, id}
                 THEN cache'[other].state \in {"ABSENT", "REQUESTED"} /\ ~cache'[other].isDeleting
                 ELSE cache'[other] = cache[other]
    <3>1. CASE LendIdle(t, id, need)
      <4>1. /\ cache'[id].state = "REQUESTED" /\ cache'[id].isDeleting = cache[id].isDeleting
            /\ \A other \in Ids : other # id => cache'[other] = cache[other]
        BY <2>2, <3>1 DEF LendIdle, SetState, TypeOK, Element
      <4> HIDE DEF id
      <4> QED BY <2>2, <2>3, <4>1
    <3>2. CASE Lose(id, need)
      <4>1. /\ cache'[id].state = "ABSENT" /\ ~cache'[id].isDeleting
            /\ \A other \in Ids : other # id => cache'[other] = cache[other]
        BY <2>2, <3>2 DEF Lose, NoElement, TypeOK
      <4> HIDE DEF id
      <4> QED BY <2>2, <2>3, <4>1
    <3>3. CASE Replace(t, id, need, type)
      <4>1. PICK n \in Fresh :
               cache' = [cache EXCEPT ![id] = NoElement, ![n] = NewElement(need, type)]
        BY <3>3 DEF Replace
      <4>2. n \in Ids /\ cache[n].state = "ABSENT"
        BY DEF Fresh
      <4>3. /\ cache'[n].state = "REQUESTED" /\ ~cache'[n].isDeleting
            /\ n # id => cache'[id].state = "ABSENT" /\ ~cache'[id].isDeleting
            /\ \A other \in Ids : other \notin {n, id} => cache'[other] = cache[other]
        BY <2>2, <4>1, <4>2 DEF NoElement, NewElement, TypeOK
      <4> HIDE DEF id
      <4> QED BY <2>2, <4>2, <4>3
    <3> QED BY <2>1, <3>1, <3>2, <3>3
  <2>6. new = id \/ new \notin Elements(free) \cup Elements(dirty)
    BY <2>5, ListFacts
  <2> HIDE DEF id
  <2>7. id \notin Elements(dirty)
    BY <2>3, ListFacts
  <2>8. ListsMatchStates'
    BY <2>2, <2>3, <2>4, <2>5, <2>6, <2>7 DEF Lists, ListsMatchStates
  <2>9. MarkedIsOut'
    BY <2>2, <2>3, <2>4, <2>5, <2>6 DEF Lists, MarkedIsOut
  <2> QED BY <2>8, <2>9 DEF Lists
<1>2. CASE AllocBuffer(t, need, type)
  <2>1. CASE UNCHANGED cache
    BY <1>2, <2>1, ListsUnchanged DEF AllocBuffer
  <2>2. ASSUME NEW new \in Fresh, cache' = [cache EXCEPT ![new] = NewElement(need, type)]
        PROVE  Lists'
    <3>1. new \in Ids /\ new \notin Elements(free) \cup Elements(dirty)
      BY ListFacts DEF Fresh
    <3>2. NewElement(need, type).state = "REQUESTED"
      BY DEF NewElement
    <3> QED BY <1>2, <2>2, <3>1, <3>2, ListsApart DEF AllocBuffer
  <2> QED BY <1>2, <2>1, <2>2 DEF AllocBuffer
<1> QED BY <1>1, <1>2 DEF Obtain

LEMMA ShrinkLists ==
    ASSUME TypeOK, Lists, NEW t \in Threads, Shrink(t)
    PROVE  Lists'
<1> DEFINE count == ShrinkCount(t)
<1>1. count \in Nat
  BY ShrinkCountType DEF Shrink
<1>2. cache' = CacheWithout(count) /\ DropFromLists(count)
  BY DEF Shrink
<1> HIDE DEF count
<1>3. /\ NoDuplicates(free)' /\ NoDuplicates(dirty)'
      /\ Elements(free)' = Elements(free) \ Victims(count)
      /\ Elements(dirty)' = Elements(dirty) \ Victims(count)
      /\ Victims(count) \subseteq Elements(free) \cup Elements(dirty)
      /\ \A id \in Ids \ Victims(count) :
            /\ cache'[id].state = cache[id].state
            /\ cache'[id].isDeleting =>
                  \/ cache[id].isDeleting
                  \/ Elements(free)' = {} /\ Elements(dirty)' = {}
      /\ \A id \in Ids \cap Victims(count) :
            cache'[id].state = "ABSENT" /\ ~cache'[id].isDeleting
  BY <1>1, <1>2, DeleteBuffersPlaces DEF NoElement
<1>4. ListsMatchStates'
  BY <1>3, ListFacts, SMTT(60) DEF Lists, ListsMatchStates
<1>5. MarkedIsOut'
  BY <1>3, SMTT(60) DEF Lists, MarkedIsOut
<1> QED BY <1>4, <1>5 DEF Lists

\* No step of a call begins an attachment but AttachBuffer itself.
LEMMA AttachingFrame ==
    ASSUME TypeOK, NobodyAttaches, NEW t \in Threads,
           \/ UNCHANGED call
           \/ Return(t)
           \/ \E label \in {"enterTimed", "enterForever", "sleepTimed", "sleepForever", "pushed",
                            "pushedCancel", "notifyConsumer", "notifyProducer", "grown", "shrink"} :
                 \/ Goto(t, label)
                 \/ \E n \in Nat : call' = [call EXCEPT ![t].at = label, ![t].size = n]
                 \/ \E id \in Ids : call' = [call EXCEPT ![t].at = label, ![t].id = id]
    PROVE  NobodyAttaches'
<1>1. \A s \in Threads : s # t => call'[s] = call[s]
  BY DEF TypeOK, Return, Goto
<1>2. CASE UNCHANGED call
  BY <1>2, SMTT(60) DEF NobodyAttaches
<1>3. CASE Return(t)
  BY <1>1, <1>3, SMTT(60) DEF NobodyAttaches, Return, NoCall, TypeOK
<1>4. ASSUME NEW label \in {"enterTimed", "enterForever", "sleepTimed", "sleepForever", "pushed",
                            "pushedCancel", "notifyConsumer", "notifyProducer", "grown", "shrink"},
             \/ Goto(t, label)
             \/ \E n \in Nat : call' = [call EXCEPT ![t].at = label, ![t].size = n]
             \/ \E id \in Ids : call' = [call EXCEPT ![t].at = label, ![t].id = id]
      PROVE  NobodyAttaches'
  <2>1. call'[t].at = label /\ call'[t].attaching = call[t].attaching
    BY <1>4, SMTT(60) DEF TypeOK, Call, Goto
  <2> QED BY <1>1, <2>1 DEF NobodyAttaches
<1> QED BY <1>2, <1>3, <1>4

LEMMA SectionListInv ==
    ASSUME ListInv, NEW t \in Threads, NEW id \in Ids,
           \/ DeleteMarked(t, id) \/ ReturnFilled(t, id)
           \/ cache[id].state \in {"PUSHED", "ACQUIRED", "ATTACHED"} /\ MakeIdle(t, id)
           \/ \E available \in BOOLEAN : MarkPushed(t, id, available)
    PROVE  Lists' /\ NobodyAttaches'
<1>1. Lists'
  BY SectionLists, SMTT(60) DEF ListInv
<1>2. ASSUME NEW available \in BOOLEAN, MarkPushed(t, id, available) PROVE NobodyAttaches'
  <2>1. CASE available
    BY <1>2, <2>1, AttachingFrame DEF ListInv, MarkPushed
  <2>2. CASE ~available
    BY <1>2, <2>2, AttachingFrame DEF ListInv, MarkPushed
  <2> QED BY <2>1, <2>2, SMTT(60)
<1>3. ASSUME DeleteMarked(t, id) \/ ReturnFilled(t, id) \/ MakeIdle(t, id) PROVE NobodyAttaches'
  BY <1>3, AttachingFrame DEF ListInv, DeleteMarked, ReturnFilled, MakeIdle
<1> QED BY <1>1, <1>2, <1>3

LEMMA ContinueLists ==
    ASSUME ListInv, NEW t \in Threads, Continue(t)
    PROVE  Lists' /\ NobodyAttaches'
<1> USE DEF ListInv
<1>1. CASE EnterWait(t) \/ WakeAndSleep(t) \/ WakeRefused(t)
  BY <1>1, ListsUnchanged, AttachingFrame DEF EnterWait, WakeAndSleep, WakeRefused, queueVars
<1>2. CASE WakeAndObtain(t)
  <2>1. call[t].size \in Capacities /\ memoryType \in MemTypes \cup {UnknownMemory}
    BY <1>2 DEF WakeAndObtain, WaitEnds, TypeOK, Call
  <2> QED BY <1>2, <2>1, ObtainLists, AttachingFrame DEF WakeAndObtain
<1>3. ASSUME NEW b \in Brokers, OnBufferFilled(t, b) PROVE Lists' /\ NobodyAttaches'
  BY <1>3, ListsUnchanged, AttachingFrame DEF OnBufferFilled, queueVars
<1>4. CASE PushReturns(t)
  <2>1. call[t].id \in Ids
    BY <1>4 DEF PushReturns, TypeOK, Call
  <2> QED BY <1>4, <2>1, SectionListInv DEF PushReturns, CancelBuffer
<1>5. CASE ReturnRefused(t) \/ NoConsumerListener(t)
  <2>1. Return(t)
    BY <1>5 DEF ReturnRefused, NoConsumerListener, Fail, NobodyAttaches
  <2> QED BY <1>5, <2>1, ListsUnchanged, AttachingFrame
          DEF ReturnRefused, NoConsumerListener, queueVars
<1>6. CASE NotifyConsumer(t) \/ NotifyProducer(t) \/ GrowNotifies(t)
  BY <1>6, ListsUnchanged, AttachingFrame
     DEF NotifyConsumer, NotifyProducer, GrowNotifies, queueVars
<1>7. CASE AttachGoesOn(t) \/ ForceDetach(t)
  BY <1>7 DEF AttachGoesOn, ForceDetach, NobodyAttaches
<1>8. CASE Shrink(t)
  BY <1>8, ShrinkLists, AttachingFrame, ZenonT(60) DEF Shrink
<1> QED BY <1>1, <1>2, <1>3, <1>4, <1>5, <1>6, <1>7, <1>8 DEF Continue, Proceed

LEMMA CallsLists ==
    ASSUME ListInv, NEW t \in Threads,
           \/ ProducerCalls(t) \/ ConsumerCalls(t)
           \/ \E id \in Ids : ReturnBuffer(t, id)
           \/ \E new \in 1..MaxQueueSize : Grow(t, new) \/ DecideShrink(t, new)
    PROVE  Lists' /\ NobodyAttaches'
<1> USE DEF ListInv
<1>1. ASSUME NEW need \in Capacities, NEW type \in MemTypes, RequestBuffer(t, need, type)
      PROVE  Lists' /\ NobodyAttaches'
  BY <1>1, ObtainLists, AttachingFrame DEF RequestBuffer
<1>2. ASSUME NEW need \in Capacities, NEW type \in MemTypes,
             NEW label \in {"enterTimed", "enterForever"}, RequestBlocks(t, need, type, label)
      PROVE  Lists' /\ NobodyAttaches'
  <2>1. need \in Nat
    BY SizesAssumption
  <2> QED BY <1>2, <2>1, ListsUnchanged, AttachingFrame DEF RequestBlocks
<1>3. ASSUME NEW type \in MemTypes, RequestRefused(t, type)
      PROVE  Lists' /\ NobodyAttaches'
  BY <1>3, ListsUnchanged, AttachingFrame DEF RequestRefused
<1>4. ASSUME NEW id \in Ids, NEW available \in BOOLEAN, PushBuffer(t, id, available)
      PROVE  Lists' /\ NobodyAttaches'
  BY <1>4, SectionListInv DEF PushBuffer
<1>5. CASE ConsumerCalls(t)
  <2>1. CASE AcquireBuffer(t)
    BY <2>1, AcquireLists, AttachingFrame DEF AcquireBuffer
  <2>2. CASE AcquireRefused(t)
    BY <2>2, ListsUnchanged, AttachingFrame DEF AcquireRefused, queueVars
  <2>3. ASSUME NEW id \in Ids, ReleaseBuffer(t, id) PROVE Lists' /\ NobodyAttaches'
    BY <2>3, SectionListInv DEF ReleaseBuffer, Release
  <2> QED BY <1>5, <2>1, <2>2, <2>3 DEF ConsumerCalls
<1>6. ASSUME NEW id \in Ids, ReturnBuffer(t, id) PROVE Lists' /\ NobodyAttaches'
  BY <1>6, SectionListInv DEF ReturnBuffer, CancelBuffer
<1>7. ASSUME NEW new \in 1..MaxQueueSize, Grow(t, new) \/ DecideShrink(t, new)
      PROVE  Lists' /\ NobodyAttaches'
  <2>1. new \in Nat
    BY SizesAssumption
  <2> QED BY <1>7, <2>1, ListsUnchanged, AttachingFrame DEF Grow, DecideShrink, queueVars
<1> QED BY <1>1, <1>2, <1>3, <1>4, <1>5, <1>6, <1>7 DEF ProducerCalls

\* freeBufferList_ holds exactly the RELEASED buffers and dirtyBufferList_ exactly the
\* RETURNED ones, each once, if the listener is there from the start or nobody attaches:
\* also when pushes fail for want of a listener and leave buffers with their clients.
THEOREM ListsAgree ==
    ASSUME ListenerFirst \/ Attachers = {}
    PROVE  Spec => []ListsMatchStates
<1>1. CASE ListenerFirst
  <2>1. IInv => ListsMatchStates
    BY DEF IInv, Ownership
  <2> QED BY <1>1, <2>1, InductiveInvariant, PTL
<1>2. CASE Attachers = {}
  <2>1. Init => ListInv
    <3> SUFFICES ASSUME Init PROVE ListInv
      OBVIOUS
    <3>1. Elements(<<>>) = {} /\ NoDuplicates(<<>>)
      BY DEF Elements, NoDuplicates
    <3>2. Lists
      BY <3>1 DEF Init, Lists, ListsMatchStates, MarkedIsOut, NoElement
    <3> QED BY <3>2, InitType DEF Init, ListInv, NobodyAttaches, NoCall
  <2>2. ListInv /\ [Next]_vars => ListInv'
    <3> SUFFICES ASSUME ListInv, [Next]_vars PROVE Lists' /\ NobodyAttaches'
      BY NextType DEF ListInv
    <3>1. ASSUME NEW t \in Threads, Continue(t) PROVE Lists' /\ NobodyAttaches'
      BY <3>1, ContinueLists
    <3>2. ASSUME NEW t \in Threads,
                 \/ ProducerCalls(t) \/ ConsumerCalls(t)
                 \/ \E id \in Ids : ReturnBuffer(t, id)
                 \/ \E new \in 1..MaxQueueSize : Grow(t, new) \/ DecideShrink(t, new)
          PROVE  Lists' /\ NobodyAttaches'
      BY <3>2, CallsLists
    <3>3. ASSUME NEW t \in Threads, SpuriousWakeup(t) PROVE Lists' /\ NobodyAttaches'
      BY <3>3, ListsUnchanged DEF ListInv, NobodyAttaches, SpuriousWakeup, queueVars
    <3>4. ASSUME SetConsumerListener PROVE Lists' /\ NobodyAttaches'
      BY <3>4, ListsUnchanged DEF ListInv, NobodyAttaches, SetConsumerListener, queueVars
    <3>5. ASSUME UNCHANGED vars PROVE Lists' /\ NobodyAttaches'
      BY <3>5, ListsUnchanged DEF ListInv, NobodyAttaches, vars, queueVars
    <3>6. /\ Producers \cup Brokers \subseteq Threads
          /\ Producers \subseteq Threads /\ Consumers \subseteq Threads
          /\ Resizers \subseteq Threads
      BY ThreadsAssumption DEF Threads
    <3>7. ASSUME Next PROVE Lists' /\ NobodyAttaches'
      BY <1>2, <3>1, <3>2, <3>3, <3>4, <3>6, <3>7, Zenon DEF Next
    <3> QED BY <3>5, <3>7
  <2>3. ListInv => ListsMatchStates
    BY SMTT(60) DEF ListInv, Lists
  <2> QED BY <2>1, <2>2, <2>3, PTL DEF Spec
<1> QED BY <1>1, <1>2

-----------------------------------------------------------------------------
(* No lost wake-up, with the listener or without.                          *)

\* A thread that has tested the list and still holds queueMutex_ found it
\* empty, and so it is when the thread goes to sleep.
TestedEmpty ==
    \A t \in Threads : call[t].at \in {"enterTimed", "enterForever"} => free = <<>>

SleepInv == TypeOK /\ NoSleepWhileIdle /\ TestedEmpty

\* The step of a thread that does not test the list in it.
LEMMA SleepFrame ==
    ASSUME SleepInv, NEW t \in Threads,
           \A s \in Threads : s # t => call'[s] = call[s],
           call'[t].at \notin {"enterTimed", "enterForever"} \/ free' = <<>>,
           \/ waitset' \subseteq waitset /\ (free = <<>> => free' = <<>>)
           \/ waitset' = {} /\ MutexFree
           \/ free' = <<>>
    PROVE  NoSleepWhileIdle' /\ TestedEmpty'
  BY DEF SleepInv, NoSleepWhileIdle, TestedEmpty, MutexFree

LEMMA OnlyCallOf ==
    ASSUME TypeOK, NEW t \in Threads,
           \/ UNCHANGED call \/ Return(t)
           \/ \E label \in Labels :
                 \/ Goto(t, label)
                 \/ \E id : call' = [call EXCEPT ![t].at = label, ![t].id = id]
                 \/ \E n : call' = [call EXCEPT ![t].at = label, ![t].size = n]
                 \/ \E id : call' = [call EXCEPT ![t].at = label, ![t].id = id,
                                                 ![t].attaching = TRUE]
    PROVE  \A s \in Threads : s # t => call'[s] = call[s]
  BY DEF TypeOK, Return, Goto

\* An empty list stays empty when buffers are taken from it.
LEMMA EmptyStaysEmpty ==
    ASSUME TypeOK, free = <<>>,
           \/ \E t \in Threads, need \in Capacities : \E type : Obtain(t, need, type)
           \/ \E count \in Nat : DropFromLists(count)
    PROVE  free' = <<>>
<1>1. DOMAIN free = {} /\ Len(free) = 0
  BY EmptySeq
<1>2. ASSUME NEW count \in Nat, DropFromLists(count) PROVE free' = <<>>
  <2>1. FreeDrop(count) = 0
    BY <1>1, <1>2 DEF FreeDrop, Lesser
  <2>2. free' = SubSeq(<<>>, 0 + 1, Len(<<>>))
    BY <1>2, <2>1 DEF DropFromLists
  <2> QED BY <2>2
<1> QED BY <1>1, <1>2 DEF Obtain, Reuse, AllocBuffer

\* A critical section that goes on to, or ends at, a step without the lock.
LEMMA SectionSleep ==
    ASSUME SleepInv, MutexFree, NEW t \in Threads, NEW id \in Ids,
           \/ DeleteMarked(t, id) \/ MakeIdle(t, id) \/ ReturnFilled(t, id)
           \/ \E available \in BOOLEAN : MarkPushed(t, id, available)
    PROVE  NoSleepWhileIdle' /\ TestedEmpty'
<1>1. TypeOK
  BY DEF SleepInv
<1>2. CASE MakeIdle(t, id)
  <2>1. call'[t].at = "notifyProducer" /\ waitset' = {}
    BY <1>1, <1>2, ZenonT(60) DEF TypeOK, Call, MakeIdle, NotifyAll, Goto
  <2>2. \A s \in Threads : s # t => call'[s] = call[s]
    BY <1>1, <1>2, OnlyCallOf, ZenonT(60) DEF MakeIdle, Labels
  <2> QED BY <2>1, <2>2, SleepFrame, ZenonT(60)
<1>3. CASE DeleteMarked(t, id)
  <2>1. call'[t].at = "idle"
    BY <1>1, <1>3 DEF TypeOK, DeleteMarked, Return, NoCall
  <2> QED BY <1>1, <1>3, <2>1, OnlyCallOf, SleepFrame DEF DeleteMarked
<1>4. CASE ReturnFilled(t, id)
  <2>1. call'[t].at = "notifyConsumer"
    BY <1>1, <1>4, ZenonT(60) DEF TypeOK, Call, ReturnFilled
  <2>2. \A s \in Threads : s # t => call'[s] = call[s]
    BY <1>1, <1>4, OnlyCallOf, ZenonT(60) DEF ReturnFilled, Labels
  <2> QED BY <1>4, <2>1, <2>2, SleepFrame, ZenonT(60) DEF ReturnFilled
<1>5. ASSUME NEW available \in BOOLEAN, MarkPushed(t, id, available)
      PROVE  NoSleepWhileIdle' /\ TestedEmpty'
  <2> DEFINE label == IF available THEN "pushed" ELSE "pushedCancel"
  <2>1. UNCHANGED <<free, waitset>> /\ call' = [call EXCEPT ![t].at = label, ![t].id = id]
    BY <1>5 DEF MarkPushed
  <2>2. label \in Labels \ {"enterTimed", "enterForever"}
    BY DEF Labels
  <2> HIDE DEF label
  <2>3. call'[t].at = label
    BY <1>1, <2>1 DEF TypeOK, Call
  <2> QED BY <1>1, <2>1, <2>2, <2>3, OnlyCallOf, SleepFrame
<1> QED BY <1>2, <1>3, <1>4, <1>5

\* A step that leaves freeBufferList_ alone, or an empty one empty.
LEMMA QuietSleep ==
    ASSUME SleepInv, NEW t \in Threads, waitset' \subseteq waitset, free = <<>> => free' = <<>>,
           \/ UNCHANGED call /\ UNCHANGED free
           \/ UNCHANGED call /\ MutexFree
           \/ Return(t)
           \/ \E label \in Labels \ {"enterTimed", "enterForever"} :
                 \/ Goto(t, label)
                 \/ \E n : call' = [call EXCEPT ![t].at = label, ![t].size = n]
    PROVE  NoSleepWhileIdle' /\ TestedEmpty'
<1>1. TypeOK
  BY DEF SleepInv
<1>2. CASE UNCHANGED call
  BY <1>2, SMTT(60) DEF SleepInv, NoSleepWhileIdle, TestedEmpty, MutexFree
<1>3. CASE Return(t)
  <2>1. call'[t].at = "idle"
    BY <1>1, <1>3, SMTT(60) DEF TypeOK, Return, NoCall
  <2> QED BY <1>1, <1>3, <2>1, OnlyCallOf, SleepFrame
<1>4. ASSUME NEW label \in Labels \ {"enterTimed", "enterForever"},
             \/ Goto(t, label)
             \/ \E n : call' = [call EXCEPT ![t].at = label, ![t].size = n]
      PROVE  NoSleepWhileIdle' /\ TestedEmpty'
  <2>1. call'[t].at = label
    BY <1>1, <1>4 DEF TypeOK, Call, Goto
  <2> QED BY <1>1, <1>4, <2>1, OnlyCallOf, SleepFrame
<1> QED BY <1>2, <1>3, <1>4

LEMMA ContinueSleep ==
    ASSUME SleepInv, NEW t \in Threads, Continue(t)
    PROVE  NoSleepWhileIdle' /\ TestedEmpty'
<1>1. TypeOK
  BY DEF SleepInv
<1>2. CASE EnterWait(t)
  <2>1. free' = <<>>
    BY <1>2, ZenonT(60) DEF SleepInv, TestedEmpty, EnterWait, queueVars
  <2>2. \A s \in Threads : s # t => call'[s] = call[s]
    BY <1>1, <1>2, OnlyCallOf, ZenonT(60) DEF EnterWait, Labels
  <2> QED BY <2>1, <2>2, SleepFrame, ZenonT(60)
<1>3. CASE WakeAndObtain(t)
  <2>1. call[t].size \in Capacities
    BY <1>1, <1>3 DEF WakeAndObtain, WaitEnds, TypeOK, Call
  <2>2. free = <<>> => free' = <<>>
    BY <1>1, <1>3, <2>1, EmptyStaysEmpty DEF WakeAndObtain
  <2> QED BY <1>3, <2>2, QuietSleep DEF WakeAndObtain
<1>4. CASE WakeAndSleep(t)
  <2>1. free' = <<>> /\ UNCHANGED call
    BY <1>4 DEF WakeAndSleep, NoBuffer, queueVars
  <2> QED BY <1>1, <2>1, OnlyCallOf, SleepFrame
<1>5. CASE Shrink(t)
  <2>1. free = <<>> => free' = <<>>
    BY <1>1, <1>5, ShrinkCountType, EmptyStaysEmpty DEF Shrink
  <2> QED BY <1>5, <2>1, QuietSleep DEF Shrink
<1>6. CASE PushReturns(t) \/ AttachGoesOn(t)
  <2>1. call[t].id \in Ids
    BY <1>1, <1>6 DEF PushReturns, AttachGoesOn, TypeOK, Call
  <2> QED BY <1>6, <2>1, SectionSleep DEF PushReturns, CancelBuffer, AttachGoesOn, Release
<1>7. CASE ReturnRefused(t) \/ NoConsumerListener(t)
  <2>1. Goto(t, "forceDetach") \/ Return(t)
    BY <1>7 DEF ReturnRefused, NoConsumerListener, Fail
  <2>2. "forceDetach" \in Labels \ {"enterTimed", "enterForever"}
    BY DEF Labels
  <2> QED BY <1>7, <2>1, <2>2, QuietSleep DEF ReturnRefused, NoConsumerListener, queueVars
<1>8. CASE WakeRefused(t) \/ (\E b \in Brokers : OnBufferFilled(t, b)) \/ NotifyConsumer(t)
           \/ NotifyProducer(t) \/ ForceDetach(t) \/ GrowNotifies(t)
  <2>1. Return(t) /\ UNCHANGED free /\ waitset' \subseteq waitset
    BY <1>8 DEF WakeRefused, OnBufferFilled, NotifyConsumer, NotifyProducer, ForceDetach,
       GrowNotifies, NotifyAll, queueVars
  <2> QED BY <2>1, QuietSleep
<1> QED BY <1>2, <1>3, <1>4, <1>5, <1>6, <1>7, <1>8 DEF Continue, Proceed

\* No wake-up is lost: with or without a listener, a thread never sleeps on
\* requestCondition, unwoken, while freeBufferList_ holds a buffer.
THEOREM NoLostWakeup == Spec => []NoSleepWhileIdle
<1>1. Init => SleepInv
  BY InitType DEF Init, SleepInv, NoSleepWhileIdle, TestedEmpty
<1>2. SleepInv /\ [Next]_vars => SleepInv'
  <2> SUFFICES ASSUME SleepInv, [Next]_vars PROVE NoSleepWhileIdle' /\ TestedEmpty'
    BY NextType DEF SleepInv
  <2> DEFINE Awake == NoSleepWhileIdle' /\ TestedEmpty'
  <2>1. ASSUME NEW t \in Threads, ProducerCalls(t) PROVE Awake
    <3>1. ASSUME NEW need \in Capacities, NEW type \in MemTypes, RequestBuffer(t, need, type)
          PROVE  Awake
      <4>1. free = <<>> => free' = <<>>
        BY <3>1, EmptyStaysEmpty DEF RequestBuffer, SleepInv
      <4> QED BY <3>1, <4>1, QuietSleep DEF RequestBuffer
    <3>2. ASSUME NEW need \in Capacities, NEW type \in MemTypes,
                 NEW label \in {"enterTimed", "enterForever"},
                 RequestBlocks(t, need, type, label)
          PROVE  Awake
      <4>1. free' = <<>>
        BY <3>2, ZenonT(60) DEF RequestBlocks, NoBuffer
      <4>2. \A s \in Threads : s # t => call'[s] = call[s]
        BY <3>2, OnlyCallOf, ZenonT(60) DEF RequestBlocks, SleepInv, Labels
      <4> QED BY <4>1, <4>2, SleepFrame, ZenonT(60)
    <3>3. ASSUME NEW type \in MemTypes, RequestRefused(t, type) PROVE Awake
      BY <3>3, QuietSleep DEF RequestRefused
    <3>4. ASSUME NEW id \in Ids, NEW available \in BOOLEAN, PushBuffer(t, id, available)
          PROVE  Awake
      BY <3>4, SectionSleep DEF PushBuffer
    <3> QED BY <2>1, <3>1, <3>2, <3>3, <3>4 DEF ProducerCalls
  <2>2. ASSUME NEW t \in Threads, ConsumerCalls(t) PROVE Awake
    <3>1. CASE AcquireBuffer(t) \/ AcquireRefused(t)
      BY <3>1, QuietSleep DEF AcquireBuffer, AcquireRefused, queueVars
    <3>2. ASSUME NEW id \in Ids, ReleaseBuffer(t, id) PROVE Awake
      BY <3>2, SectionSleep DEF ReleaseBuffer, Release
    <3> QED BY <2>2, <3>1, <3>2 DEF ConsumerCalls
  <2>3. ASSUME NEW t \in Threads, AttacherCalls(t) PROVE Awake
    <3>1. ASSUME NEW id \in Ids, NEW need \in Capacities, NEW type \in MemTypes,
                 NEW filled \in BOOLEAN, AttachBuffer(t, id, need, type, filled)
          PROVE  Awake
      <4> DEFINE label == IF filled THEN "attachPush" ELSE "attachRelease"
      <4>1. label \in Labels \ {"enterTimed", "enterForever"}
        BY DEF Labels
      <4>2. /\ UNCHANGED waitset
            /\ call' = [call EXCEPT ![t].at = label, ![t].id = id, ![t].attaching = TRUE]
        BY <3>1 DEF AttachBuffer
      <4> HIDE DEF label
      <4>3. call'[t].at = label
        BY <4>2, SMTT(60) DEF SleepInv, TypeOK, Call
      <4>4. free = <<>> => free' = <<>>
        BY <3>1, RoomNeededType, EmptyStaysEmpty, SMTT(60) DEF AttachBuffer, SleepInv
      <4>5. \A s \in Threads : s # t => call'[s] = call[s]
        BY <4>1, <4>2, OnlyCallOf DEF SleepInv
      <4> QED BY <4>1, <4>2, <4>3, <4>4, <4>5, SleepFrame
    <3>2. ASSUME NEW id \in Ids, DetachBuffer(t, id) PROVE Awake
      BY <3>2, QuietSleep DEF DetachBuffer
    <3> QED BY <2>3, <3>1, <3>2 DEF AttacherCalls
  <2>4. ASSUME NEW t \in Threads, NEW id \in Ids, ReturnBuffer(t, id) PROVE Awake
    BY <2>4, SectionSleep DEF ReturnBuffer, CancelBuffer
  <2>5. ASSUME NEW t \in Threads, NEW new, Grow(t, new) \/ DecideShrink(t, new) PROVE Awake
    BY <2>5, QuietSleep DEF Grow, DecideShrink, queueVars, Labels
  <2>6. ASSUME NEW t \in Threads, Continue(t) PROVE Awake
    BY <2>6, ContinueSleep
  <2>7. ASSUME UNCHANGED <<free, call>>, waitset' \subseteq waitset PROVE Awake
    BY <2>7 DEF SleepInv, NoSleepWhileIdle, TestedEmpty
  <2>8. ASSUME (\E t \in Threads : SpuriousWakeup(t)) \/ SetConsumerListener \/ UNCHANGED vars
        PROVE  Awake
    BY <2>7, <2>8 DEF SpuriousWakeup, SetConsumerListener, vars, queueVars
  <2>9. /\ Producers \cup Brokers \subseteq Threads
         /\ Producers \subseteq Threads /\ Consumers \subseteq Threads
         /\ Attachers \subseteq Threads /\ Resizers \subseteq Threads
    BY ThreadsAssumption DEF Threads
  <2>10. ASSUME Next PROVE Awake
    BY <2>1, <2>2, <2>3, <2>4, <2>5, <2>6, <2>8, <2>9, <2>10, Zenon DEF Next
  <2> QED BY <2>8, <2>10
<1>3. SleepInv => NoSleepWhileIdle
  BY DEF SleepInv
<1> QED BY <1>1, <1>2, <1>3, PTL DEF Spec
-----------------------------------------------------------------------------
(* No lost notification of the producer.                                   *)

NoticeInv == TypeOK /\ IdleIsAnnounced

\* The four ways of a step to keep a refused producer's notification coming.
LEMMA NoticeFrame ==
    ASSUME NoticeInv, NEW t \in Threads, \A s \in Threads : s # t => call'[s] = call[s],
           \/ free' = <<>>
           \/ producerTold' = TRUE
           \/ call'[t].at = "notifyProducer"
           \/ /\ free = <<>> => free' = <<>>
              /\ producerTold' = producerTold
              /\ call[t].at # "notifyProducer" \/ call' = call
    PROVE  IdleIsAnnounced'
  BY DEF NoticeInv, IdleIsAnnounced

LEMMA SectionNotice ==
    ASSUME NoticeInv, NEW t \in Threads, NEW id \in Ids, call[t].at # "notifyProducer",
           \/ DeleteMarked(t, id) \/ MakeIdle(t, id) \/ ReturnFilled(t, id)
           \/ \E available \in BOOLEAN : MarkPushed(t, id, available)
    PROVE  IdleIsAnnounced'
<1>1. TypeOK
  BY DEF NoticeInv
<1>2. CASE MakeIdle(t, id)
  <2>1. call'[t].at = "notifyProducer"
    BY <1>1, <1>2, ZenonT(60) DEF TypeOK, Call, MakeIdle, Goto
  <2>2. \A s \in Threads : s # t => call'[s] = call[s]
    BY <1>1, <1>2, OnlyCallOf, ZenonT(60) DEF MakeIdle, Labels
  <2> QED BY <2>1, <2>2, NoticeFrame, ZenonT(60)
<1>3. CASE DeleteMarked(t, id)
  BY <1>1, <1>3, OnlyCallOf, NoticeFrame, ZenonT(60) DEF DeleteMarked, signalVars
<1>4. CASE ReturnFilled(t, id)
  <2>1. \A s \in Threads : s # t => call'[s] = call[s]
    BY <1>1, <1>4, OnlyCallOf, ZenonT(60) DEF ReturnFilled, Labels
  <2> QED BY <1>4, <2>1, NoticeFrame, ZenonT(60) DEF ReturnFilled, signalVars
<1>5. ASSUME NEW available \in BOOLEAN, MarkPushed(t, id, available)
      PROVE  IdleIsAnnounced'
  <2>1. \A s \in Threads : s # t => call'[s] = call[s]
    BY <1>1, <1>5 DEF MarkPushed, TypeOK
  <2> QED BY <1>5, <2>1, NoticeFrame DEF MarkPushed, signalVars
<1> QED BY <1>2, <1>3, <1>4, <1>5

\* A step that leaves the lists alone, or takes buffers from them.
LEMMA QuietNotice ==
    ASSUME NoticeInv, NEW t \in Threads,
           free = <<>> => free' = <<>>,
           producerTold' = producerTold \/ free' = <<>>,
           \/ UNCHANGED call
           \/ call[t].at # "notifyProducer" /\ Return(t)
           \/ call[t].at # "notifyProducer" /\ \E label \in Labels :
                 \/ Goto(t, label)
                 \/ \E n : call' = [call EXCEPT ![t].at = label, ![t].size = n]
    PROVE  IdleIsAnnounced'
<1>1. \A s \in Threads : s # t => call'[s] = call[s]
  BY OnlyCallOf DEF NoticeInv
<1> QED BY <1>1, NoticeFrame

LEMMA ContinueNotice ==
    ASSUME NoticeInv, NEW t \in Threads, Continue(t)
    PROVE  IdleIsAnnounced'
<1>1. TypeOK
  BY DEF NoticeInv
<1>2. CASE EnterWait(t)
  BY <1>2, QuietNotice DEF EnterWait, queueVars, signalVars, Labels
<1>3. CASE WakeAndObtain(t)
  <2>1. call[t].size \in Capacities /\ call[t].at # "notifyProducer"
    BY <1>1, <1>3 DEF WakeAndObtain, WaitEnds, TypeOK, Call
  <2>2. free = <<>> => free' = <<>>
    BY <1>1, <1>3, <2>1, EmptyStaysEmpty DEF WakeAndObtain
  <2> QED BY <1>3, <2>1, <2>2, QuietNotice DEF WakeAndObtain, signalVars
<1>4. CASE WakeAndSleep(t)
  BY <1>4, QuietNotice DEF WakeAndSleep, queueVars, signalVars
<1>5. CASE WakeRefused(t)
  BY <1>5, QuietNotice DEF WakeRefused, WaitEnds, NoBuffer, queueVars
<1>6. CASE Shrink(t)
  <2>1. free = <<>> => free' = <<>>
    BY <1>1, <1>6, ShrinkCountType, EmptyStaysEmpty DEF Shrink
  <2> QED BY <1>6, <2>1, QuietNotice DEF Shrink, signalVars
<1>7. CASE PushReturns(t) \/ AttachGoesOn(t)
  <2>1. call[t].id \in Ids /\ call[t].at # "notifyProducer"
    BY <1>1, <1>7 DEF PushReturns, AttachGoesOn, TypeOK, Call
  <2> QED BY <1>7, <2>1, SectionNotice DEF PushReturns, CancelBuffer, AttachGoesOn, Release
<1>8. CASE ReturnRefused(t) \/ NoConsumerListener(t)
  <2>1. /\ Goto(t, "forceDetach") \/ Return(t)
        /\ call[t].at # "notifyProducer" /\ UNCHANGED <<free, producerTold>>
    BY <1>8, SMTT(60) DEF ReturnRefused, NoConsumerListener, Fail, queueVars, signalVars
  <2> QED BY <2>1, QuietNotice DEF Labels
<1>9. CASE NotifyProducer(t)
  BY <1>1, <1>9, OnlyCallOf, NoticeFrame DEF NotifyProducer
<1>10. CASE (\E b \in Brokers : OnBufferFilled(t, b)) \/ NotifyConsumer(t)
            \/ ForceDetach(t) \/ GrowNotifies(t)
  <2>1. /\ Return(t) /\ UNCHANGED <<free, producerTold>>
        /\ call[t].at # "notifyProducer"
    BY <1>10 DEF OnBufferFilled, NotifyConsumer, ForceDetach, GrowNotifies, queueVars, signalVars
  <2> QED BY <2>1, QuietNotice
<1> QED BY <1>2, <1>3, <1>4, <1>5, <1>6, <1>7, <1>8, <1>9, <1>10 DEF Continue, Proceed

\* No notification of the producer is lost, with or without a consumer's listener: if a
\* request was refused since the last OnBufferAvailable and a buffer is idle, then a
\* thread is about to call the producer's listener.
THEOREM RefusedIsTold == Spec => []IdleIsAnnounced
<1>1. Init => NoticeInv
  BY InitType DEF Init, NoticeInv, IdleIsAnnounced
<1>2. NoticeInv /\ [Next]_vars => NoticeInv'
  <2> SUFFICES ASSUME NoticeInv, [Next]_vars PROVE IdleIsAnnounced'
    BY NextType DEF NoticeInv
  <2>1. ASSUME NEW t \in Threads, ProducerCalls(t) PROVE IdleIsAnnounced'
    <3>1. ASSUME NEW need \in Capacities, NEW type \in MemTypes, RequestBuffer(t, need, type)
          PROVE  IdleIsAnnounced'
      <4>1. free = <<>> => free' = <<>>
        BY <3>1, EmptyStaysEmpty, SMTT(60) DEF RequestBuffer, NoticeInv
      <4> QED BY <3>1, <4>1, QuietNotice DEF RequestBuffer, signalVars
    <3>2. ASSUME NEW need \in Capacities, NEW type \in MemTypes,
                 NEW label \in {"enterTimed", "enterForever"},
                 RequestBlocks(t, need, type, label)
          PROVE  IdleIsAnnounced'
      BY <3>2, QuietNotice DEF RequestBlocks, Idle, signalVars, Labels
    <3>3. ASSUME NEW type \in MemTypes, RequestRefused(t, type) PROVE IdleIsAnnounced'
      BY <3>3, QuietNotice DEF RequestRefused, NoBuffer
    <3>4. ASSUME NEW id \in Ids, NEW available \in BOOLEAN, PushBuffer(t, id, available)
          PROVE  IdleIsAnnounced'
      BY <3>4, SectionNotice DEF PushBuffer, Idle
    <3> QED BY <2>1, <3>1, <3>2, <3>3, <3>4 DEF ProducerCalls
  <2>2. ASSUME NEW t \in Threads, ConsumerCalls(t) PROVE IdleIsAnnounced'
    <3>1. CASE AcquireBuffer(t) \/ AcquireRefused(t)
      BY <3>1, QuietNotice DEF AcquireBuffer, AcquireRefused, queueVars
    <3>2. ASSUME NEW id \in Ids, ReleaseBuffer(t, id) PROVE IdleIsAnnounced'
      BY <3>2, SectionNotice DEF ReleaseBuffer, Release, Idle
    <3> QED BY <2>2, <3>1, <3>2 DEF ConsumerCalls
  <2>3. ASSUME NEW t \in Threads, AttacherCalls(t) PROVE IdleIsAnnounced'
    <3>1. ASSUME NEW id \in Ids, NEW need \in Capacities, NEW type \in MemTypes,
                 NEW filled \in BOOLEAN, AttachBuffer(t, id, need, type, filled)
          PROVE  IdleIsAnnounced'
      <4>1. \A s \in Threads : s # t => call'[s] = call[s]
        BY <3>1 DEF AttachBuffer, NoticeInv, TypeOK
      <4>2. free = <<>> => free' = <<>>
        BY <3>1, RoomNeededType, EmptyStaysEmpty DEF AttachBuffer, NoticeInv
      <4>3. call[t].at # "notifyProducer" /\ producerTold' = producerTold
        BY <3>1 DEF AttachBuffer, Idle, signalVars
      <4> QED BY <4>1, <4>2, <4>3, NoticeFrame
    <3>2. ASSUME NEW id \in Ids, DetachBuffer(t, id) PROVE IdleIsAnnounced'
      BY <3>2, QuietNotice DEF DetachBuffer, signalVars
    <3> QED BY <2>3, <3>1, <3>2 DEF AttacherCalls
  <2>4. ASSUME NEW t \in Threads, NEW id \in Ids, ReturnBuffer(t, id) PROVE IdleIsAnnounced'
    BY <2>4, SectionNotice DEF ReturnBuffer, CancelBuffer, Idle
  <2>5. ASSUME NEW t \in Threads, NEW new, Grow(t, new) \/ DecideShrink(t, new)
        PROVE  IdleIsAnnounced'
    BY <2>5, QuietNotice DEF Grow, DecideShrink, Idle, queueVars, signalVars, Labels
  <2>6. ASSUME NEW t \in Threads, Continue(t) PROVE IdleIsAnnounced'
    BY <2>6, ContinueNotice
  <2>7. ASSUME (\E t \in Threads : SpuriousWakeup(t)) \/ SetConsumerListener \/ UNCHANGED vars
        PROVE  IdleIsAnnounced'
    <3>1. UNCHANGED <<free, call, producerTold>>
      BY <2>7 DEF SpuriousWakeup, SetConsumerListener, vars, queueVars, signalVars
    <3> QED BY <3>1 DEF NoticeInv, IdleIsAnnounced
  <2>8. /\ Producers \cup Brokers \subseteq Threads
        /\ Producers \subseteq Threads /\ Consumers \subseteq Threads
        /\ Attachers \subseteq Threads /\ Resizers \subseteq Threads
    BY ThreadsAssumption DEF Threads
  <2>9. ASSUME Next PROVE IdleIsAnnounced'
    BY <2>1, <2>2, <2>3, <2>4, <2>5, <2>6, <2>7, <2>8, <2>9, Zenon DEF Next
  <2> QED BY <2>7, <2>9
<1>3. NoticeInv => IdleIsAnnounced
  BY DEF NoticeInv
<1> QED BY <1>1, <1>2, <1>3, PTL DEF Spec
-----------------------------------------------------------------------------
(* SetQueueSize.                                                           *)

\* The buffers a list gives up are as many as its positions at most.
LEMMA ImageBound ==
    ASSUME NEW list, NEW n \in Nat
    PROVE  /\ IsFiniteSet({list[i] : i \in 1..n})
           /\ Cardinality({list[i] : i \in 1..n}) <= n
<1> DEFINE S == {list[i] : i \in 1..n}
           f == [i \in 1..n |-> list[i]]
<1>1. f \in Surjection(1..n, S)
  BY DEF Surjection
<1>2. IsFiniteSet(1..n) /\ Cardinality(1..n) = n
  BY FS_Interval
<1> HIDE DEF f, S
<1>3. IsFiniteSet(S) /\ Cardinality(S) <= Cardinality(1..n)
  BY <1>1, <1>2, FS_Surjection
<1> QED BY <1>2, <1>3 DEF S

\* DeleteBuffers(count) takes at most count buffers out of the cache.
LEMMA DeletesAtMost ==
    ASSUME TypeOK, NEW count \in Nat, cache' = CacheWithout(count)
    PROVE  Cardinality(Cached) - Cardinality(Cached') <= count
<1> DEFINE F == FreeDrop(count)
           D == DirtyDrop(count)
           freeVictims == {free[i] : i \in 1..F}
           dirtyVictims == {dirty[i] : i \in 1..D}
           lost == Victims(count)
<1>1. F \in Nat /\ D \in Nat /\ F + D <= count
  <2>1. Len(free) \in Nat /\ Len(dirty) \in Nat
    BY LenProperties DEF TypeOK
  <2>2. F \in Nat /\ F <= count /\ count - F \in Nat
    BY <2>1 DEF FreeDrop, Lesser
  <2>3. D = Lesser(count - F, Len(dirty))
    BY DEF DirtyDrop
  <2> HIDE DEF F, D
  <2> QED BY <2>1, <2>2, <2>3 DEF Lesser
<1>2. lost = freeVictims \cup dirtyVictims
  BY DEF Victims
<1> HIDE DEF F, D, lost
<1>3. /\ IsFiniteSet(freeVictims) /\ Cardinality(freeVictims) <= F
      /\ IsFiniteSet(dirtyVictims) /\ Cardinality(dirtyVictims) <= D
  BY <1>1, ImageBound
<1> HIDE DEF freeVictims, dirtyVictims
<1>4. IsFiniteSet(lost) /\ Cardinality(lost) \in Nat /\ Cardinality(lost) <= count
  <2>1. /\ IsFiniteSet(freeVictims \cup dirtyVictims)
        /\ Cardinality(freeVictims \cup dirtyVictims)
              = Cardinality(freeVictims) + Cardinality(dirtyVictims)
                - Cardinality(freeVictims \cap dirtyVictims)
    BY <1>3, FS_Union
  <2>2. freeVictims \cap dirtyVictims \in SUBSET freeVictims
    OBVIOUS
  <2>3. /\ Cardinality(freeVictims) \in Nat /\ Cardinality(dirtyVictims) \in Nat
        /\ Cardinality(freeVictims \cap dirtyVictims) \in Nat
        /\ Cardinality(freeVictims \cup dirtyVictims) \in Nat
    BY <1>3, <2>1, <2>2, FS_Subset, FS_CardinalityType
  <2> QED BY <1>1, <1>2, <1>3, <2>1, <2>3
<1>5. Cached \subseteq Cached' \cup lost
  <2> SUFFICES ASSUME NEW id \in Cached, id \notin lost PROVE id \in Cached'
    OBVIOUS
  <2>1. id \in Ids /\ cache[id] \in Element /\ cache[id].state # "ABSENT"
    BY DEF Cached, TypeOK
  <2>2. cache'[id] = [cache[id] EXCEPT !.isDeleting = @ \/ id \in Marked(count)]
    BY <2>1 DEF CacheWithout, lost
  <2>3. cache'[id].state = cache[id].state
    BY <2>1, <2>2 DEF Element
  <2> QED BY <2>1, <2>3 DEF Cached
<1>6. IsFiniteSet(Cached) /\ IsFiniteSet(Cached')
  <2>1. Cached \in SUBSET Ids /\ Cached' \in SUBSET Ids
    BY DEF Cached
  <2> QED BY <2>1, IdsAssumption, FS_Subset
<1> DEFINE C == Cached
           N == Cached'
<1> HIDE DEF C, N
<1>7. IsFiniteSet(C) /\ IsFiniteSet(N) /\ C \subseteq N \cup lost
  BY <1>5, <1>6 DEF C, N
<1>8. /\ IsFiniteSet(N \cup lost)
      /\ Cardinality(N \cup lost) = Cardinality(N) + Cardinality(lost) - Cardinality(N \cap lost)
      /\ Cardinality(C) <= Cardinality(N \cup lost)
      /\ Cardinality(C) \in Nat /\ Cardinality(N) \in Nat /\ Cardinality(N \cap lost) \in Nat
  <2>1. N \cap lost \in SUBSET N
    OBVIOUS
  <2>2. /\ IsFiniteSet(N \cup lost)
        /\ Cardinality(N \cup lost) = Cardinality(N) + Cardinality(lost) - Cardinality(N \cap lost)
    BY <1>4, <1>7, FS_Union
  <2> QED BY <1>7, <2>1, <2>2, FS_Subset, FS_CardinalityType
<1>9. Cardinality(C) - Cardinality(N) <= count
  BY <1>4, <1>8, SMTT(60)
<1> QED BY <1>9 DEF C, N

\* size_ is compared and written without the lock: only while one thread at a time calls
\* SetQueueSize is the new size still the lesser one when the buffers are deleted.
ShrinkIsLess ==
    \A t \in Threads : call[t].at = "shrink" => t \in Resizers /\ call[t].size < size

ResizeInv == TypeOK /\ ShrinkIsLess

DeletesItsExcess ==
    size' # size =>
        Cardinality(Cached) - Cardinality(Cached') <= IF size' < size THEN size - size' ELSE 0

LEMMA ResizeFrame ==
    ASSUME ResizeInv, size' = size, NEW t \in Threads,
           \/ UNCHANGED call \/ Return(t)
           \/ \E label \in Labels \ {"shrink"} :
                 \/ Goto(t, label)
                 \/ \E id : call' = [call EXCEPT ![t].at = label, ![t].id = id]
                 \/ \E n : call' = [call EXCEPT ![t].at = label, ![t].size = n]
                 \/ \E id : call' = [call EXCEPT ![t].at = label, ![t].id = id,
                                                 ![t].attaching = TRUE]
    PROVE  ShrinkIsLess'
<1>t. TypeOK
  BY ZenonT(60) DEF ResizeInv
<1>1. \A s \in Threads : s # t => call'[s] = call[s]
  BY <1>t, OnlyCallOf, ZenonT(60)
<1>2. CASE UNCHANGED call
  BY <1>2, SMTT(60) DEF ResizeInv, ShrinkIsLess
<1>3. CASE Return(t)
  <2>1. call'[t].at = "idle"
    BY <1>t, <1>3, SMTT(60) DEF TypeOK, Return, NoCall
  <2> QED BY <1>1, <2>1, ZenonT(60) DEF ResizeInv, ShrinkIsLess
<1>4. ASSUME NEW label \in Labels \ {"shrink"},
             \/ Goto(t, label)
             \/ \E id : call' = [call EXCEPT ![t].at = label, ![t].id = id]
             \/ \E n : call' = [call EXCEPT ![t].at = label, ![t].size = n]
             \/ \E id : call' = [call EXCEPT ![t].at = label, ![t].id = id, ![t].attaching = TRUE]
      PROVE  ShrinkIsLess'
  <2>1. call'[t].at = label
    <3>1. call \in [Threads -> Call] /\ DOMAIN call[t] = {"at", "id", "size", "attaching"}
      BY <1>t DEF TypeOK, Call
    <3>2. CASE Goto(t, label)
      BY <3>1, <3>2 DEF Goto
    <3>5. CASE \E n : call' = [call EXCEPT ![t].at = label, ![t].size = n]
      BY <3>1, <3>5, ZenonT(60)
    <3>3. CASE \E id : call' = [call EXCEPT ![t].at = label, ![t].id = id]
      BY <3>1, <3>3, ZenonT(60)
    <3>4. CASE \E id : call' = [call EXCEPT ![t].at = label, ![t].id = id, ![t].attaching = TRUE]
      BY <3>1, <3>4, ZenonT(60)
    <3> QED BY <1>4, <3>2, <3>3, <3>4, <3>5, ZenonT(60)
  <2> QED BY <1>1, <2>1, ZenonT(60) DEF ResizeInv, ShrinkIsLess
<1> QED BY <1>2, <1>3, <1>4, ZenonT(60)

LEMMA SectionResize ==
    ASSUME ResizeInv, NEW t \in Threads, NEW id \in Ids,
           \/ DeleteMarked(t, id) \/ MakeIdle(t, id) \/ ReturnFilled(t, id)
           \/ \E available \in BOOLEAN : MarkPushed(t, id, available)
    PROVE  ShrinkIsLess' /\ size' = size
<1>1. CASE MakeIdle(t, id)
  BY <1>1, ResizeFrame, ZenonT(60) DEF MakeIdle, Labels
<1>2. CASE DeleteMarked(t, id)
  BY <1>2, ResizeFrame DEF DeleteMarked
<1>3. CASE ReturnFilled(t, id)
  BY <1>3, ResizeFrame DEF ReturnFilled, Labels
<1>4. ASSUME NEW available \in BOOLEAN, MarkPushed(t, id, available)
      PROVE  ShrinkIsLess' /\ size' = size
  <2> DEFINE label == IF available THEN "pushed" ELSE "pushedCancel"
  <2>1. size' = size /\ call' = [call EXCEPT ![t].at = label, ![t].id = id]
    BY <1>4 DEF MarkPushed
  <2>2. label \in Labels \ {"shrink"}
    BY DEF Labels
  <2> HIDE DEF label
  <2> QED BY <2>1, <2>2, ResizeFrame
<1> QED BY <1>1, <1>2, <1>3, <1>4

LEMMA ContinueResize ==
    ASSUME ResizeInv, NEW t \in Threads, Continue(t), \A r, s \in Resizers : r = s
    PROVE  ShrinkIsLess' /\ DeletesItsExcess
<1>t. TypeOK /\ ShrinkIsLess
  BY DEF ResizeInv
<1>1. CASE Shrink(t)
  <2> DEFINE n == call[t].size
  <2>1. /\ call[t].at = "shrink" /\ t \in Resizers /\ n \in Nat /\ size \in Nat /\ n < size
        /\ size < UintRange /\ UintRange \in Nat
    BY <1>t, <1>1, SizesAssumption DEF Shrink, ShrinkIsLess, TypeOK, Call
  <2>2. size' = n /\ cache' = CacheWithout(ShrinkCount(t)) /\ Return(t)
    BY <1>1 DEF Shrink
  <2>3. ShrinkCount(t) = size - n
    BY <2>1 DEF ShrinkCount
  <2>4. size - n \in Nat
    BY <2>1
  <2>5. Cardinality(Cached) - Cardinality(Cached') <= size - n
    BY <1>t, <2>2, <2>3, <2>4, DeletesAtMost
  <2>6. DeletesItsExcess
    BY <2>1, <2>2, <2>5 DEF DeletesItsExcess
  <2>7. ShrinkIsLess'
    <3>1. call'[t].at = "idle"
      BY <1>t, <2>2, SMTT(60) DEF TypeOK, Return, NoCall
    <3>2. \A s \in Threads : s # t => call'[s] = call[s]
      BY <1>t, <2>2, OnlyCallOf, ZenonT(60)
    <3> QED BY <1>t, <2>1, <3>1, <3>2 DEF ShrinkIsLess
  <2> QED BY <2>6, <2>7
<1>2. ASSUME size' = size PROVE DeletesItsExcess
  BY <1>2, SMTT(60) DEF DeletesItsExcess
<1>3. CASE EnterWait(t)
  BY <1>2, <1>3, ResizeFrame, ZenonT(60) DEF EnterWait, queueVars, Labels
<1>4. CASE WakeAndObtain(t) \/ WakeRefused(t) \/ WakeAndSleep(t)
  BY <1>2, <1>4, ResizeFrame DEF WakeAndObtain, WakeRefused, WakeAndSleep, queueVars
<1>5. CASE PushReturns(t) \/ AttachGoesOn(t)
  <2>1. call[t].id \in Ids
    BY <1>t, <1>5 DEF PushReturns, AttachGoesOn, TypeOK, Call
  <2> QED BY <1>2, <1>5, <2>1, SectionResize DEF PushReturns, CancelBuffer, AttachGoesOn, Release
<1>6. CASE ReturnRefused(t) \/ NoConsumerListener(t)
  <2>1. (Goto(t, "forceDetach") \/ Return(t)) /\ size' = size
    BY <1>6, SMTT(60) DEF ReturnRefused, NoConsumerListener, Fail, queueVars
  <2> QED BY <1>2, <2>1, ResizeFrame DEF Labels
<1>7. CASE (\E b \in Brokers : OnBufferFilled(t, b)) \/ NotifyConsumer(t) \/ NotifyProducer(t)
           \/ ForceDetach(t) \/ GrowNotifies(t)
  <2>1. Return(t) /\ size' = size
    BY <1>7 DEF OnBufferFilled, NotifyConsumer, NotifyProducer, ForceDetach, GrowNotifies, queueVars
  <2> QED BY <1>2, <2>1, ResizeFrame
<1> QED BY <1>1, <1>3, <1>4, <1>5, <1>6, <1>7 DEF Continue, Proceed

\* As long as one thread only calls SetQueueSize, no change of the size deletes more
\* buffers than it takes off the size: the unsigned difference does not wrap around.
THEOREM ResizeIsBounded ==
    ASSUME \A r, s \in Resizers : r = s
    PROVE  Spec => ResizeDeletesAtMostItsExcess
<1>1. Init => ResizeInv
  BY InitType DEF Init, ResizeInv, ShrinkIsLess, NoCall
<1>2. ResizeInv /\ [Next]_vars => ResizeInv' /\ DeletesItsExcess
  <2> SUFFICES ASSUME ResizeInv, [Next]_vars PROVE ShrinkIsLess' /\ DeletesItsExcess
    BY NextType DEF ResizeInv
  <2> DEFINE Safe == ShrinkIsLess' /\ DeletesItsExcess
  <2>0. ASSUME ShrinkIsLess', size' = size PROVE Safe
    BY <2>0 DEF DeletesItsExcess
  <2>1. ASSUME NEW t \in Threads, ProducerCalls(t) PROVE Safe
    <3>1. ASSUME NEW need \in Capacities, NEW type \in MemTypes, RequestBuffer(t, need, type)
          PROVE  Safe
      BY <2>0, <3>1, ResizeFrame DEF RequestBuffer
    <3>2. ASSUME NEW need \in Capacities, NEW type \in MemTypes,
                 NEW label \in {"enterTimed", "enterForever"},
                 RequestBlocks(t, need, type, label)
          PROVE  Safe
      BY <2>0, <3>2, ResizeFrame DEF RequestBlocks, Labels
    <3>3. ASSUME NEW type \in MemTypes, RequestRefused(t, type) PROVE Safe
      BY <2>0, <3>3, ResizeFrame DEF RequestRefused
    <3>4. ASSUME NEW id \in Ids, NEW available \in BOOLEAN, PushBuffer(t, id, available)
          PROVE  Safe
      BY <2>0, <3>4, SectionResize, SMTT(60) DEF PushBuffer
    <3> QED BY <2>1, <3>1, <3>2, <3>3, <3>4 DEF ProducerCalls
  <2>2. ASSUME NEW t \in Threads, ConsumerCalls(t) PROVE Safe
    <3>1. CASE AcquireBuffer(t) \/ AcquireRefused(t)
      BY <2>0, <3>1, ResizeFrame DEF AcquireBuffer, AcquireRefused, queueVars
    <3>2. ASSUME NEW id \in Ids, ReleaseBuffer(t, id) PROVE Safe
      BY <2>0, <3>2, SectionResize DEF ReleaseBuffer, Release
    <3> QED BY <2>2, <3>1, <3>2, SMTT(60) DEF ConsumerCalls
  <2>3. ASSUME NEW t \in Threads, AttacherCalls(t) PROVE Safe
    <3>1. ASSUME NEW id \in Ids, NEW need \in Capacities, NEW type \in MemTypes,
                 NEW filled \in BOOLEAN, AttachBuffer(t, id, need, type, filled)
          PROVE  Safe
      <4> DEFINE label == IF filled THEN "attachPush" ELSE "attachRelease"
      <4>1. label \in Labels \ {"shrink"}
        BY DEF Labels
      <4>2. /\ size' = size
            /\ call' = [call EXCEPT ![t].at = label, ![t].id = id, ![t].attaching = TRUE]
        BY <3>1 DEF AttachBuffer
      <4> HIDE DEF label
      <4> QED BY <2>0, <4>1, <4>2, ResizeFrame
    <3>2. ASSUME NEW id \in Ids, DetachBuffer(t, id) PROVE Safe
      BY <2>0, <3>2, ResizeFrame DEF DetachBuffer
    <3> QED BY <2>3, <3>1, <3>2, SMTT(60) DEF AttacherCalls
  <2>4. ASSUME NEW t \in Threads, NEW id \in Ids, ReturnBuffer(t, id) PROVE Safe
    BY <2>0, <2>4, SectionResize DEF ReturnBuffer, CancelBuffer
  <2>5. ASSUME NEW t \in Resizers, t \in Threads, NEW new \in 1..MaxQueueSize, Grow(t, new)
        PROVE  Safe
    <3>1. new \in Nat /\ size \in Nat /\ new > size /\ size' = new /\ cache' = cache /\ Idle(t)
      BY <2>5, SizesAssumption DEF Grow, ResizeInv, TypeOK
    <3>2. \A s \in Threads : call[s].at # "shrink"
      BY <2>5, <3>1 DEF Idle, ResizeInv, ShrinkIsLess
    <3>3. \A s \in Threads : call'[s].at # "shrink"
      <4>1. UNCHANGED call \/ Goto(t, "grown")
        BY <2>5 DEF Grow
      <4>2. Goto(t, "grown") => call'[t].at = "grown" /\ \A s \in Threads : s # t => call'[s] = call[s]
        BY <2>5 DEF Goto, ResizeInv, TypeOK, Call
      <4> QED BY <3>2, <4>1, <4>2
    <3>4. IsFiniteSet(Cached) /\ Cached' = Cached
      BY <3>1, CachedFinite DEF Cached
    <3>5. Cardinality(Cached) - Cardinality(Cached') = 0
      BY <3>4, FS_CardinalityType
    <3>6. ~(size' < size)
      BY <3>1
    <3> QED BY <3>3, <3>5, <3>6 DEF ShrinkIsLess, DeletesItsExcess
  <2>6. ASSUME NEW t \in Resizers, t \in Threads, NEW new \in 1..MaxQueueSize, DecideShrink(t, new)
        PROVE  Safe
    <3>1. /\ new < size /\ size' = size /\ \A s \in Threads : s # t => call'[s] = call[s]
          /\ call'[t].size = new
      BY <2>6 DEF DecideShrink, queueVars, ResizeInv, TypeOK, Call
    <3> QED BY <2>0, <2>6, <3>1 DEF ResizeInv, ShrinkIsLess
  <2>7. ASSUME NEW t \in Threads, Continue(t) PROVE Safe
    BY <2>7, ContinueResize
  <2>8. ASSUME (\E t \in Threads : SpuriousWakeup(t)) \/ SetConsumerListener \/ UNCHANGED vars
        PROVE  Safe
    <3>1. UNCHANGED <<size, call>>
      BY <2>8 DEF SpuriousWakeup, SetConsumerListener, vars, queueVars
    <3> QED BY <2>0, <3>1 DEF ResizeInv, ShrinkIsLess
  <2>9. /\ Producers \cup Brokers \subseteq Threads
        /\ Producers \subseteq Threads /\ Consumers \subseteq Threads
        /\ Attachers \subseteq Threads /\ Resizers \subseteq Threads
    BY ThreadsAssumption DEF Threads
  <2>10. ASSUME Next PROVE Safe
    BY <2>1, <2>2, <2>3, <2>4, <2>5, <2>6, <2>7, <2>8, <2>9, <2>10, Zenon DEF Next
  <2> QED BY <2>8, <2>10
<1>3. ResizeInv /\ [Next]_vars => ResizeInv'
  BY <1>2
<1>4. ResizeInv /\ [Next]_vars => [DeletesItsExcess]_vars
  BY <1>2
<1>5. [DeletesItsExcess]_vars =>
          [size' # size =>
              Cardinality(Cached) - Cardinality(Cached') <= IF size' < size THEN size - size' ELSE 0]_vars
  BY DEF DeletesItsExcess
<1> QED BY <1>1, <1>3, <1>4, <1>5, PTL DEF Spec, ResizeDeletesAtMostItsExcess

-----------------------------------------------------------------------------
(* AVBufferQueue implements BufferHandoff, when the consumer's listener is *)
(* installed before the first push.                                        *)

\* The step the queue takes as its promise sees it.
Promised == [Handoff!Next]_(Handoff!vars)

LEMMA WholeList ==
    ASSUME NEW S, NEW s \in Seq(S)
    PROVE  SubSeq(s, 0 + 1, Len(s)) = s /\ Len(s) \in Nat
<1>1. Len(s) \in Nat /\ 0 + 1 = 1
  BY LenProperties
<1> QED BY <1>1

\* A buffer that is nowhere is one the promise may create.
LEMMA NowhereIsUnused ==
    ASSUME TypeOK, Ownership, NEW id \in Ids, cache[id].state = "ABSENT",
           \A t \in Threads : id \notin held[t]
    PROVE  id \in Handoff!Unused
<1>1. id \notin Elements(free) /\ id \notin Elements(dirty)
  BY Places
<1> QED BY <1>1 DEF Handoff!Unused, Handoff!ToSet, Elements

LEMMA LendPromised ==
    ASSUME TypeOK, Ownership, NEW t \in Threads, NEW id \in Ids,
           id \in Elements(free) \cup Handoff!Unused \cup held[t],
           Hand(t, id), Elements(free)' \subseteq Elements(free) \ {id},
           \E n \in 0..Len(dirty) : dirty' = SubSeq(dirty, n + 1, Len(dirty))
    PROVE  Promised
<1> DEFINE stay == Elements(free)'
<1>1. stay \in SUBSET Ids /\ id \notin stay
  BY Places
<1>2. Elements(free)' = Elements(free) \cap stay
  OBVIOUS
<1> HIDE DEF stay
<1>3. Handoff!Shrink(stay)
  BY <1>2 DEF Handoff!Shrink
<1>4. Handoff!Lend(t, id)
  BY <1>1, <1>3 DEF Handoff!Lend, Hand
<1> QED BY <1>4 DEF Promised, Handoff!Next

LEMMA ObtainPromised ==
    ASSUME TypeOK, Ownership, NEW t \in Threads, NEW need \in Capacities,
           NEW type \in MemTypes \cup {UnknownMemory}, Obtain(t, need, type)
    PROVE  Promised
<1>1. dirty' = dirty /\ \E n \in 0..Len(dirty) : dirty' = SubSeq(dirty, n + 1, Len(dirty))
  <2>1. dirty' = dirty
    BY DEF Obtain, Reuse, AllocBuffer
  <2>2. SubSeq(dirty, 0 + 1, Len(dirty)) = dirty /\ 0 \in 0..Len(dirty)
    BY WholeList DEF TypeOK
  <2> QED BY <2>1, <2>2
<1>2. ASSUME NEW new \in Fresh, Hand(t, new), Elements(free)' \subseteq Elements(free)
      PROVE  Promised
  <2>1. /\ new \in Ids /\ cache[new].state = "ABSENT" /\ \A s \in Threads : new \notin held[s]
    BY DEF Fresh
  <2>2. new \in Handoff!Unused /\ new \notin Elements(free)
    BY <2>1, NowhereIsUnused, Places
  <2> QED BY <1>1, <1>2, <2>1, <2>2, LendPromised
<1>3. CASE Reuse(t, need, type)
  <2>1. PICK i \in DOMAIN free :
           /\ free' = RemoveAt(free, i)
           /\ LendIdle(t, free[i], need) \/ Replace(t, free[i], need, type) \/ Lose(free[i], need)
    BY <1>3 DEF Reuse
  <2> DEFINE id == free[i]
  <2>2. id \in Ids /\ id \in Elements(free) /\ Elements(free)' = Elements(free) \ {id}
    <3>1. id \in Elements(free)
      BY DEF Elements
    <3>2. id \in Ids /\ Elements(free)' = Elements(free) \ {id}
      BY <2>1, RemoveAtElements DEF TypeOK, Ownership, ListsMatchStates
    <3> QED BY <3>1, <3>2
  <2> HIDE DEF id
  <2>3. CASE LendIdle(t, id, need)
    BY <1>1, <2>2, <2>3, LendPromised DEF LendIdle
  <2>4. CASE Replace(t, id, need, type)
    BY <1>2, <2>2, <2>4 DEF Replace
  <2>5. CASE Lose(id, need)
    <3>1. Handoff!Shrink(Elements(free)') /\ Elements(free)' \in SUBSET Ids
      BY <1>1, <2>2, Places DEF Handoff!Shrink
    <3> QED BY <2>5, <3>1 DEF Promised, Handoff!Next, Handoff!Discard, Lose
  <2> QED BY <2>1, <2>3, <2>4, <2>5 DEF id
<1>4. CASE AllocBuffer(t, need, type)
  <2>1. Elements(free)' = Elements(free)
    BY <1>4 DEF AllocBuffer, Elements
  <2>2. CASE UNCHANGED held
    BY <1>1, <2>1, <2>2 DEF Promised, Handoff!vars
  <2> QED BY <1>2, <1>4, <2>1, <2>2 DEF AllocBuffer
<1> QED BY <1>3, <1>4 DEF Obtain

\* What the promise sees of a critical section on a buffer in the thread's
\* hands.
LEMMA SectionPromised ==
    ASSUME TypeOK, Ownership, NEW t \in Threads, NEW id \in held[t],
           \/ DeleteMarked(t, id) \/ MakeIdle(t, id) \/ ReturnFilled(t, id)
           \/ \E available \in BOOLEAN : MarkPushed(t, id, available)
    PROVE  Promised
<1>1. id \in Ids
  BY Places
<1>2. CASE DeleteMarked(t, id) \/ MakeIdle(t, id)
  <2>1. dirty' = dirty /\ GiveUp(t, id)
    BY <1>2 DEF DeleteMarked, MakeIdle
  <2>2. Elements(free)' \in {Elements(free), Elements(free) \cup {id}}
    <3>1. CASE DeleteMarked(t, id)
      BY <3>1 DEF DeleteMarked, Elements
    <3>2. CASE MakeIdle(t, id)
      BY <1>1, <3>2, InsertAtElements DEF MakeIdle, InsertFreeBufferInOrder, TypeOK
    <3> QED BY <1>2, <3>1, <3>2
  <2>3. Handoff!GiveBack(t, id)
    BY <2>1, <2>2 DEF Handoff!GiveBack, GiveUp
  <2> QED BY <1>1, <2>3 DEF Promised, Handoff!Next
<1>3. CASE ReturnFilled(t, id)
  <2>1. Handoff!Fill(t, id)
    BY <1>3 DEF Handoff!Fill, ReturnFilled, GiveUp, Elements
  <2> QED BY <1>1, <2>1 DEF Promised, Handoff!Next
<1>4. ASSUME NEW available \in BOOLEAN, MarkPushed(t, id, available) PROVE Promised
  BY <1>4 DEF MarkPushed, Promised, Handoff!vars, Elements
<1> QED BY <1>2, <1>3, <1>4

LEMMA DirtyDropRange ==
    ASSUME TypeOK, NEW count \in Nat
    PROVE  DirtyDrop(count) \in 0..Len(dirty)
<1>1. Len(free) \in Nat /\ Len(dirty) \in Nat
  BY LenProperties DEF TypeOK
<1> QED BY <1>1 DEF DirtyDrop, FreeDrop, Lesser

LEMMA AttachPromised ==
    ASSUME TypeOK, Ownership, NEW t \in Threads, NEW id \in Ids, NEW need \in Capacities,
           NEW type \in MemTypes, NEW filled \in BOOLEAN,
           AttachBuffer(t, id, need, type, filled)
    PROVE  Promised
<1>1. RoomNeeded \in Nat /\ DropFromLists(RoomNeeded) /\ Hand(t, id)
  BY RoomNeededType DEF AttachBuffer
<1>2. cache[id].state = "ABSENT" /\ (id \in held[t] \/ \A s \in Threads : id \notin held[s])
  BY DEF AttachBuffer, IsAttachable, Fresh
<1>3. id \in Handoff!Unused \cup held[t] /\ id \notin Elements(free)
  BY <1>2, NowhereIsUnused, Places
<1>4. Elements(free)' \subseteq Elements(free) \ {id}
  BY <1>1, <1>3, DeleteBuffersPlaces DEF Ownership, Lists
<1>5. \E n \in 0..Len(dirty) : dirty' = SubSeq(dirty, n + 1, Len(dirty))
  <2>1. DirtyDrop(RoomNeeded) \in 0..Len(dirty)
    BY <1>1, DirtyDropRange
  <2> QED BY <1>1, <2>1 DEF DropFromLists
<1> QED BY <1>1, <1>3, <1>4, <1>5, LendPromised

LEMMA ShrinkPromised ==
    ASSUME TypeOK, Ownership, NEW t \in Threads, Shrink(t)
    PROVE  Promised
<1> DEFINE count == ShrinkCount(t)
           stay == Elements(free)'
<1>1. count \in Nat
  BY ShrinkCountType DEF Shrink
<1>2. DropFromLists(count) /\ held' = held
  BY DEF Shrink
<1> HIDE DEF count
<1>3. Elements(free)' \subseteq Elements(free)
  BY <1>1, <1>2, DeleteBuffersPlaces DEF Ownership, Lists
<1>4. \E n \in 0..Len(dirty) : dirty' = SubSeq(dirty, n + 1, Len(dirty))
  <2>1. DirtyDrop(count) \in 0..Len(dirty)
    BY <1>1, DirtyDropRange
  <2> QED BY <1>2, <2>1 DEF DropFromLists
<1>5. stay \in SUBSET Ids /\ Handoff!Shrink(stay)
  BY <1>3, <1>4, Places DEF Handoff!Shrink
<1> HIDE DEF stay
<1> QED BY <1>2, <1>5 DEF Promised, Handoff!Next, Handoff!Discard

LEMMA QuietPromised ==
    ASSUME UNCHANGED <<free, dirty, held>>
    PROVE  Promised
  BY DEF Promised, Handoff!vars, Elements

LEMMA StepPromised ==
    ASSUME IInv, [Next]_vars
    PROVE  Promised
<1> USE DEF IInv
<1>1. ASSUME NEW t \in Threads, ProducerCalls(t) PROVE Promised
  <2>1. ASSUME NEW need \in Capacities, NEW type \in MemTypes, RequestBuffer(t, need, type)
        PROVE  Promised
    BY <2>1, ObtainPromised DEF RequestBuffer
  <2>2. ASSUME NEW need \in Capacities, NEW type \in MemTypes,
               \/ RequestBlocks(t, need, type, "enterTimed")
               \/ RequestBlocks(t, need, type, "enterForever")
               \/ RequestRefused(t, type)
        PROVE  Promised
    BY <2>2, QuietPromised DEF RequestBlocks, RequestRefused
  <2>3. ASSUME NEW type \in MemTypes, RequestRefused(t, type) PROVE Promised
    BY <2>3, QuietPromised DEF RequestRefused
  <2>4. ASSUME NEW id \in Ids, NEW available \in BOOLEAN, PushBuffer(t, id, available)
        PROVE  Promised
    BY <2>4, SectionPromised DEF PushBuffer
  <2> QED BY <1>1, <2>1, <2>2, <2>3, <2>4 DEF ProducerCalls
<1>2. ASSUME NEW t \in Threads, ConsumerCalls(t) PROVE Promised
  <2>1. CASE AcquireBuffer(t)
    <3>1. Handoff!Acquire(t)
      BY <2>1 DEF Handoff!Acquire, AcquireBuffer, Hand, Elements
    <3> QED BY <3>1 DEF Promised, Handoff!Next
  <2>2. CASE AcquireRefused(t)
    BY <2>2, QuietPromised DEF AcquireRefused, queueVars
  <2>3. ASSUME NEW id \in Ids, ReleaseBuffer(t, id) PROVE Promised
    BY <2>3, SectionPromised DEF ReleaseBuffer, Release
  <2> QED BY <1>2, <2>1, <2>2, <2>3 DEF ConsumerCalls
<1>3. ASSUME NEW t \in Threads, AttacherCalls(t) PROVE Promised
  <2>1. ASSUME NEW id \in Ids, DetachBuffer(t, id) PROVE Promised
    BY <2>1, QuietPromised DEF DetachBuffer
  <2> QED BY <1>3, <2>1, AttachPromised DEF AttacherCalls
<1>4. ASSUME NEW t \in Threads, NEW id \in Ids, ReturnBuffer(t, id) PROVE Promised
  BY <1>4, SectionPromised DEF ReturnBuffer, CancelBuffer
<1>5. ASSUME NEW t \in Threads, NEW new, Grow(t, new) \/ DecideShrink(t, new) PROVE Promised
  BY <1>5, QuietPromised DEF Grow, DecideShrink, queueVars
<1>6. ASSUME NEW t \in Threads, Continue(t) PROVE Promised
  <2>1. CASE WakeAndObtain(t)
    <3>1. call[t].size \in Capacities /\ memoryType \in MemTypes \cup {UnknownMemory}
      BY <2>1 DEF WakeAndObtain, WaitEnds, TypeOK, Call
    <3> QED BY <2>1, <3>1, ObtainPromised DEF WakeAndObtain
  <2>2. ASSUME NEW b \in Brokers, OnBufferFilled(t, b) PROVE Promised
    <3>1. call[t].id \in held[t] /\ call[t].id \in Ids /\ b \in Threads
      BY <2>2, Places DEF InFlightIsHeld, OnBufferFilled, Threads
    <3>2. Handoff!Pass(t, b, call[t].id)
      BY <2>2, <3>1 DEF Handoff!Pass, OnBufferFilled, queueVars, Elements
    <3> QED BY <3>1, <3>2 DEF Promised, Handoff!Next
  <2>3. CASE PushReturns(t)
    <3>1. call[t].id \in held[t]
      BY <2>3 DEF InFlightIsHeld, PushReturns
    <3> QED BY <2>3, <3>1, SectionPromised DEF PushReturns, CancelBuffer
  <2>4. CASE AttachGoesOn(t)
    <3>1. call[t].id \in held[t]
      BY <2>4 DEF InFlightIsHeld, AttachGoesOn
    <3> QED BY <2>4, <3>1, SectionPromised DEF AttachGoesOn, Release
  <2>5. CASE Shrink(t)
    BY <2>5, ShrinkPromised
  <2>6. CASE NoConsumerListener(t)
    BY <2>6 DEF NoConsumerListener
  <2>7. CASE \/ EnterWait(t) \/ WakeAndSleep(t) \/ WakeRefused(t) \/ ReturnRefused(t)
             \/ NotifyConsumer(t) \/ NotifyProducer(t) \/ ForceDetach(t) \/ GrowNotifies(t)
    BY <2>7, QuietPromised DEF EnterWait, WakeAndSleep, WakeRefused, ReturnRefused,
       NotifyConsumer, NotifyProducer, ForceDetach, GrowNotifies, queueVars
  <2> QED BY <1>6, <2>1, <2>2, <2>3, <2>4, <2>5, <2>6, <2>7 DEF Continue, Proceed
<1>7. ASSUME NEW t \in Threads, SpuriousWakeup(t) PROVE Promised
  BY <1>7, QuietPromised DEF SpuriousWakeup, queueVars
<1>8. ASSUME SetConsumerListener PROVE Promised
  BY <1>8, QuietPromised DEF SetConsumerListener, queueVars
<1>9. ASSUME UNCHANGED vars PROVE Promised
  BY <1>9, QuietPromised DEF vars, queueVars
<1>10. /\ Producers \cup Brokers \subseteq Threads
       /\ Producers \subseteq Threads /\ Consumers \subseteq Threads
       /\ Attachers \subseteq Threads /\ Resizers \subseteq Threads
  BY ThreadsAssumption DEF Threads
<1>11. ASSUME Next PROVE Promised
  BY <1>1, <1>2, <1>3, <1>4, <1>5, <1>6, <1>7, <1>8, <1>10, <1>11, Zenon DEF Next
<1> QED BY <1>9, <1>11

\* While the consumer's listener is there from the start, the queue hands its
\* buffers over as BufferHandoff promises: each is in one place, moves only
\* as a whole, and the filled ones are acquired first in, first out.
THEOREM QueueHandsOver ==
    ASSUME ListenerFirst
    PROVE  Spec => ImplementsHandoff
<1>1. Init => Handoff!Init
  BY DEF Init, Handoff!Init, Elements
<1>2. IInv /\ [Next]_vars => [Handoff!Next]_(Handoff!vars)
  BY StepPromised DEF Promised
<1>3. Spec => []IInv
  BY InductiveInvariant
<1> QED BY <1>1, <1>2, <1>3, PTL DEF Spec, ImplementsHandoff, Handoff!Spec

=============================================================================
