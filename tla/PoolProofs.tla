----------------------------- MODULE PoolProofs -----------------------------
(***************************************************************************)
(* The pool of shared memories, for any clients, sizes and options and any *)
(* finite number of memories: a client sleeps only while nobody could      *)
(* serve it, and a pool of fixed size keeps each of its memories in one    *)
(* place and has never more than option.max of them.                       *)
(***************************************************************************)
EXTENDS AVSharedMemoryPool, FiniteSetTheorems, SequenceTheorems, WellFoundedInduction, TLAPS

-----------------------------------------------------------------------------
(* Least elements, and sequences with one element less or more.            *)

\* A set of naturals that is not empty has a least element.
LEMMA LeastNatural ==
    ASSUME NEW T \in SUBSET Nat, T # {}
    PROVE  \E x \in T : \A y \in T : x <= y
<1> DEFINE R == {ss \in Nat \X Nat : ss[1] < ss[2]}
<1>1. IsWellFoundedOn(R, Nat)
  BY NatLessThanWellFounded DEF OpToRel
<1>2. \E x \in T : \A y \in T : ~(<<y, x>> \in R)
  <2> HIDE DEF R
  <2> QED BY <1>1, WFMin
<1>3. PICK x \in T : \A y \in T : ~(<<y, x>> \in R)
  BY <1>2, Zenon
<1>4. ASSUME NEW y \in T, y < x PROVE FALSE
  <2>1. <<y, x>> \in Nat \X Nat /\ <<y, x>>[1] < <<y, x>>[2]
    BY <1>4
  <2>2. <<y, x>> \in R
    BY <2>1, Zenon
  <2> QED BY <1>3, <2>2, Zenon
<1> HIDE DEF R
<1> QED BY <1>4

\* RemoveAt: what is behind the element moves up by one.
LEMMA RemoveAtProperties ==
    ASSUME NEW S, NEW s \in Seq(S), NEW i \in 1 .. Len(s)
    PROVE  /\ RemoveAt(s, i) \in Seq(S)
           /\ Len(RemoveAt(s, i)) = Len(s) - 1
           /\ \A j \in 1 .. Len(s) - 1 : RemoveAt(s, i)[j] = IF j < i THEN s[j] ELSE s[j + 1]
<1> DEFINE front == SubSeq(s, 1, i - 1)
           back == SubSeq(s, i + 1, Len(s))
<1>1. Len(s) \in Nat /\ \A j \in 1 .. Len(s) : s[j] \in S
  BY LenProperties
<1>2. /\ front \in Seq(S) /\ Len(front) = i - 1
      /\ \A j \in 1 .. i - 1 : front[j] = s[j]
  <2>1. 1 \in Int /\ i - 1 \in Int /\ \A j \in 1 .. i - 1 : s[j] \in S
    BY <1>1
  <2>2. /\ front \in Seq(S)
        /\ Len(front) = IF 1 <= i - 1 THEN i - 1 - 1 + 1 ELSE 0
        /\ \A j \in 1 .. i - 1 - 1 + 1 : front[j] = s[1 + j - 1]
    BY <2>1, SubSeqProperties
  <2> HIDE DEF front
  <2> QED BY <1>1, <2>2
<1>3. /\ back \in Seq(S) /\ Len(back) = Len(s) - i
      /\ \A j \in 1 .. Len(s) - i : back[j] = s[i + j]
  <2>1. i + 1 \in Int /\ Len(s) \in Int /\ \A j \in i + 1 .. Len(s) : s[j] \in S
    BY <1>1
  <2>2. /\ back \in Seq(S)
        /\ Len(back) = IF i + 1 <= Len(s) THEN Len(s) - (i + 1) + 1 ELSE 0
        /\ \A j \in 1 .. Len(s) - (i + 1) + 1 : back[j] = s[i + 1 + j - 1]
    BY <2>1, SubSeqProperties
  <2> HIDE DEF back
  <2> QED BY <1>1, <2>2
<1>4. RemoveAt(s, i) = front \o back
  BY DEF RemoveAt
<1> HIDE DEF front, back
<1>5. /\ front \o back \in Seq(S)
      /\ Len(front \o back) = Len(front) + Len(back)
      /\ \A j \in 1 .. Len(front) + Len(back) :
            (front \o back)[j] = IF j <= Len(front) THEN front[j] ELSE back[j - Len(front)]
  BY <1>2, <1>3, ConcatProperties
<1>6. \A j \in 1 .. Len(s) - 1 : (front \o back)[j] = IF j < i THEN s[j] ELSE s[j + 1]
  <2> TAKE j \in 1 .. Len(s) - 1
  <2>1. CASE j < i
    BY <2>1, <1>1, <1>2, <1>3, <1>5
  <2>2. CASE j >= i
    <3>1. j - (i - 1) \in 1 .. Len(s) - i /\ i + (j - (i - 1)) = j + 1
      BY <2>2, <1>1
    <3>2. back[j - (i - 1)] = s[j + 1]
      BY <3>1, <1>3
    <3>3. (front \o back)[j] = back[j - (i - 1)]
      <4>1. j \in 1 .. Len(front) + Len(back) /\ ~(j <= Len(front)) /\ Len(front) = i - 1
        BY <2>2, <1>1, <1>2, <1>3
      <4>2. (front \o back)[j] = back[j - Len(front)]
        BY <4>1, <1>5
      <4> QED BY <4>1, <4>2
    <3>4. ~(j < i)
      BY <2>2, <1>1
    <3>5. (front \o back)[j] = s[j + 1]
      BY <3>2, <3>3, Zenon
    <3> QED BY <3>4, <3>5, Zenon
  <2>3. j < i \/ j >= i
    BY <1>1
  <2> QED BY <2>1, <2>2, <2>3, Zenon
<1> QED BY <1>1, <1>2, <1>3, <1>4, <1>5, <1>6

\* Of a sequence without duplicates, it takes the element out.
LEMMA RemovedElement ==
    ASSUME NEW S, NEW s \in Seq(S), NEW i \in 1 .. Len(s), IsInjective(s)
    PROVE  ToSet(RemoveAt(s, i)) = ToSet(s) \ {s[i]} /\ IsInjective(RemoveAt(s, i))
<1> DEFINE r == RemoveAt(s, i)
<1>1. r \in Seq(S) /\ Len(r) = Len(s) - 1 /\ DOMAIN r = 1 .. Len(s) - 1 /\ DOMAIN s = 1 .. Len(s)
  BY RemoveAtProperties, LenProperties
<1>2. Len(s) \in Nat /\ \A j \in 1 .. Len(s) - 1 : r[j] = IF j < i THEN s[j] ELSE s[j + 1]
  BY RemoveAtProperties, LenProperties
<1>3. \A a, b \in 1 .. Len(s) : s[a] = s[b] => a = b
  BY <1>1 DEF IsInjective
<1> HIDE DEF r
<1>4. \A j \in 1 .. Len(s) - 1 : r[j] \in ToSet(s) \ {s[i]}
  <2> TAKE j \in 1 .. Len(s) - 1
  <2>1. \E k \in 1 .. Len(s) : k # i /\ r[j] = s[k]
    <3>1. CASE j < i
      BY <3>1, <1>2
    <3>2. CASE j >= i
      <4>1. j + 1 \in 1 .. Len(s) /\ j + 1 # i /\ r[j] = s[j + 1]
        BY <3>2, <1>2
      <4> QED BY <4>1
    <3> QED BY <3>1, <3>2, <1>2
  <2> QED BY <2>1, <1>1, <1>3 DEF ToSet
<1>5. \A k \in 1 .. Len(s) : k # i => \E j \in 1 .. Len(s) - 1 : r[j] = s[k]
  <2> TAKE k \in 1 .. Len(s)
  <2> HAVE k # i
  <2>1. CASE k < i
    BY <2>1, <1>2
  <2>2. CASE k > i
    <3>1. k - 1 \in 1 .. Len(s) - 1 /\ r[k - 1] = s[k]
      BY <2>2, <1>2
    <3> QED BY <3>1
  <2> QED BY <2>1, <2>2, <1>2
<1>6. ToSet(r) = ToSet(s) \ {s[i]}
  <2>1. \A x \in ToSet(r) : x \in ToSet(s) \ {s[i]}
    BY <1>1, <1>4 DEF ToSet
  <2>2. ASSUME NEW x \in ToSet(s) \ {s[i]}
        PROVE  x \in ToSet(r)
    <3>1. PICK k \in 1 .. Len(s) : x = s[k] /\ k # i
      BY <1>1 DEF ToSet
    <3> QED BY <3>1, <1>1, <1>5 DEF ToSet
  <2> QED BY <2>1, <2>2
<1>7. IsInjective(r)
  BY <1>1, <1>2, <1>3 DEF IsInjective
<1> QED BY <1>6, <1>7 DEF r

\* Append: to a sequence without duplicates, an element it does not have.
LEMMA AppendedElement ==
    ASSUME NEW S, NEW s \in Seq(S), NEW x \in S
    PROVE  /\ Append(s, x) \in Seq(S) /\ Len(Append(s, x)) = Len(s) + 1
           /\ ToSet(Append(s, x)) = ToSet(s) \cup {x}
           /\ IsInjective(s) /\ x \notin ToSet(s) => IsInjective(Append(s, x))
<1> DEFINE a == Append(s, x)
<1>1. /\ a \in Seq(S) /\ Len(a) = Len(s) + 1 /\ Len(s) \in Nat
      /\ \A i \in 1 .. Len(s) : a[i] = s[i]
      /\ a[Len(s) + 1] = x
  BY AppendProperties, LenProperties
<1>2. DOMAIN a = 1 .. Len(s) + 1 /\ DOMAIN s = 1 .. Len(s)
  BY <1>1, LenProperties
<1> HIDE DEF a
<1>3. ToSet(a) = ToSet(s) \cup {x}
  BY <1>1, <1>2 DEF ToSet
<1>4. ASSUME IsInjective(s), x \notin ToSet(s)
      PROVE  IsInjective(a)
  <2>1. \A i, j \in 1 .. Len(s) : s[i] = s[j] => i = j
    BY <1>2, <1>4 DEF IsInjective
  <2>2. \A i \in 1 .. Len(s) : a[i] # x
    BY <1>1, <1>2, <1>4 DEF ToSet
  <2> QED BY <1>1, <1>2, <2>1, <2>2 DEF IsInjective
<1> QED BY <1>1, <1>3, <1>4 DEF a

\* SetToSeq: a finite set, in some order.
LEMMA SetToSeqProperties ==
    ASSUME NEW S, NEW T \in SUBSET S, IsFiniteSet(T)
    PROVE  /\ SetToSeq(T) \in Seq(S) /\ Len(SetToSeq(T)) = Cardinality(T)
           /\ ToSet(SetToSeq(T)) = T
           /\ IsInjective(SetToSeq(T))
<1> DEFINE n == Cardinality(T)
           f == SetToSeq(T)
<1>1. n \in Nat /\ ExistsBijection(1 .. n, T)
  BY FS_CardinalityType
<1>2. \E g \in [1 .. n -> T] : IsInjective(g)
  BY <1>1 DEF ExistsBijection, Bijection, Injection
<1>3. f \in [1 .. n -> T] /\ IsInjective(f)
  BY <1>2 DEF SetToSeq
<1> HIDE DEF f
<1>4. f \in Seq(S) /\ Len(f) = n
  <2>1. f \in [1 .. n -> S]
    BY <1>3
  <2> QED BY <1>1, <2>1, SeqDef
<1>5. f \in Injection(1 .. n, T)
  BY <1>3 DEF Injection
<1>6. IsFiniteSet(1 .. n) /\ Cardinality(1 .. n) = n
  BY <1>1, FS_Interval
<1>7. f \in Surjection(1 .. n, T)
  BY <1>5, <1>6, FS_Injection
<1>8. ToSet(f) = T
  BY <1>3, <1>7 DEF ToSet, Surjection
<1> QED BY <1>3, <1>4, <1>8 DEF f
-----------------------------------------------------------------------------
(* The inductive invariant.  In a pool of fixed size, all sizes are that of *)
(* the pool, and so are all that clients wait for.                         *)

FixedSizes ==
    option.fixed =>
        /\ \A m \in Memories : sizeOf[m] \in {0, option.size}
        /\ \A c \in PoolClients : acquiring[c] \in {0, option.size}

PoolInv == PoolTypeOK /\ FixedSizes /\ PoolServes

LEMMA PoolFacts ==
    ASSUME PoolTypeOK
    PROVE  /\ option.size \in Nat \ {0} /\ option.max \in Nat \ {0} /\ option.fixed \in BOOLEAN
           /\ idle \in Seq(Memories) /\ Len(idle) \in Nat /\ DOMAIN idle = 1 .. Len(idle)
           /\ \A i \in 1 .. Len(idle) : idle[i] \in Memories /\ idle[i] \in ToSet(idle)
           /\ ToSet(idle) \subseteq Memories
           /\ IsFiniteSet(busy) /\ Cardinality(busy) \in Nat
           /\ InPool \in Nat /\ InPool = Cardinality(busy) + Len(idle)
<1>1. /\ option.size \in Nat \ {0} /\ option.max \in Nat \ {0} /\ option.fixed \in BOOLEAN
  BY PoolAssumption DEF PoolTypeOK
<1>2. idle \in Seq(Memories) /\ Len(idle) \in Nat /\ DOMAIN idle = 1 .. Len(idle)
  BY LenProperties DEF PoolTypeOK
<1>3. \A i \in 1 .. Len(idle) : idle[i] \in Memories /\ idle[i] \in ToSet(idle)
  BY <1>2, ElementOfSeq DEF ToSet
<1>4. ToSet(idle) \subseteq Memories
  BY <1>2, <1>3 DEF ToSet
<1>5. IsFiniteSet(busy) /\ Cardinality(busy) \in Nat
  BY PoolAssumption, FS_Subset, FS_CardinalityType DEF PoolTypeOK
<1> QED BY <1>1, <1>2, <1>3, <1>4, <1>5 DEF InPool

\* A step of the pool asks for the size of the pool, if that is fixed.
LEMMA AskedSize ==
    ASSUME PoolInv, NEW c \in PoolClients, NEW size \in Sizes, Acquires(c, size)
    PROVE  /\ size \in Nat \ {0}
           /\ option.fixed => size = option.size
  BY PoolAssumption DEF Acquires, Asked, PoolInv, FixedSizes

\* A client that sleeps has found nothing idle, and no room for more.
LEMMA SleeperMeansExhausted ==
    ASSUME PoolInv, NEW c \in asleep
    PROVE  idle = <<>> /\ InPool >= option.max
<1>1. c \in PoolClients /\ Fitting(acquiring[c]) = {} /\ InPool >= option.max
      /\ (option.fixed \/ idle = <<>>)
  BY DEF PoolInv, PoolTypeOK, PoolServes, PoolSleeperIsUnserved, Exhausted
<1>2. ASSUME option.fixed, idle # <<>>
      PROVE  FALSE
  <2>1. 1 \in DOMAIN idle /\ idle[1] \in ToSet(idle) /\ idle[1] \in Memories
    BY <1>2, PoolFacts, EmptySeq DEF PoolInv, PoolTypeOK
  <2>2. sizeOf[idle[1]] # 0
    BY <1>2, <2>1 DEF PoolInv, PoolServes, PoolOwnsItsMemories, NothingIsForgotten
  <2>3. sizeOf[idle[1]] = option.size /\ acquiring[c] \in {0, option.size}
    BY <1>1, <1>2, <2>1, <2>2 DEF PoolInv, FixedSizes
  <2>4. sizeOf[idle[1]] >= acquiring[c]
    BY <2>3, PoolFacts DEF PoolInv
  <2> QED BY <1>1, <2>1, <2>4 DEF Fitting
<1> QED BY <1>1, <1>2

\* The first idle memory that fits.
LEMMA FirstFitting ==
    ASSUME PoolTypeOK, NEW size \in Nat, Fitting(size) # {}
    PROVE  (CHOOSE i \in Fitting(size) : \A j \in Fitting(size) : i <= j) \in 1 .. Len(idle)
<1>1. Fitting(size) \subseteq 1 .. Len(idle) /\ Fitting(size) \subseteq Nat
  BY PoolFacts DEF Fitting
<1>2. \E i \in Fitting(size) : \A j \in Fitting(size) : i <= j
  BY <1>1, LeastNatural
<1> QED BY <1>1, <1>2

\* Among idle memories there is a first of the smallest.
LEMMA SmallestIsIdle ==
    ASSUME PoolTypeOK, idle # <<>>
    PROVE  Smallest \in 1 .. Len(idle)
<1> DEFINE sizes == {sizeOf[idle[i]] : i \in DOMAIN idle}
<1>1. 1 \in DOMAIN idle /\ DOMAIN idle = 1 .. Len(idle)
  BY PoolFacts, EmptySeq DEF PoolTypeOK
<1>2. \A i \in DOMAIN idle : sizeOf[idle[i]] \in Nat
  BY PoolFacts DEF PoolTypeOK
<1>3. PICK least \in sizes : \A s \in sizes : least <= s
  <2>1. sizes \subseteq Nat /\ sizes # {}
    BY <1>1, <1>2
  <2> HIDE DEF sizes
  <2> QED BY <2>1, LeastNatural
<1> DEFINE first == {i \in DOMAIN idle : sizeOf[idle[i]] = least}
<1>4. PICK i \in first : \A j \in first : i <= j
  <2>1. first \subseteq Nat /\ first # {}
    BY <1>1, <1>3
  <2> HIDE DEF first
  <2> QED BY <2>1, LeastNatural
<1>5. ASSUME NEW j \in DOMAIN idle
      PROVE  sizeOf[idle[i]] < sizeOf[idle[j]] \/ (sizeOf[idle[i]] = sizeOf[idle[j]] /\ i <= j)
  <2>1. sizeOf[idle[i]] = least /\ least <= sizeOf[idle[j]] /\ i \in DOMAIN idle
    BY <1>3, <1>4
  <2>2. CASE sizeOf[idle[j]] = least
    BY <2>1, <2>2, <1>4
  <2>3. CASE sizeOf[idle[j]] # least
    <3>1. least < sizeOf[idle[j]]
      BY <2>1, <2>3, <1>2
    <3> QED BY <2>1, <3>1
  <2> QED BY <2>2, <2>3
<1> QED BY <1>1, <1>4, <1>5 DEF Smallest
-----------------------------------------------------------------------------
(* Every step keeps the invariant.                                         *)

LEMMA InitIsGood == PoolInit => PoolInv
<1> SUFFICES ASSUME PoolInit PROVE PoolInv
  OBVIOUS
<1>1. /\ option \in PoolOptions /\ option.size \in Nat \ {0} /\ option.max \in Nat \ {0}
      /\ option.preAlloc \in Nat /\ option.fixed \in BOOLEAN
  BY PoolAssumption DEF PoolInit
<1>2. PICK fresh \in SUBSET Memories :
          /\ \/ Cardinality(fresh) = PreAllocated(option) /\ inited = TRUE
             \/ Cardinality(fresh) < PreAllocated(option) /\ inited = FALSE
          /\ idle = SetToSeq(fresh)
          /\ sizeOf = [m \in Memories |-> IF m \in fresh THEN option.size ELSE 0]
  BY DEF PoolInit
<1>3. IsFiniteSet(fresh) /\ Cardinality(fresh) \in Nat
  BY PoolAssumption, FS_Subset, FS_CardinalityType
<1>4. /\ idle \in Seq(Memories) /\ Len(idle) = Cardinality(fresh)
      /\ ToSet(idle) = fresh /\ IsInjective(idle)
  BY <1>2, <1>3, SetToSeqProperties
<1>5. Len(idle) <= option.max
  BY <1>1, <1>2, <1>3, <1>4 DEF PreAllocated
<1>6. PoolTypeOK
  BY <1>1, <1>2, <1>4 DEF PoolInit, PoolTypeOK
<1>7. FixedSizes
  BY <1>2 DEF PoolInit, FixedSizes
<1>8. PoolOwnsItsMemories
  <2>1. NothingIsForgotten
    BY <1>1, <1>2, <1>4 DEF NothingIsForgotten, PoolInit
  <2>2. Cardinality(busy) = 0
    BY FS_EmptySet DEF PoolInit
  <2>3. InPool <= option.max
    BY <1>3, <1>4, <1>5, <2>2 DEF InPool
  <2> QED BY <1>4, <2>1, <2>3 DEF PoolOwnsItsMemories, PoolInit
<1>9. PoolSleeperIsUnserved
  BY DEF PoolInit, PoolSleeperIsUnserved
<1> QED BY <1>6, <1>7, <1>8, <1>9 DEF PoolInv, PoolServes

\* TakeIdle: the memory goes from one list to the other; nobody sleeps then.
LEMMA TakeIdleKeeps ==
    ASSUME PoolInv, NEW c \in PoolClients, NEW size \in Sizes, TakeIdle(c, size)
    PROVE  PoolInv'
<1> DEFINE first == CHOOSE i \in Fitting(size) : \A j \in Fitting(size) : i <= j
<1>1. size \in Nat \ {0} /\ PoolTypeOK
  BY AskedSize DEF TakeIdle, PoolInv
<1>2. first \in 1 .. Len(idle)
  BY <1>1, FirstFitting DEF TakeIdle
<1>3. /\ idle' = RemoveAt(idle, first) /\ busy' = busy \cup {idle[first]}
      /\ acquiring' = [acquiring EXCEPT ![c] = 0]
      /\ UNCHANGED <<option, inited, sizeOf, force, asleep>>
  BY DEF TakeIdle, AcquireReturns
<1> HIDE DEF first
<1>4. /\ idle[first] \in Memories /\ idle[first] \in ToSet(idle)
      /\ idle' \in Seq(Memories) /\ Len(idle') = Len(idle) - 1
  BY <1>1, <1>2, <1>3, PoolFacts, RemoveAtProperties, Zenon
<1>5. PoolTypeOK'
  BY <1>1, <1>3, <1>4 DEF PoolTypeOK
<1>6. FixedSizes'
  BY <1>1, <1>3 DEF PoolInv, FixedSizes, PoolTypeOK
<1>7. asleep = {}
  <2>1. idle # <<>>
    BY <1>1, <1>2, EmptySeq, PoolFacts
  <2> QED BY <2>1, SleeperMeansExhausted
<1>8. PoolSleeperIsUnserved'
  BY <1>3, <1>7 DEF PoolSleeperIsUnserved
<1>9. ASSUME option.fixed
      PROVE  (NothingIsForgotten /\ busy \cap ToSet(idle) = {} /\ IsInjective(idle) /\ InPool <= option.max)'
  <2>1. /\ NothingIsForgotten /\ busy \cap ToSet(idle) = {} /\ IsInjective(idle) /\ InPool <= option.max
    BY <1>9 DEF PoolInv, PoolServes, PoolOwnsItsMemories
  <2>2. ToSet(idle') = ToSet(idle) \ {idle[first]} /\ IsInjective(idle')
    BY <1>1, <1>2, <1>3, <2>1, PoolFacts, RemovedElement
  <2>3. NothingIsForgotten'
    BY <1>3, <1>4, <2>1, <2>2 DEF NothingIsForgotten
  <2>4. busy' \cap ToSet(idle') = {}
    BY <1>3, <2>1, <2>2
  <2>5. Cardinality(busy') = Cardinality(busy) + 1
    BY <1>1, <1>3, <1>4, <2>1, PoolFacts, FS_AddElement
  <2>6. (InPool <= option.max)'
    BY <1>1, <1>3, <1>4, <2>1, <2>5, PoolFacts DEF InPool
  <2> QED BY <2>2, <2>3, <2>4, <2>6
<1>10. PoolOwnsItsMemories'
  BY <1>3, <1>9 DEF PoolOwnsItsMemories
<1> QED BY <1>5, <1>6, <1>8, <1>10 DEF PoolInv, PoolServes

\* AllocateNew: only below the maximum, so nobody sleeps.
LEMMA AllocateNewKeeps ==
    ASSUME PoolInv, NEW c \in PoolClients, NEW size \in Sizes, AllocateNew(c, size)
    PROVE  PoolInv'
<1>1. size \in Nat \ {0} /\ (option.fixed => size = option.size) /\ PoolTypeOK
  BY AskedSize DEF AllocateNew, PoolInv
<1>2. PICK m \in Memories :
          /\ sizeOf[m] = 0 /\ InPool < option.max
          /\ sizeOf' = Allocated({m}, size) /\ busy' = busy \cup {m}
          /\ acquiring' = [acquiring EXCEPT ![c] = 0]
          /\ UNCHANGED <<option, inited, idle, force, asleep>>
  BY DEF AllocateNew, AcquireReturns, Unused
<1>3. \A k \in Memories : sizeOf'[k] = IF k = m THEN size ELSE sizeOf[k]
  BY <1>2 DEF Allocated
<1>4. PoolTypeOK'
  BY <1>1, <1>2 DEF PoolTypeOK, Allocated
<1>5. FixedSizes'
  BY <1>1, <1>2, <1>3 DEF PoolInv, FixedSizes, PoolTypeOK
<1>6. asleep = {}
  BY <1>1, <1>2, PoolFacts, SleeperMeansExhausted
<1>7. PoolSleeperIsUnserved'
  BY <1>2, <1>6 DEF PoolSleeperIsUnserved
<1>8. ASSUME option.fixed
      PROVE  (NothingIsForgotten /\ busy \cap ToSet(idle) = {} /\ IsInjective(idle) /\ InPool <= option.max)'
  <2>1. /\ NothingIsForgotten /\ busy \cap ToSet(idle) = {} /\ IsInjective(idle) /\ InPool <= option.max
    BY <1>8 DEF PoolInv, PoolServes, PoolOwnsItsMemories
  <2>2. m \notin busy /\ m \notin ToSet(idle)
    BY <1>2, <2>1 DEF NothingIsForgotten
  <2>3. NothingIsForgotten'
    BY <1>1, <1>2, <1>3, <2>1 DEF NothingIsForgotten
  <2>4. Cardinality(busy') = Cardinality(busy) + 1
    BY <1>1, <1>2, <2>2, PoolFacts, FS_AddElement
  <2>5. (InPool <= option.max)'
    BY <1>1, <1>2, <2>4, PoolFacts DEF InPool
  <2> QED BY <1>2, <2>1, <2>2, <2>3, <2>5
<1>9. PoolOwnsItsMemories'
  BY <1>2, <1>8 DEF PoolOwnsItsMemories
<1> QED BY <1>4, <1>5, <1>7, <1>9 DEF PoolInv, PoolServes

\* In a pool of variable size only the types are at stake, and who sleeps.
LEMMA ReplaceSmallestKeeps ==
    ASSUME PoolInv, NEW c \in PoolClients, NEW size \in Sizes, ReplaceSmallest(c, size)
    PROVE  PoolInv'
<1>1. size \in Nat \ {0} /\ PoolTypeOK /\ ~option.fixed /\ idle # <<>>
  BY AskedSize DEF ReplaceSmallest, PoolInv
<1>2. PICK fresh \in SUBSET Memories :
          /\ sizeOf' = [Allocated(fresh, size) EXCEPT ![idle[Smallest]] = 0]
          /\ \E m \in fresh : busy' = busy \cup {m}
  BY DEF ReplaceSmallest, Unused
<1>3. /\ idle' = RemoveAt(idle, Smallest) /\ acquiring' = [acquiring EXCEPT ![c] = 0]
      /\ UNCHANGED <<option, inited, force, asleep>>
  BY DEF ReplaceSmallest, AcquireReturns
<1>4. idle' \in Seq(Memories)
  BY <1>1, <1>3, SmallestIsIdle, PoolFacts, RemoveAtProperties
<1>5. PoolTypeOK'
  BY <1>1, <1>2, <1>3, <1>4 DEF PoolTypeOK, Allocated
<1>6. FixedSizes' /\ PoolOwnsItsMemories'
  BY <1>1, <1>3 DEF FixedSizes, PoolOwnsItsMemories
<1>7. PoolSleeperIsUnserved'
  BY <1>1, <1>3, SleeperMeansExhausted DEF PoolSleeperIsUnserved
<1> QED BY <1>5, <1>6, <1>7 DEF PoolInv, PoolServes

LEMMA AcquireFailsKeeps ==
    ASSUME PoolInv, NEW c \in PoolClients, NEW size \in Sizes, AcquireFails(c, size)
    PROVE  PoolInv'
<1>1. /\ size \in Nat \ {0} /\ PoolTypeOK
      /\ acquiring' = [acquiring EXCEPT ![c] = 0]
      /\ UNCHANGED <<option, inited, busy, force, asleep>>
  BY AskedSize DEF AcquireFails, AcquireReturns, PoolInv
<1>2. CASE InPool < option.max /\ UNCHANGED <<idle, sizeOf>>
  <2>1. asleep = {}
    BY <1>1, <1>2, PoolFacts, SleeperMeansExhausted
  <2>2. PoolTypeOK' /\ FixedSizes'
    BY <1>1, <1>2 DEF PoolInv, PoolTypeOK, FixedSizes
  <2>3. PoolSleeperIsUnserved' /\ PoolOwnsItsMemories'
    BY <1>1, <1>2, <2>1
       DEF PoolInv, PoolServes, PoolSleeperIsUnserved, PoolOwnsItsMemories, NothingIsForgotten, InPool
  <2> QED BY <2>2, <2>3 DEF PoolInv, PoolServes
<1>3. CASE /\ ~option.fixed /\ idle # <<>>
           /\ idle' = RemoveAt(idle, Smallest)
           /\ \E fresh \in SUBSET Unused(sizeOf) :
                  sizeOf' = [Allocated(fresh, size) EXCEPT ![idle[Smallest]] = 0]
  <2>1. idle' \in Seq(Memories)
    BY <1>1, <1>3, SmallestIsIdle, PoolFacts, RemoveAtProperties
  <2>2. PICK fresh \in SUBSET Memories :
            sizeOf' = [Allocated(fresh, size) EXCEPT ![idle[Smallest]] = 0]
    BY <1>3 DEF Unused
  <2>3. sizeOf' \in [Memories -> Nat]
    BY <1>1, <2>2 DEF PoolTypeOK, Allocated
  <2>4. PoolTypeOK'
    BY <1>1, <2>1, <2>3 DEF PoolTypeOK
  <2>5. FixedSizes' /\ PoolOwnsItsMemories'
    BY <1>1, <1>3 DEF FixedSizes, PoolOwnsItsMemories
  <2>6. PoolSleeperIsUnserved'
    BY <1>1, <1>3, SleeperMeansExhausted DEF PoolSleeperIsUnserved
  <2> QED BY <2>4, <2>5, <2>6 DEF PoolInv, PoolServes
<1>4. \/ InPool < option.max /\ UNCHANGED <<idle, sizeOf>>
      \/ /\ ~option.fixed /\ idle # <<>>
         /\ idle' = RemoveAt(idle, Smallest)
         /\ \E fresh \in SUBSET Unused(sizeOf) :
                sizeOf' = [Allocated(fresh, size) EXCEPT ![idle[Smallest]] = 0]
  <2> HIDE DEF Unused, Allocated, Smallest
  <2> QED BY Zenon DEF AcquireFails
<1> QED BY <1>2, <1>3, <1>4

LEMMA WaitForMemoryKeeps ==
    ASSUME PoolInv, NEW c \in PoolClients, NEW size \in Sizes, WaitForMemory(c, size)
    PROVE  PoolInv'
<1>1. /\ size \in Nat \ {0} /\ (option.fixed => size = option.size) /\ PoolTypeOK
      /\ Exhausted(size) /\ ~force
      /\ acquiring' = [acquiring EXCEPT ![c] = size] /\ asleep' = asleep \cup {c}
      /\ UNCHANGED <<option, inited, idle, busy, sizeOf, force>>
  BY AskedSize DEF WaitForMemory, PoolInv
<1>2. PoolTypeOK' /\ FixedSizes'
  BY <1>1 DEF PoolInv, PoolTypeOK, FixedSizes
<1>3. PoolOwnsItsMemories'
  BY <1>1 DEF PoolInv, PoolServes, PoolOwnsItsMemories, NothingIsForgotten, InPool
<1>4. ASSUME NEW d \in asleep'
      PROVE  Exhausted(acquiring[d])' /\ ~force'
  <2>1. CASE d = c
    BY <1>1, <2>1 DEF PoolTypeOK, Exhausted, Fitting, InPool
  <2>2. CASE d # c
    <3>1. d \in asleep /\ acquiring'[d] = acquiring[d]
      BY <1>1, <1>4, <2>2 DEF PoolTypeOK
    <3>2. Exhausted(acquiring[d])
      BY <3>1 DEF PoolInv, PoolServes, PoolSleeperIsUnserved
    <3> QED BY <1>1, <3>1, <3>2 DEF Exhausted, Fitting, InPool
  <2> QED BY <2>1, <2>2
<1> QED BY <1>2, <1>3, <1>4 DEF PoolInv, PoolServes, PoolSleeperIsUnserved

\* A client that is awake goes, or one that sleeps wakes: no list changes.
LEMMA WakingKeeps ==
    ASSUME PoolInv, NEW c \in PoolClients, WaitIsOver(c) \/ SpuriousPoolWakeup(c)
    PROVE  PoolInv'
<1>1. /\ acquiring' \in [PoolClients -> Nat] /\ asleep' \subseteq asleep /\ PoolTypeOK
      /\ \A d \in PoolClients : acquiring'[d] \in {0, acquiring[d]}
      /\ \A d \in asleep' : acquiring'[d] = acquiring[d]
      /\ UNCHANGED <<option, inited, idle, busy, sizeOf, force>>
  BY SMTT(60) DEF WaitIsOver, SpuriousPoolWakeup, AcquireReturns, PoolInv, PoolTypeOK
<1>2. PoolTypeOK' /\ FixedSizes'
  BY <1>1 DEF PoolInv, PoolTypeOK, FixedSizes
<1>3. PoolOwnsItsMemories'
  BY <1>1 DEF PoolInv, PoolServes, PoolOwnsItsMemories, NothingIsForgotten, InPool
<1>4. PoolSleeperIsUnserved'
  <2>1. \A d \in asleep' : Exhausted(acquiring[d]) /\ ~force
    BY <1>1 DEF PoolInv, PoolServes, PoolSleeperIsUnserved
  <2> QED BY <1>1, <2>1 DEF PoolSleeperIsUnserved, Exhausted, Fitting, InPool
<1> QED BY <1>2, <1>3, <1>4 DEF PoolInv, PoolServes

\* A memory that comes back wakes everybody.
LEMMA ReleaseMemoryKeeps ==
    ASSUME PoolInv, NEW m \in Memories, ReleaseMemory(m)
    PROVE  PoolInv'
<1>1. /\ m \in busy /\ busy' = busy \ {m} /\ idle' = Append(idle, m) /\ asleep' = {} /\ PoolTypeOK
      /\ UNCHANGED <<option, inited, sizeOf, force, acquiring>>
  BY DEF ReleaseMemory, PoolInv
<1>2. /\ idle' \in Seq(Memories) /\ Len(idle') = Len(idle) + 1
      /\ ToSet(idle') = ToSet(idle) \cup {m}
      /\ IsInjective(idle) /\ m \notin ToSet(idle) => IsInjective(idle')
  BY <1>1, PoolFacts, AppendedElement
<1>3. PoolTypeOK' /\ FixedSizes'
  BY <1>1, <1>2 DEF PoolInv, PoolTypeOK, FixedSizes
<1>4. PoolSleeperIsUnserved'
  BY <1>1 DEF PoolSleeperIsUnserved
<1>5. ASSUME option.fixed
      PROVE  (NothingIsForgotten /\ busy \cap ToSet(idle) = {} /\ IsInjective(idle) /\ InPool <= option.max)'
  <2>1. /\ NothingIsForgotten /\ busy \cap ToSet(idle) = {} /\ IsInjective(idle) /\ InPool <= option.max
    BY <1>5 DEF PoolInv, PoolServes, PoolOwnsItsMemories
  <2>2. NothingIsForgotten'
    BY <1>1, <1>2, <2>1 DEF NothingIsForgotten
  <2>3. busy' \cap ToSet(idle') = {} /\ IsInjective(idle')
    BY <1>1, <1>2, <2>1
  <2>4. Cardinality(busy') = Cardinality(busy) - 1
    BY <1>1, PoolFacts, FS_RemoveElement
  <2>5. (InPool <= option.max)'
    BY <1>1, <1>2, <2>1, <2>4, PoolFacts DEF InPool
  <2> QED BY <2>2, <2>3, <2>5
<1>6. PoolOwnsItsMemories'
  BY <1>1, <1>5 DEF PoolOwnsItsMemories
<1> QED BY <1>3, <1>4, <1>6 DEF PoolInv, PoolServes

LEMMA SetNonBlockingKeeps ==
    ASSUME PoolInv, NEW enable \in BOOLEAN, SetNonBlocking(enable)
    PROVE  PoolInv'
<1>1. /\ force' = enable /\ asleep' = (IF enable THEN {} ELSE asleep) /\ PoolTypeOK
      /\ UNCHANGED <<option, inited, idle, busy, sizeOf, acquiring>>
  BY DEF SetNonBlocking, PoolInv
<1>2. PoolTypeOK' /\ FixedSizes'
  BY <1>1 DEF PoolInv, PoolTypeOK, FixedSizes
<1>3. PoolOwnsItsMemories'
  BY <1>1 DEF PoolInv, PoolServes, PoolOwnsItsMemories, NothingIsForgotten, InPool
<1>4. PoolSleeperIsUnserved'
  <2>1. \A d \in asleep : Exhausted(acquiring[d])
    BY DEF PoolInv, PoolServes, PoolSleeperIsUnserved
  <2> QED BY <1>1, <2>1 DEF PoolSleeperIsUnserved, Exhausted, Fitting, InPool
<1> QED BY <1>2, <1>3, <1>4 DEF PoolInv, PoolServes

\* Reset gives back what is idle, and wakes everybody.
LEMMA ResetKeeps ==
    ASSUME PoolInv, Reset
    PROVE  PoolInv'
<1>1. /\ sizeOf' = [m \in Memories |-> IF m \in ToSet(idle) THEN 0 ELSE sizeOf[m]]
      /\ idle' = <<>> /\ inited' = FALSE /\ force' = FALSE /\ asleep' = {} /\ PoolTypeOK
      /\ UNCHANGED <<option, busy, acquiring>>
  BY DEF Reset, PoolInv
<1>2. idle' \in Seq(Memories) /\ Len(idle') = 0 /\ ToSet(idle') = {} /\ IsInjective(idle')
  BY <1>1, EmptySeq DEF ToSet, IsInjective
<1>3. PoolTypeOK' /\ FixedSizes'
  BY <1>1, <1>2 DEF PoolInv, PoolTypeOK, FixedSizes
<1>4. PoolSleeperIsUnserved'
  BY <1>1 DEF PoolSleeperIsUnserved
<1>5. ASSUME option.fixed
      PROVE  (NothingIsForgotten /\ busy \cap ToSet(idle) = {} /\ IsInjective(idle) /\ InPool <= option.max)'
  <2>1. NothingIsForgotten /\ busy \cap ToSet(idle) = {} /\ InPool <= option.max
    BY <1>5 DEF PoolInv, PoolServes, PoolOwnsItsMemories
  <2>2. NothingIsForgotten'
    BY <1>1, <1>2, <2>1 DEF NothingIsForgotten
  <2>3. (InPool <= option.max)'
    BY <1>1, <1>2, <2>1, PoolFacts DEF InPool
  <2> QED BY <1>2, <2>2, <2>3
<1>6. PoolOwnsItsMemories'
  BY <1>1, <1>5 DEF PoolOwnsItsMemories
<1> QED BY <1>3, <1>4, <1>6 DEF PoolInv, PoolServes

LEMMA PoolStepKeeps == PoolInv /\ [PoolNext]_poolVars => PoolInv'
<1> SUFFICES ASSUME PoolInv, [PoolNext]_poolVars PROVE PoolInv'
  OBVIOUS
<1>1. CASE UNCHANGED poolVars
  BY <1>1 DEF poolVars, PoolInv, PoolTypeOK, FixedSizes, PoolServes, PoolSleeperIsUnserved,
              PoolOwnsItsMemories, NothingIsForgotten, Exhausted, Fitting, InPool
<1>2. CASE PoolNext
  BY <1>2, TakeIdleKeeps, AllocateNewKeeps, ReplaceSmallestKeeps, AcquireFailsKeeps,
     WaitForMemoryKeeps, WakingKeeps, ReleaseMemoryKeeps, SetNonBlockingKeeps, ResetKeeps
     DEF PoolNext
<1> QED BY <1>1, <1>2

\* PoolTypeOK is an invariant of the pool.
THEOREM PoolTypeCorrect == PoolSpec => []PoolTypeOK
<1>1. PoolInv => PoolTypeOK
  BY DEF PoolInv
<1> QED BY <1>1, InitIsGood, PoolStepKeeps, PTL DEF PoolSpec

\* avsharedmemorypool.cpp:87, :126, :192: whoever sleeps in AcquireMemory could not be
\* served, whatever was released, reset and set non-blocking; and a pool of fixed size has
\* each memory that it allocated in one list, once, and never more than its maximum.
THEOREM PoolServesAll == PoolSpec => []PoolServes
<1>1. PoolInv => PoolServes
  BY DEF PoolInv
<1> QED BY <1>1, InitIsGood, PoolStepKeeps, PTL DEF PoolSpec
=============================================================================
