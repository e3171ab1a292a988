-------------------------- MODULE AVSharedMemoryPool --------------------------
(***************************************************************************)
(* AVSharedMemoryPool (src/src/common/avsharedmemorypool.cpp): a pool of   *)
(* shared memories, from which the source of a stream that the application *)
(* feeds takes what it reads into.  A client that finds the pool exhausted *)
(* sleeps on cond_ until a memory comes back.                              *)
(*                                                                         *)
(* Every operation is one critical section of mutex_; the initial states   *)
(* are those after the constructor and Init, whose failure the source does *)
(* not look at.  A memory is an address, sizeOf is 0 when nothing is       *)
(* allocated there.                                                        *)
(*                                                                         *)
(* ReleaseSilently is a faulty version of the operator below it, with      *)
(* which a property is shown to fail.                                      *)
(***************************************************************************)
EXTENDS Naturals, FiniteSets, Sequences, SequencesExt

CONSTANTS
    PoolClients,    \* the threads that acquire memories
    Memories,       \* addresses: a bound on what is allocated at a time
    PoolOptions,    \* InitializeOption: preAlloc, size, max and fixed
    Sizes,          \* what clients ask for
    AllocMayFail

ASSUME PoolAssumption ==
    /\ PoolOptions \subseteq
           [preAlloc : Nat, size : Nat \ {0}, max : Nat \ {0}, fixed : BOOLEAN]
    /\ Sizes \subseteq Nat \ {0}
    /\ AllocMayFail \in BOOLEAN
    /\ IsFiniteSet(Memories)

VARIABLES
    option,         \* option_
    inited,         \* inited_
    idle,           \* idleList_
    busy,           \* busyList_, the memories the clients hold
    sizeOf,         \* the size of the memory at an address
    force,          \* forceNonBlocking_
    acquiring,      \* the size each client waits for in AcquireMemory, or 0
    asleep          \* clients asleep on cond_, not yet notified

poolVars == <<option, inited, idle, busy, sizeOf, force, acquiring, asleep>>

PoolTypeOK ==
    /\ option \in PoolOptions
    /\ {inited, force} \subseteq BOOLEAN
    /\ idle \in Seq(Memories)
    /\ busy \subseteq Memories
    /\ sizeOf \in [Memories -> Nat]
    /\ acquiring \in [PoolClients -> Nat]
    /\ asleep \subseteq PoolClients

-----------------------------------------------------------------------------

Unused(f) == {m \in Memories : f[m] = 0}

\* AllocMemory, n times over.
Allocated(fresh, size) == [m \in Memories |-> IF m \in fresh THEN size ELSE sizeOf[m]]

PreAllocated(o) == IF o.preAlloc < o.max THEN o.preAlloc ELSE o.max

InPool == Cardinality(busy) + Len(idle)

Fitting(size) == {i \in DOMAIN idle : sizeOf[idle[i]] >= size}

\* The first of the smallest idle memories.
Smallest ==
    CHOOSE i \in DOMAIN idle : \A j \in DOMAIN idle :
        sizeOf[idle[i]] < sizeOf[idle[j]] \/ (sizeOf[idle[i]] = sizeOf[idle[j]] /\ i <= j)

CheckSize(size) == option.fixed => size <= option.size

Asked(size) == IF option.fixed THEN option.size ELSE size

\* When an allocation fails, those before it stay in idleList_.
PoolInit ==
    /\ option \in PoolOptions
    /\ \E fresh \in SUBSET Memories :
           /\ \/ Cardinality(fresh) = PreAllocated(option) /\ inited = TRUE
              \/ AllocMayFail /\ Cardinality(fresh) < PreAllocated(option) /\ inited = FALSE
           /\ idle = SetToSeq(fresh)
           /\ sizeOf = [m \in Memories |-> IF m \in fresh THEN option.size ELSE 0]
    /\ busy = {}
    /\ force = FALSE
    /\ acquiring = [c \in PoolClients |-> 0]
    /\ asleep = {}

-----------------------------------------------------------------------------
(* DoAcquireMemory and what AcquireMemory makes of its result.  A client   *)
(* gets to it when it calls, or awake from its wait and in the loop.       *)

Acquires(c, size) ==
    \/ acquiring[c] = 0 /\ \E s \in Sizes : CheckSize(s) /\ size = Asked(s)
    \/ acquiring[c] = size /\ size # 0 /\ c \notin asleep /\ inited /\ ~force

AcquireReturns(c) == acquiring' = [acquiring EXCEPT ![c] = 0]

TakeIdle(c, size) ==
    /\ Acquires(c, size)
    /\ Fitting(size) # {}
    /\ LET first == CHOOSE i \in Fitting(size) : \A j \in Fitting(size) : i <= j
       IN  /\ idle' = RemoveAt(idle, first)
           /\ busy' = busy \cup {idle[first]}
    /\ AcquireReturns(c)
    /\ UNCHANGED <<option, inited, sizeOf, force, asleep>>

AllocateNew(c, size) ==
    /\ Acquires(c, size)
    /\ Fitting(size) = {} /\ InPool < option.max
    /\ option.fixed \/ idle = <<>>
    /\ \E m \in Unused(sizeOf) :
           /\ sizeOf' = Allocated({m}, size)
           /\ busy' = busy \cup {m}
    /\ AcquireReturns(c)
    /\ UNCHANGED <<option, inited, idle, force, asleep>>

\* The smallest idle memory makes room for a larger one.  When the pool is
\* below its maximum a memory has been allocated before, and is forgotten.
ReplaceSmallest(c, size) ==
    /\ Acquires(c, size)
    /\ Fitting(size) = {} /\ ~option.fixed /\ idle # <<>>
    /\ \E fresh \in SUBSET Unused(sizeOf) :
           /\ Cardinality(fresh) = IF InPool < option.max THEN 2 ELSE 1
           /\ sizeOf' = [Allocated(fresh, size) EXCEPT ![idle[Smallest]] = 0]
           /\ \E m \in fresh : busy' = busy \cup {m}
    /\ idle' = RemoveAt(idle, Smallest)
    /\ AcquireReturns(c)
    /\ UNCHANGED <<option, inited, force, asleep>>

\* An allocation fails: of a new memory, or of the one that replaces the
\* smallest, which is gone by then.  Below the maximum one that was allocated
\* before is forgotten.
AcquireFails(c, size) ==
    /\ AllocMayFail
    /\ Acquires(c, size)
    /\ Fitting(size) = {}
    /\ \/ /\ InPool < option.max
          /\ UNCHANGED <<idle, sizeOf>>
       \/ /\ ~option.fixed /\ idle # <<>>
          /\ idle' = RemoveAt(idle, Smallest)
          /\ \E fresh \in SUBSET Unused(sizeOf) :
                 /\ Cardinality(fresh) = IF InPool < option.max THEN 1 ELSE 0
                 /\ sizeOf' = [Allocated(fresh, size) EXCEPT ![idle[Smallest]] = 0]
    /\ AcquireReturns(c)
    /\ UNCHANGED <<option, inited, busy, force, asleep>>

Exhausted(size) == Fitting(size) = {} /\ InPool >= option.max /\ (option.fixed \/ idle = <<>>)

\* A call that may block sleeps; the others leave the state as it is.
WaitForMemory(c, size) ==
    /\ Acquires(c, size)
    /\ Exhausted(size) /\ ~force
    /\ acquiring' = [acquiring EXCEPT ![c] = size]
    /\ asleep' = asleep \cup {c}
    /\ UNCHANGED <<option, inited, idle, busy, sizeOf, force>>

\* Woken in a pool that was reset or set non-blocking: no memory.
WaitIsOver(c) ==
    /\ acquiring[c] # 0 /\ c \notin asleep
    /\ ~inited \/ force
    /\ AcquireReturns(c)
    /\ UNCHANGED <<option, inited, idle, busy, sizeOf, force, asleep>>

SpuriousPoolWakeup(c) ==
    /\ c \in asleep
    /\ asleep' = asleep \ {c}
    /\ UNCHANGED <<option, inited, idle, busy, sizeOf, force, acquiring>>

-----------------------------------------------------------------------------

ReleaseSilently(m) ==
    /\ m \in busy
    /\ busy' = busy \ {m}
    /\ idle' = Append(idle, m)
    /\ asleep' = IF asleep = {} THEN {} ELSE asleep \ {CHOOSE c \in asleep : TRUE}
    /\ UNCHANGED <<option, inited, sizeOf, force, acquiring>>

\* The last reference to a memory goes.  It returns to idleList_ also when
\* the pool was reset since.
ReleaseMemory(m) ==
    /\ m \in busy
    /\ busy' = busy \ {m}
    /\ idle' = Append(idle, m)
    /\ asleep' = {}
    /\ UNCHANGED <<option, inited, sizeOf, force, acquiring>>

SetNonBlocking(enable) ==
    /\ force' = enable
    /\ asleep' = IF enable THEN {} ELSE asleep
    /\ UNCHANGED <<option, inited, idle, busy, sizeOf, acquiring>>

\* The memories that clients hold stay in busyList_, and option_ stays.
Reset ==
    /\ sizeOf' = [m \in Memories |-> IF m \in ToSet(idle) THEN 0 ELSE sizeOf[m]]
    /\ idle' = <<>>
    /\ inited' = FALSE
    /\ force' = FALSE
    /\ asleep' = {}
    /\ UNCHANGED <<option, busy, acquiring>>

PoolNext ==
    \/ \E c \in PoolClients, size \in Sizes :
           \/ TakeIdle(c, size) \/ AllocateNew(c, size) \/ ReplaceSmallest(c, size)
           \/ AcquireFails(c, size) \/ WaitForMemory(c, size)
    \/ \E c \in PoolClients : WaitIsOver(c) \/ SpuriousPoolWakeup(c)
    \/ \E m \in Memories : ReleaseMemory(m)
    \/ \E enable \in BOOLEAN : SetNonBlocking(enable)
    \/ Reset

PoolSpec == PoolInit /\ [][PoolNext]_poolVars

-----------------------------------------------------------------------------
(* Properties.                                                             *)

\* avsharedmemorypool.cpp:192: a client that sleeps for a memory could not be
\* served: whatever makes a memory available has woken all of them.
PoolSleeperIsUnserved == \A c \in asleep : Exhausted(acquiring[c]) /\ ~force

\* avsharedmemorypool.cpp:87, :126: a memory of a pool of fixed size is in one
\* of its lists, once, and there are never more than maxMemCnt of them,
\* whoever acquires, releases and resets.
NothingIsForgotten == {m \in Memories : sizeOf[m] # 0} = busy \cup ToSet(idle)

PoolOwnsItsMemories ==
    option.fixed =>
        /\ NothingIsForgotten
        /\ busy \cap ToSet(idle) = {}
        /\ IsInjective(idle)
        /\ InPool <= option.max

\* What the pool is for: it serves whom it can, and keeps track of what it has.
PoolServes == PoolSleeperIsUnserved /\ PoolOwnsItsMemories

\* NOT so: NothingIsForgotten in a pool of variable size, where AcquireMemory allocates,
\* replaces the smallest idle memory, and loses what it allocated first.
VariablePoolForgetsNothing == ~option.fixed => NothingIsForgotten

=============================================================================
