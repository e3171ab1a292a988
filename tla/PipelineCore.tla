---------------------------- MODULE PipelineCore ----------------------------
(***************************************************************************)
(* PipelineCore, the list of filters a player or a recorder drives, and    *)
(* the state FilterBase keeps for each of them.                            *)
(*                                                                         *)
(* An operation visits the filters from the last of the list to the first: *)
(* the sinks before what feeds them.  Start, Resume, Stop and Prepare stop *)
(* at the first filter that refuses; the filters visited before it keep    *)
(* the state they got.  Every filter posts an EVENT_READY, from whatever   *)
(* thread it finds itself in, and the pipeline tells its receiver when it  *)
(* has counted as many of them as it has filters: readyEventCnt_ is a      *)
(* plain counter that no lock guards, so the count is taken in steps.      *)
(*                                                                         *)
(* The operators below are conjoined to the steps of the threads that make *)
(* the calls (module HiPlayer).  A visit is one step: what the visited     *)
(* filters wait for is a guard of the caller.                              *)
(***************************************************************************)
EXTENDS Integers, Sequences, SequencesExt

VARIABLES
    filters,        \* filters_
    fstate,         \* state_ of each filter
    readyCnt,       \* readyEventCnt_
    pipeState,      \* state_ of the pipeline
    readying        \* the threads in OnEvent(EVENT_READY): where, and the count each has read

pipeVars == <<filters, fstate, readyCnt, pipeState, readying>>

Filters == {"source", "demuxer", "adec", "asink", "vdec", "vsink"}
Sinks == {"asink", "vsink"}
PostingThreads == {"caller", "demuxer", "source"}
FilterStates == {"CREATED", "INITIALIZED", "PREPARING", "READY", "RUNNING", "PAUSED"}

PipeTypeOK ==
    /\ filters \in Seq(Filters) /\ IsInjective(filters)
    /\ fstate \in [Filters -> FilterStates]
    /\ readyCnt \in Nat
    /\ readying \in [PostingThreads -> [at : {"out", "read", "write", "compare", "set", "tell", "reset"},
                                      got : Nat]]
    /\ pipeState \in FilterStates

\* AddFilters({source, demuxer}), InitFilters: the pipeline a scene starts from.
PipeInit ==
    /\ filters = <<"source", "demuxer">>
    /\ fstate = [f \in Filters |-> IF f \in ToSet(filters) THEN "INITIALIZED" ELSE "CREATED"]
    /\ readyCnt = 0 /\ pipeState = "INITIALIZED"
    /\ readying = [t \in PostingThreads |-> [at |-> "out", got |-> 0]]

-----------------------------------------------------------------------------
\* The filters an operation reaches when those of the set refuse it: the first that
\* refuses is the last reached; those that accept it are visited.
Reached(refusing) ==
    {filters[i] : i \in {k \in DOMAIN filters :
                            \A j \in k + 1 .. Len(filters) : filters[j] \notin refusing}}
Visited(refusing) == Reached(refusing) \ refusing
AllVisited(refusing) == Visited(refusing) = ToSet(filters)

\* Nothing reads the state of the source filter, which overrides most operations.
Moved(fs, to) == [f \in Filters |-> IF f \in fs \ {"source"} THEN to ELSE fstate[f]]

\* FilterBase::Prepare refuses a filter that is not INITIALIZED; the source and
\* the demuxer have a Prepare of their own that does not look.
NotPreparable == {f \in Filters \ {"source", "demuxer"} : fstate[f] # "INITIALIZED"}

PipePrepare ==
    /\ pipeState' = "PREPARING"
    /\ fstate' = Moved(Visited(NotPreparable), "PREPARING")
    /\ UNCHANGED <<filters, readyCnt, readying>>

\* Codecs and sinks start from READY or PAUSED.
NotStartable == {f \in Filters \ {"source", "demuxer"} : fstate[f] \notin {"READY", "PAUSED"}}

\* A filter whose plug-in is broken is RUNNING all the same.
PipeStart(broken) ==
    /\ pipeState' = "RUNNING"
    /\ fstate' = Moved(Visited(NotStartable) \intersect Reached(broken), "RUNNING")
    /\ UNCHANGED <<filters, readyCnt, readying>>

PipePauses == pipeState \in {"READY", "RUNNING"}
PipePauseOK == PipePauses \/ pipeState = "PAUSED"

\* A sink that is not working refuses to pause; the pipeline goes on to the next filter.
PipePause ==
    /\ pipeState' = IF PipePauses THEN "PAUSED" ELSE pipeState
    /\ fstate' = IF PipePauses
                 THEN Moved({f \in ToSet(filters) : f \notin Sinks \/ fstate[f] \in {"READY", "RUNNING"}}, "PAUSED")
                 ELSE fstate
    /\ UNCHANGED <<filters, readyCnt, readying>>

\* FilterBase::Resume does nothing: only the sinks run again.
PipeResume ==
    /\ pipeState' = "RUNNING"
    /\ fstate' = Moved({f \in ToSet(filters) \intersect Sinks : fstate[f] = "PAUSED"}, "RUNNING")
    /\ UNCHANGED <<filters, readyCnt, readying>>

-----------------------------------------------------------------------------
(* Stop: the codecs and sinks first, then the demuxer, which gives up its  *)
(* ports: PORT_REMOVE makes the player mark the filters behind them for    *)
(* removal, and the pipeline drops those once every filter has stopped.    *)

PipeStopDownstream(refusing) ==
    /\ readyCnt' = 0
    /\ pipeState' = "INITIALIZED"
    /\ fstate' = Moved(Visited(refusing) \ {"demuxer"}, "INITIALIZED")
    /\ UNCHANGED <<filters, readying>>

PipeStopDemuxer ==
    /\ fstate' = [fstate EXCEPT !["demuxer"] = "INITIALIZED"]
    /\ UNCHANGED <<filters, readyCnt, pipeState, readying>>

PipeRemoves ==
    /\ filters' = SelectSeq(filters, LAMBDA f : f \in {"source", "demuxer"})
    /\ UNCHANGED <<fstate, readyCnt, pipeState, readying>>

\* AddFilters and InitFilters; filters already in the list are left as they are.
PipeAdd(new) ==
    LET added == SelectSeq(new, LAMBDA f : f \notin ToSet(filters)) IN
    /\ filters' = filters \o added
    /\ fstate' = [f \in Filters |-> CASE f \in ToSet(added) -> "PREPARING"
                                      [] f \in ToSet(new) /\ fstate[f] = "INITIALIZED" -> "PREPARING"
                                      [] OTHER -> fstate[f]]
    /\ UNCHANGED <<readyCnt, pipeState, readying>>

-----------------------------------------------------------------------------
(* OnEvent(EVENT_READY), in the thread t of a filter: the increment reads  *)
(* and writes the count, which is read again to be compared; the thread    *)
(* that finds it complete sets the state, tells the receiver, and only     *)
(* then resets the count.                                                  *)

PostsFor(t, from, to, got) ==
    /\ readying[t].at = from
    /\ readying' = [readying EXCEPT ![t] = [at |-> to, got |-> got]]

Outside(t) == readying[t].at = "out"

\* A filter is READY before it posts.
PipePosts(t, f) ==
    /\ PostsFor(t, "out", "read", 0)
    /\ fstate' = Moved({f}, "READY")
    /\ UNCHANGED <<filters, readyCnt, pipeState>>

PipeReadsCount(t) ==
    /\ PostsFor(t, "read", "write", readyCnt)
    /\ UNCHANGED <<filters, fstate, readyCnt, pipeState>>

PipeCounts(t) ==
    /\ PostsFor(t, "write", "compare", 0)
    /\ readyCnt' = readying[t].got + 1
    /\ UNCHANGED <<filters, fstate, pipeState>>

PipeCompares(t) ==
    /\ PostsFor(t, "compare", IF readyCnt = Len(filters) THEN "set" ELSE "out", 0)
    /\ UNCHANGED <<filters, fstate, readyCnt, pipeState>>

PipeSetsReady(t) ==
    /\ PostsFor(t, "set", "tell", 0)
    /\ pipeState' = "READY"
    /\ UNCHANGED <<filters, fstate, readyCnt>>

PipeTells(t) ==
    /\ PostsFor(t, "tell", "reset", 0)
    /\ UNCHANGED <<filters, fstate, readyCnt, pipeState>>

PipeResets(t) ==
    /\ PostsFor(t, "reset", "out", 0)
    /\ readyCnt' = 0
    /\ UNCHANGED <<filters, fstate, pipeState>>

=============================================================================
