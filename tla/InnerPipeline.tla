----------------------------- MODULE InnerPipeline -----------------------------
(***************************************************************************)
(* Pipeline, Filter and FilterFactory of the inner API (src/src/pipeline,  *)
(* src/src/filter): filters hang together in nextFiltersMap_, a pipeline   *)
(* knows the heads, and a command goes to the heads in their order and     *)
(* from each filter to the next ones.                                      *)
(*                                                                         *)
(* A command sets state_, and then is a job that SubmitJobOnce runs, in    *)
(* place or on another thread while the caller waits.  The job holds       *)
(* mutex_; state_, the test of AddHeadFilters and LinkFilters do not.  One *)
(* action is a filter's own part of a command.                             *)
(*                                                                         *)
(* What a filter does itself is its subclass's (external): it may fail,    *)
(* then it has not passed the command on, and LinkNext keeps what it is    *)
(* given.  Clients link what is not reachable backwards: there are no      *)
(* rings.                                                                  *)
(***************************************************************************)
EXTENDS Integers, Sequences, SequencesExt, FiniteSets

CONSTANTS PlClients, PlFilters,   \* threads that call the pipeline; filters, numbers: a link goes to a higher one
          PlTypes,                \* stream types, in the order of StreamType
          PlCommands,             \* what clients call
          PlBuilds,               \* pipelines to begin with, left by earlier calls: heads, next filters
                                  \* by type, state_, and what the filters were told last
          FactoryTypes,           \* filter types that plug-in libraries register
          MaxPlCalls, MaxPlFailures   \* bounds: calls, failures of filters

ASSUME PlAssumption ==
    /\ PlFilters \subseteq Nat /\ IsFiniteSet(PlFilters) /\ IsFiniteSet(PlClients) /\ PlTypes \in Seq(STRING)
    /\ {MaxPlCalls, MaxPlFailures} \subseteq Nat

VARIABLES
    plState,      \* state_
    plHeads,      \* filters_
    plNext,       \* nextFiltersMap_ of every filter: lists by stream type
    plFilter,     \* what each filter has been told last
    plCall,       \* each client's call: its command, what it takes, how far it is, the calls of filters to come
    plOwner,      \* who has mutex_
    plJob,        \* the last job: its command, the filters it reached, whether a head failed, whether links changed
    plFailures, plCalls, plOverlap,   \* failures and calls so far; two commands have been under way at once
    plGenerators, \* FilterFactory's generators: "make", "null"
    plMade        \* what CreateFilter came to last

plFactory == <<plGenerators, plMade>>
plBounds == <<plFailures, plCalls, plOverlap>>
plVars == <<plState, plHeads, plNext, plFilter, plCall, plOwner, plJob, plBounds, plFactory>>

PlQuiet == [op |-> "none", at |-> "idle", filter |-> 0, todo |-> <<>>]
NoPlJob == [op |-> "none", reached |-> {}, failed |-> FALSE, changed |-> FALSE]
Nobody == "nobody"

FilterState == {"CREATED", "INITIALIZED", "PREPARING", "READY", "RUNNING", "PAUSED"}

PlTypeOK ==
    /\ plState \in FilterState
    /\ plHeads \in Seq(PlFilters) /\ plOwner \in PlClients \cup {Nobody}
    /\ \A c \in PlClients : plCall[c].at \in {"idle", "waits", "runs"} /\ plCall[c].todo \in Seq(PlFilters \X BOOLEAN)
    /\ \A f \in PlFilters : \A t \in ToSet(PlTypes) : plNext[f][t] \in Seq(PlFilters)
    /\ plJob.reached \subseteq PlFilters /\ plMade \in {"nothing", "filter", "null", "bad call"}

PlInit ==
    /\ \E b \in PlBuilds : /\ plHeads = b.heads /\ plNext = b.next /\ plState = b.state
                          /\ plFilter = [f \in PlFilters |-> b.told]
    /\ plOwner = Nobody /\ plJob = NoPlJob
    /\ plCall = [c \in PlClients |-> PlQuiet]
    /\ plFailures = 0 /\ plCalls = 0 /\ plOverlap = FALSE
    /\ plGenerators = [t \in FactoryTypes |-> "none"] /\ plMade = "nothing"

-----------------------------------------------------------------------------
(* The calls, up to their jobs.                                            *)

Busy(c) == plCall[c].at # "idle"
AllIdle == \A c \in PlClients : ~Busy(c)
Others(c) == PlClients \ {c}
PlMay(c) == ~Busy(c) /\ plCalls < MaxPlCalls /\ plCalls' = plCalls + 1
PlOverlaps(c) == plOverlap' = (plOverlap \/ \E o \in Others(c) : Busy(o))
SubmitJobOnce(c, op, f) == plCall' = [plCall EXCEPT ![c] = [op |-> op, at |-> "waits", filter |-> f, todo |-> <<>>]]
Unjobbed == UNCHANGED <<plHeads, plNext, plFilter, plOwner, plJob, plFailures, plFactory>>
PlCommandOf(c, op) == PlMay(c) /\ op \in PlCommands /\ SubmitJobOnce(c, op, 0) /\ PlOverlaps(c) /\ Unjobbed

PlPrepare(c) == PlCommandOf(c, "Prepare") /\ plState' = "PREPARING"
PlStart(c) == PlCommandOf(c, "Start") /\ plState' = "RUNNING"
PlStop(c) == PlCommandOf(c, "Stop") /\ plState' = "INITIALIZED"
PlRelease(c) == PlCommandOf(c, "Release") /\ plState' = "CREATED"
PlResume(c) == PlCommandOf(c, "Resume") /\ plState' = plState   \* the job sets it
PlFlush(c) == PlCommandOf(c, "Flush") /\ plState' = plState

PipelineInit(c) == /\ PlMay(c) /\ plState = "CREATED" /\ plState' = "INITIALIZED"
                   /\ UNCHANGED <<plCall, plOverlap>> /\ Unjobbed

\* Of a paused pipeline nothing is asked, and one that neither runs nor is ready refuses: READY is never reached,
\* for OnEvent does nothing.
PlPause(c) ==
    \/ plState \in {"READY", "RUNNING"} /\ PlCommandOf(c, "Pause") /\ plState' = "PAUSED"
    \/ plState \notin {"READY", "RUNNING"} /\ "Pause" \in PlCommands /\ PlMay(c)
       /\ UNCHANGED <<plState, plCall, plOverlap>> /\ Unjobbed

\* What is a head already is left out; the list is read without mutex_.
AddHeadFilters(c, f) ==
    /\ PlMay(c) /\ plState' = plState /\ PlOverlaps(c) /\ Unjobbed
    /\ \/ f \notin ToSet(plHeads) /\ SubmitJobOnce(c, "Add", f)
       \/ f \in ToSet(plHeads) /\ plCall' = plCall

RemoveHeadFilter(c, f) == PlMay(c) /\ SubmitJobOnce(c, "Remove", f) /\ plState' = plState /\ PlOverlaps(c) /\ Unjobbed

\* LinkFilters and UpdateFilters call the filter at once, without a job and without mutex_.
LinkFilters(c, f, g, t) ==
    /\ PlMay(c) /\ f < g /\ g \notin ToSet(plNext[f][t])
    /\ plNext' = [plNext EXCEPT ![f][t] = Append(@, g)]
    /\ plJob' = [plJob EXCEPT !.changed = TRUE]
    /\ UNCHANGED <<plState, plHeads, plFilter, plCall, plOwner, plFailures, plOverlap, plFactory>>

UnLinkFilters(c, f, g, t) ==
    /\ PlMay(c) /\ g \in ToSet(plNext[f][t])
    /\ plNext' = [plNext EXCEPT ![f][t] = SelectSeq(@, LAMBDA h : h # g)]
    /\ plJob' = [plJob EXCEPT !.changed = TRUE]
    /\ UNCHANGED <<plState, plHeads, plFilter, plCall, plOwner, plFailures, plOverlap, plFactory>>

-----------------------------------------------------------------------------
(* The jobs.                                                               *)

\* The next filters of f by type and in the order they were linked.
NextOf(f) == FoldLeft(LAMBDA acc, t : acc \o plNext[f][t], <<>>, PlTypes)
AsNext(list) == [i \in DOMAIN list |-> <<list[i], FALSE>>]
AsHeads(list) == [i \in DOMAIN list |-> <<list[i], TRUE>>]

Locks(c) == plCall[c].at = "waits" /\ plOwner = Nobody
Finishes(c) == plCall' = [plCall EXCEPT ![c] = PlQuiet] /\ plOwner' = Nobody

PlJobStarts(c) ==
    /\ Locks(c) /\ plCall[c].op \in PlCommands \cup {"Remove"} /\ plOwner' = c
    /\ LET f == plCall[c].filter
           todo == IF plCall[c].op = "Remove" THEN <<<<f, TRUE>>>> ELSE AsHeads(plHeads) IN
       /\ plCall' = [plCall EXCEPT ![c].at = "runs", ![c].todo = todo]
       /\ plJob' = [NoPlJob EXCEPT !.op = plCall[c].op]
       /\ plHeads' = IF plCall[c].op = "Remove" /\ f \in ToSet(plHeads)
                     THEN RemoveAt(plHeads, CHOOSE i \in DOMAIN plHeads :
                                                plHeads[i] = f /\ \A j \in 1 .. i - 1 : plHeads[j] # f)
                     ELSE plHeads
    /\ UNCHANGED <<plState, plNext, plFilter, plBounds, plFactory>>

PlAdds(c) ==
    /\ Locks(c) /\ plCall[c].op = "Add" /\ plHeads' = Append(plHeads, plCall[c].filter)
    /\ plCall' = [plCall EXCEPT ![c] = PlQuiet] /\ plJob' = [plJob EXCEPT !.changed = TRUE]
    /\ UNCHANGED <<plState, plNext, plFilter, plOwner, plBounds, plFactory>>

Releasing(op) == op \in {"Release", "Remove"}
Told(f, op) == plFilter' = [plFilter EXCEPT ![f] = IF Releasing(op) THEN "Release" ELSE op]
\* Release forgets the next filters.
Forgets(f, op) == plNext' = IF Releasing(op) THEN [plNext EXCEPT ![f] = [t \in ToSet(PlTypes) |-> <<>>]] ELSE plNext

\* A bug a change could bring: a filter of several next ones passes the command to the first.
PassesToFirst(c, f) == AsNext(IF NextOf(f) = <<>> THEN <<>> ELSE <<Head(NextOf(f))>>) \o Tail(plCall[c].todo)

\* Filter::Prepare, Start, ...: the next filters come before the rest, and what they answer does not matter.
PassesOn(c, f) == AsNext(NextOf(f)) \o Tail(plCall[c].todo)

FilterDoes(c) ==
    /\ plOwner = c /\ plCall[c].at = "runs" /\ plCall[c].todo # <<>>
    /\ LET f == Head(plCall[c].todo)[1] IN
       /\ plCall' = [plCall EXCEPT ![c].todo = PassesOn(c, f)]
       /\ Told(f, plCall[c].op) /\ Forgets(f, plCall[c].op)
       /\ plJob' = [plJob EXCEPT !.reached = @ \cup {f}]
    /\ UNCHANGED <<plState, plHeads, plOwner, plBounds, plFactory>>

\* A head that fails ends Prepare, Start, Resume and Stop; the caller is told OK.
PlGivesUp(op) == op \in {"Prepare", "Start", "Resume", "Stop"}
FilterFails(c) ==
    /\ plOwner = c /\ plCall[c].at = "runs" /\ plCall[c].todo # <<>> /\ plFailures < MaxPlFailures
    /\ LET call == plCall[c]
           isHead == Head(call.todo)[2] IN
       /\ call.op \in PlCommands \ {"Release"}
       /\ plCall' = [plCall EXCEPT ![c] = IF isHead /\ PlGivesUp(call.op) THEN PlQuiet ELSE [call EXCEPT !.todo = Tail(@)]]
       /\ plOwner' = IF isHead /\ PlGivesUp(call.op) THEN Nobody ELSE c
       /\ plJob' = [plJob EXCEPT !.failed = TRUE]
    /\ plFailures' = plFailures + 1
    /\ UNCHANGED <<plState, plHeads, plNext, plFilter, plCalls, plOverlap, plFactory>>

PlJobEnds(c) ==
    /\ plOwner = c /\ plCall[c].at = "runs" /\ plCall[c].todo = <<>> /\ Finishes(c)
    /\ plState' = IF plCall[c].op = "Resume" THEN "RUNNING" ELSE plState
    /\ plHeads' = IF plCall[c].op = "Release" THEN <<>> ELSE plHeads
    /\ UNCHANGED <<plNext, plFilter, plJob, plBounds, plFactory>>

-----------------------------------------------------------------------------
(* FilterFactory, which libraries tell of their filters when they are      *)
(* loaded, before a pipeline is used.                                      *)

FactoryRest == UNCHANGED <<plState, plHeads, plNext, plFilter, plCall, plOwner, plJob, plBounds>>

\* A second registration of a type that brings no generator puts the empty one in place of the first.
RegisterFilter(t, generator) ==
    /\ plCalls = 0 /\ plState = "CREATED" /\ plMade' = plMade
    /\ plGenerators' = [plGenerators EXCEPT ![t] = IF @ = "none" \/ generator THEN "make" ELSE "null"]
    /\ FactoryRest

CreateFilter(t) ==
    /\ plCalls = 0 /\ plState = "CREATED" /\ plGenerators' = plGenerators
    /\ plMade' = CASE plGenerators[t] = "none" -> "null" [] plGenerators[t] = "make" -> "filter"
                   [] plGenerators[t] = "null" -> "bad call"
    /\ FactoryRest

PlNextStep ==
    \/ \E c \in PlClients :
          \/ PipelineInit(c) \/ PlPrepare(c) \/ PlStart(c) \/ PlPause(c) \/ PlResume(c) \/ PlStop(c) \/ PlFlush(c) \/ PlRelease(c)
          \/ \E f \in PlFilters : AddHeadFilters(c, f) \/ RemoveHeadFilter(c, f)
          \/ \E f, g \in PlFilters : \E t \in ToSet(PlTypes) : LinkFilters(c, f, g, t) \/ UnLinkFilters(c, f, g, t)
          \/ PlJobStarts(c) \/ PlAdds(c) \/ FilterDoes(c) \/ FilterFails(c) \/ PlJobEnds(c)
    \/ \E t \in FactoryTypes : CreateFilter(t) \/ \E generator \in BOOLEAN : RegisterFilter(t, generator)

PlSpec == PlInit /\ [][PlNextStep]_plVars

-----------------------------------------------------------------------------
(* What the pipeline promises.                                             *)

\* The filters that hang on those of a set, however far.
Onwards(S) == S \cup UNION {ToSet(NextOf(f)) : f \in S}
Reachable == FoldLeft(LAMBDA acc, x : Onwards(acc), ToSet(plHeads), SetToSeq(PlFilters))

\* A command that no filter refuses reaches every filter of the pipeline.
CommandReachesAll ==
    AllIdle /\ ~plJob.failed /\ ~plJob.changed /\ plJob.op \in PlCommands \ {"Release"} => Reachable \subseteq plJob.reached

\* Of a pipeline that is called by one at a time and runs, with no filter that failed, every filter runs.
RunningRuns ==
    AllIdle /\ ~plOverlap /\ plFailures = 0 /\ ~plJob.changed /\ plState = "RUNNING" /\ plJob.op \in {"Start", "Resume"}
        => \A f \in Reachable : plFilter[f] \in {"Start", "Resume"}

\* What was released is not told any more, unless it has been put in again.
ReleasedIsLeft == AllIdle /\ plJob.op = "Release" /\ ~plJob.changed => plHeads = <<>>

PipelineReaches == CommandReachesAll /\ RunningRuns /\ ReleasedIsLeft

\* NOT so with two clients: each sees that the filter is not there.
HeadsAreDifferent == \A i, j \in DOMAIN plHeads : plHeads[i] = plHeads[j] => i = j
\* NOT so: state_ is set before the job, and the jobs may run in another order, or a filter fails.
StateIsOfTheJob == AllIdle /\ plJob.op = "Stop" => plState # "RUNNING"
RunningAfterFailure == AllIdle /\ ~plOverlap /\ plJob.op = "Start" /\ plState = "RUNNING" => ~plJob.failed
\* NOT so: a second registration without a generator.
RegisteredIsMade == plMade # "bad call"
=============================================================================
