------------------------------ MODULE HiPlayer ------------------------------
(***************************************************************************)
(* HiPlayerImpl, the player engine of the standard system, over the filter *)
(* pipeline (PipelineCore), with the completion statistics MediaStatStub.  *)
(*                                                                         *)
(* The engine keeps no lock around its state: the thread of the caller and *)
(* the threads of the pipeline change pipelineStates_ as they come.  They  *)
(* are the caller, whose call is the sequence of steps of the code; the    *)
(* demuxer's Task, which finds the streams, adds and configures the        *)
(* filters behind itself and then reads frames; the thread of a source     *)
(* that is ready only when it has data (an HTTP source), which posts its   *)
(* EVENT_READY whenever that is; and the thread of each sink, which ends a *)
(* stream and handles its own EVENT_COMPLETE.  A Stop, and a flush, wait   *)
(* for the handler a thread is in.                                         *)
(*                                                                         *)
(* The service that owns the engine is external: it calls it from one      *)
(* thread, and in the states the calls are made for.                       *)
(***************************************************************************)
EXTENDS PipelineCore

CONSTANTS Streams,      \* the media's streams: a subset of {"audio", "video"}
          PlayerApi,    \* the calls the service makes
          Faults,       \* what may fail: a subset of {"parse", "negotiate", "start", "seek"}
          LateSources,  \* whether the source may be ready late (ERROR_DELAY_READY)
          MaxRises,     \* bound of the rises of its buffer above the waterline
          MaxPlayerCalls, MaxLateCalls    \* bounds of the calls, with a late source too

ASSUME PlayerAssumption ==
    /\ Streams # {} /\ Streams \subseteq {"audio", "video"}
    /\ Faults \subseteq {"parse", "negotiate", "start", "seek"}
    /\ LateSources \subseteq BOOLEAN /\ LateSources # {}
    /\ MaxRises \in Nat /\ MaxPlayerCalls \in Nat /\ MaxLateCalls \in Nat

VARIABLES
    playerState,    \* pipelineStates_
    script,         \* steps the caller's call has left
    waiting,        \* the caller sleeps on cond_ in Prepare
    apiCalls,       \* calls made
    dPhase,         \* pluginState_ of the demuxer
    dRun, dAt,      \* whether the demuxer's Task runs, and where its handler is
    unconfigured,   \* filters the demuxer has still to configure, in order
    source,         \* the source: whether its plug-in is late, isPluginReady_,
                    \* isAboveWaterline_, and the rises that are left
    sinkAt,         \* where the thread of each sink is
    stats,          \* mediaStats_: sinks appended, and whether they have completed
    readied,        \* filters that posted EVENT_READY since the pipeline stopped (history)
    strayReady,     \* an EVENT_READY crossed a Stop, or was posted twice (history)
    stopFailed      \* a Stop has returned an error (history)

hiVars == <<pipeVars, playerState, script, waiting, apiCalls, dPhase, dRun, dAt,
            unconfigured, source, sinkAt, stats, readied, strayReady, stopFailed>>

PlayerStates == {"INITIALIZED", "PREPARING", "PREPARED", "STARTED", "PAUSED", "STOPPED",
                 "COMPLETE", "ERROR"}
Demuxing == {"idle", "add", "configure", "report"}
SinkPlaces == {"off", "flow", "mark", "check", "reset", "done"}

HiTypeOK ==
    /\ PipeTypeOK
    /\ playerState \in PlayerStates
    /\ waiting \in BOOLEAN /\ dRun \in BOOLEAN
    /\ apiCalls \in Nat
    /\ dPhase \in {"null", "header", "frame"} /\ dAt \in Demuxing
    /\ unconfigured \in Seq(Filters)
    /\ source \in [late : BOOLEAN, ready : BOOLEAN, above : BOOLEAN, rises : 0 .. MaxRises]
    /\ sinkAt \in [Sinks -> SinkPlaces]
    /\ DOMAIN stats \subseteq Sinks /\ \A f \in DOMAIN stats : stats[f] \in BOOLEAN
    /\ readied \subseteq Filters /\ strayReady \in BOOLEAN /\ stopFailed \in BOOLEAN

\* SetSource has returned.
HiInit ==
    /\ PipeInit
    /\ playerState = "INITIALIZED" /\ script = <<>> /\ waiting = FALSE /\ apiCalls = 0
    /\ dPhase = "null" /\ dRun = FALSE /\ dAt = "idle" /\ unconfigured = <<>>
    /\ \E late \in LateSources :
           source = [late |-> late, ready |-> FALSE, above |-> FALSE, rises |-> MaxRises]
    /\ sinkAt = [f \in Sinks |-> "off"]
    /\ stats = <<>>
    /\ readied = {} /\ strayReady = FALSE /\ stopFailed = FALSE

demuxVars  == <<dPhase, dRun, dAt, unconfigured>>
readyVars  == <<source, readied, strayReady>>
callVars   == <<script, apiCalls, stopFailed>>

-----------------------------------------------------------------------------
(* OnStateChanged: the state, then a notification of the thread that waits *)
(* in Prepare.  DoOnError changes the state and notifies nobody.           *)

StateChanged(s) == playerState' = s /\ waiting' = FALSE
StateErred == playerState' = "ERROR" /\ UNCHANGED waiting
StateKept == UNCHANGED <<playerState, waiting>>

\* A Stop has reset the count and is not over.
CountIsReset == script # <<>> /\ Head(script) \in {"stopDemuxer", "stopSource"}

\* A filter posts its EVENT_READY.
PostsReady(t, f) ==
    /\ PipePosts(t, f)
    /\ readied' = readied \union {f}
    /\ strayReady' = (strayReady \/ f \in readied \/ CountIsReset)

\* PipelineCore::OnEvent, and HandleReadyEvent of the player in it.
Telling(t) == PipeTells(t) /\ StateChanged("PREPARED")
Counting(t) == PipeReadsCount(t) \/ PipeCounts(t) \/ PipeCompares(t) \/ PipeSetsReady(t) \/ PipeResets(t)

PostingSteps ==
    /\ \E t \in PostingThreads : Telling(t) \/ (Counting(t) /\ StateKept)
    /\ UNCHANGED <<callVars, demuxVars, readyVars, sinkAt, stats>>

-----------------------------------------------------------------------------
(* The source.  Where its plug-in says ERROR_DELAY_READY it is ready when  *)
(* it was prepared and its buffer has risen above the waterline; how the   *)
(* two flags race is left to module Sources.                               *)

SourceRises ==
    /\ source.late /\ source.rises > 0 /\ Outside("source")
    /\ source' = [source EXCEPT !.rises = @ - 1, !.ready = FALSE, !.above = ~source.ready]
    /\ IF source.ready THEN PostsReady("source", "source")
                       ELSE UNCHANGED <<pipeVars, readied, strayReady>>
    /\ UNCHANGED <<playerState, callVars, waiting, demuxVars, sinkAt, stats>>

-----------------------------------------------------------------------------
(* The demuxer's Task, while it looks for the streams.                     *)

\* PORT_ADDED: NewAudioPortFound, then NewVideoPortFound.
StreamFilters(s) == IF s = "audio" THEN <<"adec", "asink">> ELSE <<"vdec", "vsink">>
ChainOf == (IF "audio" \in Streams THEN StreamFilters("audio") ELSE <<>>)
           \o (IF "video" \in Streams THEN StreamFilters("video") ELSE <<>>)
SinksOf == Sinks \intersect ToSet(ChainOf)

\* Configure goes down to the sink and comes back: a sink is READY before its decoder.
ConfigureOrder == SelectSeq(<<"asink", "adec", "vsink", "vdec">>, LAMBDA f : f \in ToSet(ChainOf))

\* GetMediaInfo reads the header of the media; it may not find one.
DemuxerParses ==
    /\ dRun /\ dPhase = "header" /\ dAt = "idle"
    /\ dAt' = "add"
    /\ UNCHANGED <<pipeVars, playerState, callVars, waiting, dPhase, dRun, unconfigured, sinkAt, stats, readyVars>>

DemuxerParseFails ==
    /\ "parse" \in Faults
    /\ dRun /\ dPhase = "header" /\ dAt = "idle"
    /\ dRun' = FALSE
    /\ StateErred
    /\ UNCHANGED <<pipeVars, callVars, dPhase, dAt, unconfigured, sinkAt, stats, readyVars>>

\* AddFilters takes the mutex PipelineCore::Prepare holds until it has visited the source.
PipeLocked == script # <<>> /\ Head(script) \in {"source", "ready"}

DemuxerAddsFilters ==
    /\ dAt = "add" /\ ~PipeLocked
    /\ PipeAdd(ChainOf)
    /\ stats' = [f \in SinksOf |-> IF f \in DOMAIN stats THEN stats[f] ELSE FALSE]
    /\ dAt' = "configure" /\ unconfigured' = ConfigureOrder
    /\ UNCHANGED <<playerState, callVars, waiting, dPhase, dRun, sinkAt, readyVars>>

DemuxerConfigures ==
    /\ dAt = "configure" /\ unconfigured # <<>>
    /\ PostsReady("demuxer", Head(unconfigured))
    /\ unconfigured' = Tail(unconfigured)
    /\ sinkAt' = [f \in Sinks |-> IF f = Head(unconfigured) THEN "flow" ELSE sinkAt[f]]
    /\ UNCHANGED <<playerState, callVars, waiting, dPhase, dRun, dAt, source, stats>>

\* No plug-in for the stream: its sink and its decoder stay as they are, the task is paused.
DemuxerCannotNegotiate ==
    /\ "negotiate" \in Faults
    /\ dAt = "configure" /\ unconfigured # <<>> /\ Head(unconfigured) \in Sinks
    /\ Outside("demuxer")
    /\ unconfigured' = Tail(Tail(unconfigured))
    /\ dRun' = FALSE
    /\ StateErred
    /\ UNCHANGED <<pipeVars, callVars, dPhase, dAt, sinkAt, stats, readyVars>>

DemuxerReports ==
    /\ dAt = "configure" /\ unconfigured = <<>>
    /\ dPhase' = "frame" /\ dAt' = "report"
    /\ PostsReady("demuxer", "demuxer")
    /\ UNCHANGED <<playerState, callVars, waiting, dRun, unconfigured, source, sinkAt, stats>>

DemuxerReported ==
    /\ dAt = "report" /\ Outside("demuxer")
    /\ dAt' = "idle"
    /\ UNCHANGED <<pipeVars, playerState, callVars, waiting, dPhase, dRun, unconfigured, sinkAt, stats, readyVars>>

-----------------------------------------------------------------------------
(* The thread of a sink: the stream ends, WriteToPluginRefTimeSync of the  *)
(* last frame, and EVENT_COMPLETE handled in this thread.                  *)

SinkGoes(f, from, to) == sinkAt[f] = from /\ sinkAt' = [sinkAt EXCEPT ![f] = to]

SinkEnds(f) ==
    /\ dRun /\ dPhase = "frame" /\ fstate[f] = "RUNNING"
    /\ SinkGoes(f, "flow", "mark")
    /\ UNCHANGED <<pipeVars, playerState, callVars, waiting, demuxVars, stats, readyVars>>

\* ReceiveEvent: a sink that is not in the statistics is not recorded.
SinkMarks(f) ==
    /\ SinkGoes(f, "mark", "check")
    /\ stats' = [g \in DOMAIN stats |-> stats[g] \/ g = f]
    /\ UNCHANGED <<pipeVars, playerState, callVars, waiting, demuxVars, readyVars>>

AllCompleted == \A g \in DOMAIN stats : stats[g]

\* IsEventCompleteAllReceived, DoOnComplete.
SinkChecks(f) ==
    /\ IF AllCompleted THEN SinkGoes(f, "check", "reset") /\ StateChanged("COMPLETE")
                       ELSE SinkGoes(f, "check", "done") /\ StateKept
    /\ UNCHANGED <<pipeVars, callVars, demuxVars, stats, readyVars>>

SinkResets(f) ==
    /\ SinkGoes(f, "reset", "done")
    /\ stats' = [g \in DOMAIN stats |-> FALSE]
    /\ UNCHANGED <<pipeVars, playerState, callVars, waiting, demuxVars, readyVars>>

SinksIdle == \A f \in Sinks : sinkAt[f] \notin {"mark", "check", "reset"}

-----------------------------------------------------------------------------
(* The calls, as the steps of the code.                                    *)

Script(c) ==
    CASE c = "Prepare"      -> <<"prepare", "source", "ready", "preparing", "wait">>
      [] c = "PrepareAsync" -> <<"prepare", "source", "ready", "preparing">>
      [] c = "Play"         -> IF playerState = "COMPLETE" THEN <<"flush", "unflush", "playing">>
                               ELSE IF playerState = "PAUSED" THEN <<"resume", "playing">>
                               ELSE <<"start", "playing">>
      [] c = "Pause"        -> <<"pause", "paused">>
      [] c = "Seek"         -> <<"flush", "unflush">>
      [] c = "Stop"         -> IF playerState = "STOPPED" THEN <<>>
                               ELSE <<"stats", "stopTask", "stopSinks", "stopDemuxer", "stopSource", "remove", "stopped">>

\* The states in which the service makes a call.
CalledIn(c) ==
    CASE c \in {"Prepare", "PrepareAsync"} -> {"INITIALIZED", "STOPPED"}
      [] c = "Play"  -> {"PREPARED", "PAUSED", "COMPLETE"}
      [] c = "Pause" -> {"STARTED"}
      [] c = "Seek"  -> {"PREPARED", "STARTED", "PAUSED", "COMPLETE"}
      [] c = "Stop"  -> PlayerStates \ {"INITIALIZED"}

Calls(c) ==
    /\ script = <<>> /\ apiCalls < IF source.late THEN MaxLateCalls ELSE MaxPlayerCalls
    /\ playerState \in CalledIn(c)
    /\ script' = Script(c)
    /\ apiCalls' = apiCalls + 1
    \* SetSource again when the player was stopped
    /\ IF c \in {"Prepare", "PrepareAsync"}
       THEN /\ playerState' = "INITIALIZED"
            /\ source' = IF playerState = "STOPPED" THEN [source EXCEPT !.rises = MaxRises] ELSE source
       ELSE UNCHANGED <<playerState, source>>
    /\ UNCHANGED <<pipeVars, waiting, demuxVars, sinkAt, stats, readied, strayReady, stopFailed>>

At(step) == script # <<>> /\ Head(script) = step /\ ~waiting
Skips(rest) == script' = rest /\ UNCHANGED <<apiCalls, stopFailed>>
Next1 == Skips(Tail(script))
Returns == Skips(<<>>)

\* PipelineCore::Prepare up to the demuxer, which starts its Task.  Filters a failed
\* stop has left in the list refuse to be prepared again; PrepareAsync goes to
\* PREPARING all the same.
PreparesPipeline ==
    /\ At("prepare")
    /\ PipePrepare
    /\ IF AllVisited(NotPreparable)
       THEN /\ Next1 /\ UNCHANGED <<playerState, waiting>>
            /\ dPhase' = "header" /\ dRun' = TRUE
       ELSE /\ Skips(IF Last(script) = "wait" THEN <<>> ELSE <<"preparing">>)
            /\ StateErred
            /\ UNCHANGED <<dPhase, dRun>>
    /\ UNCHANGED <<dAt, unconfigured, sinkAt, stats, readyVars>>

\* The source posts in the thread of the caller, unless its data is still to come.
PreparesSource ==
    /\ At("source") /\ Next1
    /\ source' = IF source.late THEN [source EXCEPT !.ready = ~source.above, !.above = FALSE] ELSE source
    /\ IF source.late /\ ~source.above THEN UNCHANGED <<pipeVars, readied, strayReady>>
                                         ELSE PostsReady("caller", "source")
    /\ UNCHANGED <<playerState, waiting, demuxVars, sinkAt, stats>>

SourceIsPrepared ==
    /\ At("ready") /\ Outside("caller")
    /\ Next1
    /\ UNCHANGED <<pipeVars, playerState, waiting, demuxVars, sinkAt, stats, readyVars>>

EntersPreparing ==
    /\ At("preparing")
    /\ StateChanged("PREPARING") /\ Next1
    /\ UNCHANGED <<pipeVars, demuxVars, sinkAt, stats, readyVars>>

\* Prepare looks at the state under stateMutex_ and sleeps, or returns.
WaitsForReady ==
    /\ At("wait")
    /\ IF playerState = "PREPARING" THEN waiting' = TRUE /\ UNCHANGED callVars
                                    ELSE Returns /\ UNCHANGED waiting
    /\ UNCHANGED <<pipeVars, playerState, demuxVars, sinkAt, stats, readyVars>>

Starts(broken) ==
    /\ At("start")
    /\ PipeStart(broken)
    /\ IF AllVisited(NotStartable \union broken) THEN Next1 /\ StateKept ELSE Returns /\ StateErred
    \* DemuxerFilter::Start starts its Task
    /\ dRun' = (dRun \/ "demuxer" \in Reached(NotStartable \union broken))
    /\ UNCHANGED <<dPhase, dAt, unconfigured, sinkAt, stats, readyVars>>

Pauses ==
    /\ At("pause")
    /\ PipePause /\ Next1
    /\ IF PipePauseOK THEN StateKept ELSE StateErred
    /\ UNCHANGED <<demuxVars, sinkAt, stats, readyVars>>

Resumes ==
    /\ At("resume")
    /\ PipeResume /\ Next1 /\ StateKept
    /\ UNCHANGED <<demuxVars, sinkAt, stats, readyVars>>

Ends(step, s) ==
    /\ At(step)
    /\ StateChanged(s) /\ Next1
    /\ UNCHANGED <<pipeVars, demuxVars, sinkAt, stats, readyVars>>

\* FlushStart of every filter: the sinks and the demuxer wait for their threads.
Flushes ==
    /\ At("flush")
    /\ SinksIdle /\ dAt = "idle"
    /\ dRun' = FALSE
    /\ Next1
    /\ UNCHANGED <<pipeVars, playerState, waiting, dPhase, dAt, unconfigured, sinkAt, stats, readyVars>>

\* The seek, which may fail, and FlushEnd: the frames flow again from where they are.
Unflushes(ok) ==
    /\ At("unflush")
    /\ dRun' = TRUE
    /\ sinkAt' = [f \in Sinks |-> IF sinkAt[f] = "done" THEN "flow" ELSE sinkAt[f]]
    /\ IF ok THEN Next1 ELSE Returns
    /\ UNCHANGED <<pipeVars, playerState, waiting, dPhase, dAt, unconfigured, stats, readyVars>>

-----------------------------------------------------------------------------
(* Stop.  The demuxer's Task is stopped first while it still parses: its   *)
(* handler adds filters to the list the pipeline is about to go through.   *)

ResetsStats ==
    /\ At("stats")
    /\ stats' = <<>> /\ Next1
    /\ UNCHANGED <<pipeVars, playerState, waiting, demuxVars, sinkAt, readyVars>>

\* A faulty DoStop, without the call of StopTask(false).
LeavesParsing ==
    /\ At("stopTask")
    /\ Next1
    /\ UNCHANGED <<pipeVars, playerState, waiting, demuxVars, sinkAt, stats, readyVars>>

\* StopTask(false)
StopsParsing ==
    /\ At("stopTask")
    /\ \/ dPhase = "frame" /\ UNCHANGED dRun
       \/ dPhase # "frame" /\ dAt = "idle" /\ dRun' = FALSE
    /\ Next1
    /\ UNCHANGED <<pipeVars, playerState, waiting, dPhase, dAt, unconfigured, sinkAt, stats, readyVars>>

\* A decoder that was never negotiated has no plug-in and refuses to stop.
NotStoppable == {f \in {"adec", "vdec"} : f \in ToSet(filters) /\ f \notin readied}

NonePosts == \A t \in PostingThreads : Outside(t)

\* A faulty Stop: the count of EVENT_READY goes on.
StopsSinksKeepingCount ==
    /\ At("stopSinks")
    /\ SinksIdle
    /\ fstate' = Moved(Visited(NotStoppable) \ {"demuxer"}, "INITIALIZED")
    /\ pipeState' = "INITIALIZED" /\ UNCHANGED <<filters, readyCnt, readying>>
    /\ readied' = {} /\ strayReady' = (strayReady \/ ~NonePosts)
    /\ sinkAt' = [f \in Sinks |-> IF f \in Visited(NotStoppable) THEN "off" ELSE sinkAt[f]]
    /\ IF AllVisited(NotStoppable)
       THEN Next1 /\ StateKept
       ELSE script' = <<"stopped">> /\ stopFailed' = TRUE /\ UNCHANGED apiCalls /\ StateErred
    /\ UNCHANGED <<demuxVars, source, stats>>

StopsSinks ==
    /\ At("stopSinks")
    /\ SinksIdle
    /\ PipeStopDownstream(NotStoppable)
    /\ readied' = {} /\ strayReady' = (strayReady \/ ~NonePosts)
    /\ sinkAt' = [f \in Sinks |-> IF f \in Visited(NotStoppable) THEN "off" ELSE sinkAt[f]]
    /\ IF AllVisited(NotStoppable)
       THEN Next1 /\ StateKept
       ELSE script' = <<"stopped">> /\ stopFailed' = TRUE /\ UNCHANGED apiCalls /\ StateErred
    /\ UNCHANGED <<demuxVars, source, stats>>

StopsDemuxer ==
    /\ At("stopDemuxer")
    /\ dAt = "idle"
    /\ PipeStopDemuxer
    /\ dRun' = FALSE
    /\ Next1
    /\ UNCHANGED <<playerState, waiting, dPhase, dAt, unconfigured, sinkAt, stats, readyVars>>

\* The plug-in closes its download, which waits for the thread; the flags stay.
StopsSource ==
    /\ At("stopSource") /\ Outside("source")
    /\ source' = [source EXCEPT !.rises = 0]
    /\ Next1
    /\ UNCHANGED <<pipeVars, playerState, waiting, demuxVars, sinkAt, stats, readied, strayReady>>

\* The filters behind the demuxer leave the list when all have stopped.
RemovesFilters ==
    /\ At("remove")
    /\ PipeRemoves
    /\ Next1
    /\ UNCHANGED <<playerState, waiting, demuxVars, sinkAt, stats, readyVars>>

-----------------------------------------------------------------------------
CallerSteps ==
    \/ PreparesPipeline \/ PreparesSource \/ SourceIsPrepared \/ EntersPreparing \/ WaitsForReady
    \/ Starts({})
    \/ "start" \in Faults /\ Starts(Sinks)
    \/ Pauses \/ Resumes
    \/ Ends("playing", "STARTED") \/ Ends("paused", "PAUSED") \/ Ends("stopped", "STOPPED")
    \/ Flushes
    \/ Unflushes(TRUE)
    \/ "seek" \in Faults /\ Unflushes(FALSE)
    \/ ResetsStats \/ StopsParsing \/ StopsSinks \/ StopsDemuxer
    \/ StopsSource \/ RemovesFilters

DemuxerSteps ==
    \/ DemuxerParses \/ DemuxerParseFails \/ DemuxerAddsFilters
    \/ DemuxerConfigures \/ DemuxerCannotNegotiate \/ DemuxerReports
    \/ DemuxerReported

SinkSteps == \E f \in Sinks : SinkEnds(f) \/ SinkMarks(f) \/ SinkChecks(f) \/ SinkResets(f)

HiNext ==
    \/ \E c \in PlayerApi : Calls(c)
    \/ CallerSteps \/ DemuxerSteps \/ SinkSteps \/ SourceRises \/ PostingSteps

HiSpec ==
    /\ HiInit /\ [][HiNext]_hiVars
    /\ WF_hiVars(CallerSteps) /\ WF_hiVars(DemuxerSteps) /\ WF_hiVars(PostingSteps)

-----------------------------------------------------------------------------
\* The player becomes PREPARED only when every filter of the pipeline has posted its
\* EVENT_READY since the pipeline was last stopped, in whatever order their threads count:
\* an increment may be lost, so that it never does, but none is counted for another.  That
\* is unless one crosses a Stop, which resets the count before it waits for the thread that
\* posts, or the source posts twice (PipelineCore::OnEvent and Stop, HandleReadyEvent).
PreparedWhenAllReady ==
    [][playerState # "PREPARED" /\ playerState' = "PREPARED"
       => readied' = ToSet(filters') \/ strayReady]_hiVars

\* NOT so: the EVENT_READY a Stop overtakes is counted for the next preparation, which is
\* PREPARED when the source has posted (pipeline_core.cpp:95, 230).
PreparedOnlyWhenReady ==
    [][playerState # "PREPARED" /\ playerState' = "PREPARED" => readied' = ToSet(filters')]_hiVars

\* NOT so: two threads that count the last two find the count complete, and the second sets
\* a player that has been started back to PREPARED (pipeline_core.cpp:232-234).
StartedIsNotPrepared ==
    [][playerState = "STARTED" => playerState' # "PREPARED"]_hiVars

\* Once Stop has returned, and if none has failed, the pipeline is back to the filters it
\* started from, no thread of it runs, and the player stays STOPPED (HiPlayerImpl::DoStop).
StoppedIsOver ==
    playerState = "STOPPED" /\ script = <<>> /\ ~stopFailed
    => /\ filters = <<"source", "demuxer">>
       /\ \A f \in Filters : fstate[f] \in {"CREATED", "INITIALIZED"}
       /\ ~dRun /\ dAt = "idle" /\ NonePosts /\ (readyCnt = 0 \/ strayReady)
       /\ \A f \in Sinks : sinkAt[f] = "off"

\* "Wait state change to ready": a Prepare that waits returns, whatever the demuxer
\* finds (HiPlayerImpl::Prepare).
PrepareReturns == waiting ~> ~waiting

=============================================================================
