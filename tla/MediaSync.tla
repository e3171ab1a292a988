----------------------------- MODULE MediaSync -----------------------------
(***************************************************************************)
(* MediaSyncManager, the clock of a player, with the sinks that feed it.   *)
(*                                                                         *)
(* The manager maps the steady clock to a media time by an anchor, which   *)
(* the sinks move whenever they report a frame: the thread of a sink first *)
(* asks what time it is, and reports the frame in a second call.  In       *)
(* between the player may pause, which freezes the media time, or resume,  *)
(* which anchors it anew.  Seek and Reset drop the anchor.                 *)
(*                                                                         *)
(* One unit of time is 40 ms, so that two frames are within 50 ms when     *)
(* they are at most one unit apart.  The play rate stays 1: nothing in the *)
(* engine sets another.                                                    *)
(***************************************************************************)
EXTENDS Integers, Sequences, FiniteSets

CONSTANTS Syncers,      \* the sinks of the media: a subset of {"audio", "video"}
          TrackStart, TrackEnd,
          FrameTimes,   \* pts of the frames, and targets of seeks
          Latencies,    \* what GetLatency may answer
          MaxSteady,    \* bound of the steady clock
          SyncApi,      \* calls of the player
          MaxSyncCalls

ASSUME SyncAssumption ==
    /\ Syncers \subseteq {"audio", "video"}
    /\ TrackStart \in Nat /\ TrackEnd \in Nat /\ TrackStart <= TrackEnd
    /\ FrameTimes \subseteq Nat /\ Latencies \subseteq Nat
    /\ MaxSteady \in Nat /\ MaxSyncCalls \in Nat
    /\ SyncApi \subseteq {"Prepare", "Play", "Pause", "Seek", "Stop"}

NONE == -1              \* HST_TIME_NONE

NothingShown == [known |-> FALSE, time |-> NONE]
Showing(t) == [known |-> TRUE, time |-> t]

VARIABLES
    steady,                     \* GetSystemClock
    registered,                 \* syncers_
    prerolled,                  \* prerolledSyncers_
    alreadySet,                 \* alreadySetSyncersShouldWait_
    clockState,                 \* clockState_
    anchorClock, anchorMedia,   \* currentAnchorClockTime_, currentAnchorMediaTime_
    anchorPriority,             \* currentSyncerPriority_
    pausedMedia, pausedClock,   \* pausedMediaTime_, pausedClockTime_
    seeking, seekTarget,        \* isSeeking_, seekingMediaTime_
    sinkState,                  \* state_ of each sink
    flushing,                   \* isFlushing of the sinks
    hasReported,                \* hasReportedPreroll_
    waitPreroll,                \* waitForPrerolled_
    firstFrame,                 \* isFirstFrame_ of the video sink
    sinkStep,                   \* where the thread of each sink is
    framePts, readClock,        \* the frame it holds, the time it was told
    syncScript, syncCalls,      \* steps the player's call has left; calls made
    playedSince,                \* time played since each sink began to wait, or asked the time (history)
    shown,                      \* the media time a viewer would have counted, if one was told (history)
    crossed, strayed            \* a report that a pause or a resume came across (history)

mgrVars  == <<registered, prerolled, alreadySet, clockState, anchorClock, anchorMedia,
              anchorPriority, pausedMedia, pausedClock, seeking, seekTarget>>
sinkVars == <<sinkState, flushing, hasReported, waitPreroll, firstFrame>>
pathVars == <<sinkStep, framePts, readClock>>
seenVars == <<playedSince, shown, crossed, strayed>>
syncVars == <<steady, mgrVars, sinkVars, pathVars, syncScript, syncCalls, seenVars>>

SyncTypeOK ==
    /\ steady \in 0 .. MaxSteady
    /\ registered \subseteq Syncers /\ prerolled \subseteq Syncers
    /\ clockState \in {"PAUSED", "RESUMED"}
    /\ anchorPriority \in {-1, 0, 2}
    /\ anchorClock >= NONE /\ pausedClock >= NONE
    /\ sinkState \in [Syncers -> {"INITIALIZED", "READY", "RUNNING", "PAUSED"}]
    /\ sinkStep \in [Syncers -> {"idle", "preroll", "pace", "sleep", "anchor"}]
    /\ framePts \in [Syncers -> FrameTimes \union {NONE}]

SyncInit ==
    /\ steady = 0
    /\ registered = {} /\ prerolled = {} /\ alreadySet = FALSE
    /\ clockState = "PAUSED"
    /\ anchorClock = NONE /\ anchorMedia = NONE /\ anchorPriority = -1
    /\ pausedMedia = NONE /\ pausedClock = NONE
    /\ seeking = FALSE /\ seekTarget = NONE
    /\ sinkState = [s \in Syncers |-> "INITIALIZED"] /\ flushing = FALSE
    /\ hasReported = [s \in Syncers |-> FALSE]
    /\ waitPreroll = [s \in Syncers |-> FALSE]
    /\ firstFrame = TRUE
    /\ sinkStep = [s \in Syncers |-> "idle"]
    /\ framePts = [s \in Syncers |-> NONE] /\ readClock = [s \in Syncers |-> NONE]
    /\ syncScript = <<>> /\ syncCalls = 0
    /\ playedSince = [s \in Syncers |-> 0]
    /\ shown = NothingShown
    /\ crossed = [s \in Syncers |-> FALSE] /\ strayed = FALSE

-----------------------------------------------------------------------------
(* Reading the clock.                                                      *)

Priority(s) == IF s = "audio" THEN 2 ELSE 0

\* The range of the media is known while the sinks are configured.
RangeKnown == registered # {}

ClipMediaTime(t) ==
    IF ~RangeKnown THEN t
    ELSE IF t < TrackStart THEN TrackStart ELSE IF t > TrackEnd THEN TrackEnd ELSE t

SimpleGetMediaTime(now) ==
    IF anchorClock = NONE \/ anchorMedia = NONE THEN NONE ELSE anchorMedia + (now - anchorClock)

GetMediaTimeNow ==
    IF seeking THEN seekTarget
    ELSE IF clockState = "PAUSED" THEN (IF pausedMedia = NONE THEN 0 ELSE pausedMedia)
    ELSE ClipMediaTime(SimpleGetMediaTime(steady))

GetClockTimeNow == IF clockState = "PAUSED" THEN pausedClock ELSE steady

GetClockTime(t) ==
    IF anchorClock = NONE \/ anchorMedia = NONE THEN NONE ELSE anchorClock + (t - anchorMedia)

Near(t, u) == t - u \in {-1, 0, 1}

-----------------------------------------------------------------------------
(* The manager's calls.                                                    *)

AddSynchronizers ==
    /\ registered' = Syncers
    /\ UNCHANGED <<prerolled, alreadySet, clockState, anchorClock, anchorMedia, anchorPriority,
                   pausedMedia, pausedClock, seeking, seekTarget>>

SetAllSyncShouldWait(already) ==
    /\ alreadySet' = TRUE
    /\ prerolled' = IF already THEN prerolled ELSE {}
    /\ waitPreroll' = [s \in Syncers |->
                          waitPreroll[s] \/ (~already /\ Cardinality(registered) > 1 /\ s \in registered)]

ManagerResumes ==
    /\ LET back == clockState = "PAUSED" /\ pausedMedia # NONE /\ alreadySet IN
       /\ anchorClock' = IF back THEN steady ELSE anchorClock
       /\ anchorMedia' = IF back THEN pausedMedia ELSE anchorMedia
       /\ pausedMedia' = IF back THEN NONE ELSE pausedMedia
       /\ pausedClock' = IF back THEN NONE ELSE pausedClock
    /\ IF clockState = "RESUMED" THEN UNCHANGED <<alreadySet, prerolled, waitPreroll>>
                                 ELSE SetAllSyncShouldWait(alreadySet)
    /\ clockState' = "RESUMED"
    /\ UNCHANGED <<registered, anchorPriority, seeking, seekTarget>>

\* A faulty Pause, which keeps the time of the first pause.
ManagerPausesOnce ==
    /\ pausedClock' = steady
    /\ pausedMedia' = IF pausedMedia # NONE THEN pausedMedia
                      ELSE IF anchorClock = NONE THEN ClipMediaTime(NONE) ELSE ClipMediaTime(anchorMedia)
    /\ clockState' = "PAUSED"
    /\ UNCHANGED <<registered, prerolled, alreadySet, anchorClock, anchorMedia, anchorPriority,
                   seeking, seekTarget, waitPreroll>>

ManagerPauses ==
    /\ IF clockState = "PAUSED" THEN UNCHANGED <<pausedClock, pausedMedia>>
       ELSE /\ pausedClock' = steady
            /\ pausedMedia' = ClipMediaTime(SimpleGetMediaTime(steady))
    /\ clockState' = "PAUSED"
    /\ UNCHANGED <<registered, prerolled, alreadySet, anchorClock, anchorMedia, anchorPriority,
                   seeking, seekTarget, waitPreroll>>

\* A target outside the range is refused, and nothing changes.
ManagerSeeks(t) ==
    IF ~RangeKnown \/ t < TrackStart \/ t > TrackEnd THEN UNCHANGED <<mgrVars, waitPreroll>>
    ELSE /\ seeking' = TRUE /\ seekTarget' = t
         /\ SetAllSyncShouldWait(FALSE)
         /\ pausedMedia' = NONE /\ anchorPriority' = -1
         /\ anchorClock' = NONE /\ anchorMedia' = NONE
         /\ UNCHANGED <<registered, clockState, pausedClock>>

ManagerResets ==
    /\ clockState' = "PAUSED"
    /\ pausedMedia' = NONE /\ pausedClock' = NONE
    /\ anchorPriority' = -1 /\ anchorClock' = NONE /\ anchorMedia' = NONE
    /\ alreadySet' = FALSE
    /\ seeking' = FALSE /\ seekTarget' = NONE
    /\ registered' = {} /\ prerolled' = {}
    /\ UNCHANGED waitPreroll

Anchors(s) == s \in registered /\ Priority(s) >= anchorPriority

UpdateTimeAnchor(s, at, pts) ==
    /\ anchorPriority' = IF Anchors(s) THEN Priority(s) ELSE anchorPriority
    /\ anchorClock' = IF Anchors(s) THEN at ELSE anchorClock
    /\ anchorMedia' = IF Anchors(s) THEN pts ELSE anchorMedia
    /\ seeking' = (seeking /\ ~Near(pts, seekTarget))
    /\ UNCHANGED <<registered, prerolled, alreadySet, clockState, pausedMedia, pausedClock, seekTarget>>

ReportPrerolled(s) ==
    LET all == Cardinality(prerolled \union {s}) = Cardinality(registered) IN
    /\ prerolled' = IF all /\ s \notin prerolled THEN {} ELSE prerolled \union {s}
    /\ waitPreroll' = [r \in Syncers |->
                          waitPreroll[r] /\ ~(all /\ s \notin prerolled /\ r \in prerolled \union {s})]
    /\ UNCHANGED <<registered, alreadySet, clockState, anchorClock, anchorMedia, anchorPriority,
                   pausedMedia, pausedClock, seeking, seekTarget>>

-----------------------------------------------------------------------------
(* The thread of a sink.                                                   *)

SinkMoves(s, from, to) == sinkStep[s] = from /\ sinkStep' = [sinkStep EXCEPT ![s] = to]
CallKept == UNCHANGED <<syncScript, syncCalls>>

\* PushData or RenderFrame, up to the report in WriteToPluginRefTimeSync.
SinkTakes(s, pts) ==
    /\ sinkState[s] = "RUNNING" /\ ~flushing
    /\ SinkMoves(s, "idle", "preroll")
    /\ framePts' = [framePts EXCEPT ![s] = pts]
    /\ IF hasReported[s] THEN UNCHANGED <<mgrVars, waitPreroll>> ELSE ReportPrerolled(s)
    /\ hasReported' = [hasReported EXCEPT ![s] = TRUE]
    /\ CallKept
    /\ UNCHANGED <<steady, sinkState, flushing, firstFrame, readClock, seenVars>>

\* The predicate of the wait is waitForPrerolled_ itself: a sink that should wait goes on.
SinkPrerolls(s) ==
    /\ SinkMoves(s, "preroll", "pace")
    /\ waitPreroll' = [waitPreroll EXCEPT ![s] = FALSE]
    /\ playedSince' = [playedSince EXCEPT ![s] = 0]
    /\ CallKept
    /\ UNCHANGED <<steady, mgrVars, sinkState, flushing, hasReported, firstFrame, framePts, readClock,
                   shown, crossed, strayed>>

\* DoSyncWrite: an audio frame, and the first video frame, will be reported.
SinkAsks(s) ==
    /\ s = "audio" \/ firstFrame
    /\ SinkMoves(s, "pace", "anchor")
    /\ readClock' = [readClock EXCEPT ![s] = GetClockTimeNow]
    /\ playedSince' = [playedSince EXCEPT ![s] = 0]
    /\ crossed' = [crossed EXCEPT ![s] = FALSE]
    /\ CallKept
    /\ UNCHANGED <<steady, mgrVars, sinkVars, framePts, shown, strayed>>

\* UpdateTimeAnchor, and the write of the frame.
SinkReports(s, latency) ==
    /\ SinkMoves(s, "anchor", "idle")
    /\ firstFrame' = (firstFrame /\ s # "video")
    /\ framePts' = [framePts EXCEPT ![s] = NONE] /\ readClock' = [readClock EXCEPT ![s] = NONE]
    /\ IF readClock[s] + latency = NONE THEN UNCHANGED <<mgrVars, shown, strayed>>
       ELSE /\ UpdateTimeAnchor(s, readClock[s] + latency, framePts[s])
            /\ IF Anchors(s) /\ clockState = "RESUMED"
               THEN /\ shown' = Showing(framePts[s] - latency + playedSince[s])
                    /\ strayed' = crossed[s]
               ELSE UNCHANGED <<shown, strayed>>
    /\ crossed' = [crossed EXCEPT ![s] = FALSE]
    /\ playedSince' = [playedSince EXCEPT ![s] = 0]
    /\ CallKept
    /\ UNCHANGED <<steady, sinkState, flushing, hasReported, waitPreroll>>

\* CheckBufferLatenessMayWait: a later video frame is slept for when it is early,
\* and rendered or dropped at once when it is not.
SinkSleeps(s, latency) ==
    /\ s = "video" /\ ~firstFrame
    /\ GetClockTime(framePts[s]) # NONE
    /\ GetClockTime(framePts[s]) > GetClockTimeNow + latency
    /\ SinkMoves(s, "pace", "sleep")
    /\ readClock' = [readClock EXCEPT ![s] = steady + GetClockTime(framePts[s]) - GetClockTimeNow - latency]
    /\ CallKept
    /\ UNCHANGED <<steady, mgrVars, sinkVars, framePts, seenVars>>

SinkRenders(s, latency) ==
    /\ s = "video" /\ ~firstFrame
    /\ \/ GetClockTime(framePts[s]) = NONE
       \/ GetClockTime(framePts[s]) <= GetClockTimeNow + latency
    /\ SinkMoves(s, "pace", "idle")
    /\ framePts' = [framePts EXCEPT ![s] = NONE]
    /\ CallKept
    /\ UNCHANGED <<steady, mgrVars, sinkVars, readClock, seenVars>>

SinkWakes(s) ==
    /\ SinkMoves(s, "sleep", "idle")
    /\ steady >= readClock[s]
    /\ framePts' = [framePts EXCEPT ![s] = NONE] /\ readClock' = [readClock EXCEPT ![s] = NONE]
    /\ CallKept
    /\ UNCHANGED <<steady, mgrVars, sinkVars, seenVars>>

SinkThread(s) ==
    \/ \E pts \in FrameTimes : SinkTakes(s, pts)
    \/ SinkPrerolls(s) \/ SinkAsks(s) \/ SinkWakes(s)
    \/ \E latency \in Latencies : SinkReports(s, latency) \/ SinkSleeps(s, latency) \/ SinkRenders(s, latency)

-----------------------------------------------------------------------------
(* The player: each call in the order of its parts.                        *)

SyncScript(c) ==
    CASE c = "Prepare" -> <<"configure">>
      [] c = "Play"    -> <<"resume", "run">>
      [] c = "Pause"   -> <<"pauseSinks", "pause">>
      [] c = "Seek"    -> <<"flushStart", "seek", "flushEnd">>
      [] c = "Stop"    -> <<"stopSinks", "reset">>

SyncCallable(c) ==
    CASE c = "Prepare" -> registered = {}
      [] c = "Play"    -> registered # {} /\ clockState = "PAUSED"
      [] c = "Pause"   -> registered # {} /\ clockState = "RESUMED"
      [] OTHER         -> registered # {}

PlayerAsks(c) ==
    /\ syncScript = <<>> /\ syncCalls < MaxSyncCalls
    /\ SyncCallable(c)
    /\ syncScript' = SyncScript(c) /\ syncCalls' = syncCalls + 1
    /\ UNCHANGED <<steady, mgrVars, sinkVars, pathVars, seenVars>>

SyncAt(step) ==
    /\ syncScript # <<>> /\ Head(syncScript) = step
    /\ syncScript' = Tail(syncScript)
    /\ UNCHANGED syncCalls

SinksBecome(from, to) ==
    sinkState' = [s \in Syncers |-> IF sinkState[s] \in from THEN to ELSE sinkState[s]]

VideoSettled == "video" \in Syncers => sinkStep["video"] = "idle"
AllSettled == \A s \in Syncers : sinkStep[s] = "idle"

\* Init and Configure of the sinks.
PlayerConfigures ==
    /\ SyncAt("configure")
    /\ AddSynchronizers
    /\ SinksBecome({"INITIALIZED"}, "READY")
    /\ UNCHANGED <<steady, flushing, hasReported, waitPreroll, firstFrame, pathVars, seenVars>>

PlayerResumesClock ==
    /\ SyncAt("resume")
    /\ ManagerResumes
    /\ crossed' = [s \in Syncers |-> sinkStep[s] = "anchor"]
    /\ UNCHANGED <<steady, sinkState, flushing, hasReported, firstFrame, pathVars, playedSince, shown, strayed>>

PlayerRunsSinks ==
    /\ SyncAt("run")
    /\ SinksBecome({"READY", "PAUSED"}, "RUNNING")
    /\ UNCHANGED <<steady, mgrVars, flushing, hasReported, waitPreroll, firstFrame, pathVars, seenVars>>

\* Pause of the sinks: the render task of the video sink is waited for, the
\* thread that pushes into the audio sink is not.
PlayerPausesSinks ==
    /\ syncScript # <<>> /\ VideoSettled
    /\ SyncAt("pauseSinks")
    /\ SinksBecome({"READY", "RUNNING"}, "PAUSED")
    /\ UNCHANGED <<steady, mgrVars, flushing, hasReported, waitPreroll, firstFrame, pathVars, seenVars>>

PlayerPausesClock ==
    /\ SyncAt("pause")
    /\ ManagerPauses
    /\ crossed' = [s \in Syncers |-> sinkStep[s] = "anchor"]
    /\ shown' = IF clockState = "PAUSED" THEN shown ELSE Showing(ClipMediaTime(shown.time))
    /\ UNCHANGED <<steady, sinkState, flushing, hasReported, firstFrame, pathVars, playedSince, strayed>>

\* FlushStart of the sinks and of the decoders, which wait for the threads that push.
PlayerFlushes ==
    /\ IF flushing THEN AllSettled /\ SyncAt("flushStart") /\ UNCHANGED flushing
       ELSE /\ syncScript # <<>> /\ Head(syncScript) = "flushStart"
            /\ flushing' = TRUE /\ CallKept
    /\ UNCHANGED <<steady, mgrVars, sinkState, hasReported, waitPreroll, firstFrame, pathVars, seenVars>>

PlayerSeeks(t) ==
    /\ SyncAt("seek")
    /\ ManagerSeeks(t)
    /\ shown' = IF t \in TrackStart .. TrackEnd THEN NothingShown ELSE shown
    /\ strayed' = (strayed /\ t \notin TrackStart .. TrackEnd)
    /\ UNCHANGED <<steady, sinkState, flushing, hasReported, firstFrame, pathVars, playedSince, crossed>>

PlayerUnflushes ==
    /\ SyncAt("flushEnd")
    /\ flushing' = FALSE
    /\ hasReported' = [s \in Syncers |-> FALSE] /\ firstFrame' = TRUE
    /\ UNCHANGED <<steady, mgrVars, sinkState, waitPreroll, pathVars, seenVars>>

PlayerStopsSinks ==
    /\ AllSettled
    /\ SyncAt("stopSinks")
    /\ SinksBecome({"READY", "RUNNING", "PAUSED"}, "INITIALIZED")
    /\ UNCHANGED <<steady, mgrVars, flushing, hasReported, waitPreroll, firstFrame, pathVars, seenVars>>

PlayerResetsClock ==
    /\ SyncAt("reset")
    /\ ManagerResets
    /\ shown' = NothingShown /\ strayed' = FALSE
    /\ UNCHANGED <<steady, sinkState, flushing, hasReported, firstFrame, pathVars, playedSince, crossed>>

SyncPlayer ==
    \/ \E c \in SyncApi : PlayerAsks(c)
    \/ PlayerConfigures \/ PlayerResumesClock \/ PlayerRunsSinks
    \/ PlayerPausesSinks \/ PlayerPausesClock
    \/ PlayerFlushes \/ PlayerUnflushes \/ \E t \in FrameTimes : PlayerSeeks(t)
    \/ PlayerStopsSinks \/ PlayerResetsClock

\* Time goes by; it is played while the clock is not paused.
SteadyTicks ==
    /\ steady < MaxSteady
    /\ steady' = steady + 1
    /\ IF clockState = "RESUMED"
       THEN /\ shown' = IF shown.known THEN Showing(shown.time + 1) ELSE shown
            /\ playedSince' = [s \in Syncers |-> IF sinkStep[s] \in {"preroll", "anchor"} THEN playedSince[s] + 1 ELSE 0]
       ELSE UNCHANGED <<shown, playedSince>>
    /\ UNCHANGED <<mgrVars, sinkVars, pathVars, syncScript, syncCalls, crossed, strayed>>

SyncNext == SyncPlayer \/ SteadyTicks \/ \E s \in Syncers : SinkThread(s)
SyncSpec == SyncInit /\ [][SyncNext]_syncVars

-----------------------------------------------------------------------------
\* The position the player tells is the one a viewer would have counted: from the
\* last frame reported, the time that was played and not the time of the pauses,
\* within the range of the media; while a seek has not shown a frame near its
\* target, the target.  A report that a pause or a resume came across is exempt,
\* up to the next report: it anchors the time of before (MediaSyncManager).
PositionFollowsPlay ==
    ~strayed =>
    GetMediaTimeNow = IF seeking THEN seekTarget
                      ELSE IF clockState = "PAUSED" /\ ~shown.known THEN 0
                      ELSE ClipMediaTime(shown.time)

\* "all suppliers should sync preroll again after seek": a sink that was told to
\* wait does not leave its wait before the others have prerolled, or some time has passed.
PrerolledTogether ==
    [][\A s \in Syncers :
          sinkStep[s] = "preroll" /\ sinkStep'[s] # "preroll" => ~waitPreroll[s] \/ playedSince[s] > 0]_syncVars

=============================================================================
