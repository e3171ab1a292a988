----------------------------- MODULE SyncProofs -----------------------------
(***************************************************************************)
(* Proofs about MediaSync, for sinks, frames, latencies and calls in any   *)
(* number: the position that the player tells is the one a viewer would    *)
(* have counted.                                                           *)
(***************************************************************************)
EXTENDS MediaSync, TLAPS

-----------------------------------------------------------------------------
(* The inductive invariant.                                                *)

Playings == {"INITIALIZED", "READY", "RUNNING", "PAUSED"}
SinkSteps == {"idle", "preroll", "pace", "sleep", "anchor"}
ShownTimes == [known : BOOLEAN, time : Int]

\* What the player's call may have left to do, and the part it does next.
SyncScripts ==
    {<<>>, <<"configure">>, <<"resume", "run">>, <<"run">>, <<"pauseSinks", "pause">>, <<"pause">>,
     <<"flushStart", "seek", "flushEnd">>, <<"seek", "flushEnd">>, <<"flushEnd">>,
     <<"stopSinks", "reset">>, <<"reset">>}

IsDue(script, step) == script # <<>> /\ Head(script) = step

\* The parts that follow another in a call.
Followings ==
    {<<"resume", "run">>, <<"pauseSinks", "pause">>, <<"flushStart", "seek">>, <<"seek", "flushEnd">>,
     <<"stopSinks", "reset">>}

SyncTypes ==
    /\ steady \in Nat
    /\ registered \in {{}, Syncers} /\ clockState \in {"PAUSED", "RESUMED"}
    /\ alreadySet \in BOOLEAN /\ seeking \in BOOLEAN /\ flushing \in BOOLEAN /\ strayed \in BOOLEAN
    /\ anchorClock \in Int /\ anchorMedia \in Int
    /\ pausedMedia \in Int /\ pausedClock \in Int
    /\ sinkState \in [Syncers -> Playings] /\ sinkStep \in [Syncers -> SinkSteps]
    /\ framePts \in [Syncers -> Int] /\ readClock \in [Syncers -> Int]
    /\ playedSince \in [Syncers -> Int] /\ crossed \in [Syncers -> BOOLEAN]
    /\ shown \in ShownTimes
    /\ syncScript \in SyncScripts

\* A sink that is not idle holds a frame.
HoldsFrame == \A s \in Syncers : sinkStep[s] # "idle" => framePts[s] \in Nat

\* A sink runs while the clock does: Play resumes the clock before it runs the sinks,
\* and Pause pauses the sinks before the clock.
RunsOnClock == \A s \in Syncers : sinkState[s] = "RUNNING" => clockState = "RESUMED"

\* A call does its parts in an order in which each finds what the ones before it left.
ScriptFits ==
    /\ IsDue(syncScript, "resume") => registered # {}
    /\ IsDue(syncScript, "run") => clockState = "RESUMED"
    /\ IsDue(syncScript, "pause") => \A s \in Syncers : sinkState[s] # "RUNNING"
    /\ IsDue(syncScript, "seek") => flushing /\ AllSettled
    /\ IsDue(syncScript, "reset") => AllSettled /\ \A s \in Syncers : sinkState[s] # "RUNNING"

\* A paused clock without a media time has no anchor, and nobody is to give it one.
NothingTold == clockState = "PAUSED" /\ pausedMedia = NONE

ToldNothing ==
    /\ NothingTold => AllSettled /\ anchorClock = NONE /\ anchorMedia = NONE /\ ~shown.known
    /\ registered = {} => NothingTold
    /\ ~shown.known => shown.time = NONE

\* A paused clock with a media time keeps what was shown when it was paused.
PausedKeepsTime ==
    clockState = "PAUSED" /\ pausedMedia # NONE =>
        /\ alreadySet /\ TrackStart <= pausedMedia /\ pausedMedia <= TrackEnd
        /\ ~strayed => shown.known /\ shown.time = pausedMedia

\* A clock that runs counts from its anchor what a viewer counts.
AnchorCounts ==
    clockState = "RESUMED" =>
        /\ alreadySet
        /\ ~strayed /\ shown.known =>
               /\ anchorClock # NONE /\ anchorMedia # NONE
               /\ shown.time = anchorMedia + (steady - anchorClock)
        /\ ~strayed /\ ~shown.known => anchorClock = NONE /\ anchorMedia = NONE

\* A sink that nothing came across knows how long ago it asked the time.
ReadIsRecent ==
    clockState = "RESUMED" =>
        \A s \in Syncers : sinkStep[s] = "anchor" /\ ~crossed[s] =>
                               readClock[s] = steady - playedSince[s]

SyncSafe ==
    /\ HoldsFrame /\ RunsOnClock /\ ScriptFits
    /\ ToldNothing /\ PausedKeepsTime /\ AnchorCounts /\ ReadIsRecent

SyncInv == SyncTypes /\ SyncSafe

-----------------------------------------------------------------------------
(* The operators.                                                          *)

LEMMA RangeIs ==
    /\ TrackStart \in Nat /\ TrackEnd \in Nat /\ TrackStart <= TrackEnd
    /\ FrameTimes \subseteq Nat /\ Latencies \subseteq Nat
  BY SyncAssumption

\* A media time is clipped into the range, once the range is known.
LEMMA ClippedIs ==
    ASSUME NEW t \in Int
    PROVE  /\ ClipMediaTime(t) \in Int
           /\ RangeKnown => TrackStart <= ClipMediaTime(t) /\ ClipMediaTime(t) <= TrackEnd
           /\ TrackStart <= t /\ t <= TrackEnd => ClipMediaTime(t) = t
  BY RangeIs DEF ClipMediaTime

\* The parts of a call, and what they leave of it.
LEMMA ShortSequences ==
    ASSUME NEW a, NEW b, NEW c
    PROVE  /\ <<a>> # <<>> /\ Head(<<a>>) = a /\ Tail(<<a>>) = <<>>
           /\ <<a, b>> # <<>> /\ Head(<<a, b>>) = a /\ Tail(<<a, b>>) = <<b>>
           /\ <<a, b, c>> # <<>> /\ Head(<<a, b, c>>) = a /\ Tail(<<a, b, c>>) = <<b, c>>
  OBVIOUS

LEMMA ScriptSteps ==
    ASSUME NEW script \in SyncScripts, NEW step, IsDue(script, step)
    PROVE  /\ Tail(script) \in SyncScripts
           /\ \A d : IsDue(Tail(script), d) => <<step, d>> \in Followings
<1> USE DEF IsDue
<1>0. ASSUME script = <<>> PROVE FALSE
  BY <1>0
<1>1. ASSUME NEW a, script = <<a>> 
      PROVE  Tail(script) = <<>>
  BY <1>1, ShortSequences
<1>2. ASSUME NEW a, NEW b, script = <<a, b>>, <<a, b>> \in Followings, <<b>> \in SyncScripts
      PROVE  /\ Tail(script) \in SyncScripts
             /\ \A d : IsDue(Tail(script), d) => <<step, d>> \in Followings
  BY <1>2, ShortSequences
<1>3. ASSUME NEW a, NEW b, NEW c, script = <<a, b, c>>, <<a, b>> \in Followings, <<b, c>> \in SyncScripts
      PROVE  /\ Tail(script) \in SyncScripts
             /\ \A d : IsDue(Tail(script), d) => <<step, d>> \in Followings
  BY <1>3, ShortSequences
<1>4. /\ <<>> \in SyncScripts /\ <<"run">> \in SyncScripts /\ <<"pause">> \in SyncScripts
      /\ <<"reset">> \in SyncScripts /\ <<"flushEnd">> \in SyncScripts
      /\ <<"seek", "flushEnd">> \in SyncScripts
  BY DEF SyncScripts
<1>5. /\ <<"resume", "run">> \in Followings /\ <<"pauseSinks", "pause">> \in Followings
      /\ <<"flushStart", "seek">> \in Followings /\ <<"seek", "flushEnd">> \in Followings
      /\ <<"stopSinks", "reset">> \in Followings
  BY DEF Followings
<1>6. \/ script = <<>> \/ script = <<"configure">> \/ script = <<"run">> \/ script = <<"pause">>
      \/ script = <<"flushEnd">> \/ script = <<"reset">>
      \/ script = <<"resume", "run">> \/ script = <<"pauseSinks", "pause">>
      \/ script = <<"seek", "flushEnd">> \/ script = <<"stopSinks", "reset">>
      \/ script = <<"flushStart", "seek", "flushEnd">>
  BY DEF SyncScripts
<1> QED
  BY <1>0, <1>1, <1>2, <1>3, <1>4, <1>5, <1>6

\* A call begins with its first part.
LEMMA CallsBegin ==
    ASSUME NEW c \in SyncApi
    PROVE  /\ SyncScript(c) \in SyncScripts
           /\ \A d : IsDue(SyncScript(c), d) =>
                  /\ d \in {"configure", "resume", "pauseSinks", "flushStart", "stopSinks"}
                  /\ d = "resume" => c = "Play"
<1>1. c \in {"Prepare", "Play", "Pause", "Seek", "Stop"}
  BY SyncAssumption
<1>2. CASE c = "Prepare"
  <2>1. SyncScript(c) = <<"configure">>
    BY <1>2 DEF SyncScript
  <2> QED  BY <2>1, ShortSequences DEF SyncScripts, IsDue
<1>3. CASE c = "Play"
  <2>1. SyncScript(c) = <<"resume", "run">>
    BY <1>3 DEF SyncScript
  <2> QED  BY <2>1, <1>3, ShortSequences DEF SyncScripts, IsDue
<1>4. CASE c = "Pause"
  <2>1. SyncScript(c) = <<"pauseSinks", "pause">>
    BY <1>4 DEF SyncScript
  <2> QED  BY <2>1, ShortSequences DEF SyncScripts, IsDue
<1>5. CASE c = "Seek"
  <2>1. SyncScript(c) = <<"flushStart", "seek", "flushEnd">>
    BY <1>5 DEF SyncScript
  <2> QED  BY <2>1, ShortSequences DEF SyncScripts, IsDue
<1>6. CASE c = "Stop"
  <2>1. SyncScript(c) = <<"stopSinks", "reset">>
    BY <1>6 DEF SyncScript
  <2> QED  BY <2>1, ShortSequences DEF SyncScripts, IsDue
<1> QED  BY <1>1, <1>2, <1>3, <1>4, <1>5, <1>6

-----------------------------------------------------------------------------
(* Every step keeps the invariant.                                         *)

\* What is shown, as a record.
LEMMA ShownIs ==
    /\ \A u \in ShownTimes : u.known \in BOOLEAN /\ u.time \in Int
    /\ \A u \in Int : Showing(u) \in ShownTimes /\ Showing(u).known /\ Showing(u).time = u
    /\ NothingShown \in ShownTimes /\ ~NothingShown.known /\ NothingShown.time = NONE
  BY DEF ShownTimes, Showing, NothingShown, NONE

\* A step that changes nothing keeps the invariant.
LEMMA StutterKeeps ==
    ASSUME SyncInv, UNCHANGED syncVars
    PROVE  SyncInv'
<1> USE DEF SyncInv, SyncSafe, syncVars, mgrVars, sinkVars, pathVars, seenVars
<1>1. SyncTypes'
  BY DEF SyncTypes
<1>2. HoldsFrame'
  BY DEF SyncTypes, HoldsFrame
<1>3. RunsOnClock'
  BY DEF SyncTypes, RunsOnClock, ScriptFits
<1>4. ScriptFits'
  BY DEF SyncTypes, ScriptFits, AllSettled, RunsOnClock
<1>5. ToldNothing'
  BY DEF SyncTypes, ToldNothing, NothingTold, AllSettled, ScriptFits, RunsOnClock
<1>6. PausedKeepsTime'
  BY DEF SyncTypes, PausedKeepsTime, ToldNothing, NothingTold
<1>7. AnchorCounts'
  BY DEF SyncTypes, AnchorCounts, ToldNothing, NothingTold, PausedKeepsTime
<1>8. ReadIsRecent'
  BY DEF SyncTypes, ReadIsRecent
<1> QED  BY <1>1, <1>2, <1>3, <1>4, <1>5, <1>6, <1>7, <1>8

\* A sink takes a frame only while it runs, hence while the clock does.
LEMMA TakesKeeps ==
    ASSUME SyncInv, NEW s \in Syncers, NEW pts \in FrameTimes, SinkTakes(s, pts)
    PROVE  SyncInv'
<1> USE DEF SyncInv, SyncSafe, SinkTakes, ReportPrerolled, SinkSteps, CallKept, SinkMoves,
            syncVars, mgrVars, sinkVars, pathVars, seenVars
<1>1. SyncTypes'
  BY RangeIs DEF SyncTypes
<1>2. HoldsFrame'
  BY RangeIs DEF SyncTypes, HoldsFrame
<1>3. RunsOnClock'
  BY RangeIs DEF SyncTypes, RunsOnClock, ScriptFits
<1>4. ScriptFits'
  BY RangeIs DEF SyncTypes, ScriptFits, AllSettled, RunsOnClock
<1>5. ToldNothing'
  BY RangeIs DEF SyncTypes, ToldNothing, NothingTold, AllSettled, ScriptFits, RunsOnClock
<1>6. PausedKeepsTime'
  BY RangeIs DEF SyncTypes, PausedKeepsTime, ToldNothing, NothingTold
<1>7. AnchorCounts'
  BY RangeIs DEF SyncTypes, AnchorCounts, ToldNothing, NothingTold, PausedKeepsTime
<1>8. ReadIsRecent'
  BY RangeIs DEF SyncTypes, ReadIsRecent
<1> QED  BY <1>1, <1>2, <1>3, <1>4, <1>5, <1>6, <1>7, <1>8

\* A sink ends its wait for the others.
LEMMA PrerollsKeeps ==
    ASSUME SyncInv, NEW s \in Syncers, SinkPrerolls(s)
    PROVE  SyncInv'
<1> USE DEF SyncInv, SyncSafe, SinkPrerolls, SinkSteps, CallKept, SinkMoves, syncVars, mgrVars,
            sinkVars, pathVars, seenVars
<1>1. SyncTypes'
  BY DEF SyncTypes
<1>2. HoldsFrame'
  BY DEF SyncTypes, HoldsFrame
<1>3. RunsOnClock'
  BY DEF SyncTypes, RunsOnClock, ScriptFits
<1>4. ScriptFits'
  BY DEF SyncTypes, ScriptFits, AllSettled, RunsOnClock
<1>5. ToldNothing'
  BY DEF SyncTypes, ToldNothing, NothingTold, AllSettled, ScriptFits, RunsOnClock
<1>6. PausedKeepsTime'
  BY DEF SyncTypes, PausedKeepsTime, ToldNothing, NothingTold
<1>7. AnchorCounts'
  BY DEF SyncTypes, AnchorCounts, ToldNothing, NothingTold, PausedKeepsTime
<1>8. ReadIsRecent'
  BY DEF SyncTypes, ReadIsRecent
<1> QED  BY <1>1, <1>2, <1>3, <1>4, <1>5, <1>6, <1>7, <1>8

\* A sink that asks the time of a clock that runs is told the steady time, and counts from there.
LEMMA AsksKeeps ==
    ASSUME SyncInv, NEW s \in Syncers, SinkAsks(s)
    PROVE  SyncInv'
<1> USE DEF SyncInv, SyncSafe, SinkAsks, SinkSteps, GetClockTimeNow, CallKept, SinkMoves,
            syncVars, mgrVars, sinkVars, pathVars, seenVars
<1>1. SyncTypes'
  BY DEF SyncTypes
<1>2. HoldsFrame'
  BY DEF SyncTypes, HoldsFrame
<1>3. RunsOnClock'
  BY DEF SyncTypes, RunsOnClock, ScriptFits
<1>4. ScriptFits'
  BY DEF SyncTypes, ScriptFits, AllSettled, RunsOnClock
<1>5. ToldNothing'
  BY DEF SyncTypes, ToldNothing, NothingTold, AllSettled, ScriptFits, RunsOnClock
<1>6. PausedKeepsTime'
  BY DEF SyncTypes, PausedKeepsTime, ToldNothing, NothingTold
<1>7. AnchorCounts'
  BY DEF SyncTypes, AnchorCounts, ToldNothing, NothingTold, PausedKeepsTime
<1>8. ReadIsRecent'
  BY DEF SyncTypes, ReadIsRecent
<1> QED  BY <1>1, <1>2, <1>3, <1>4, <1>5, <1>6, <1>7, <1>8

\* A report that nothing came across anchors the frame at the moment the viewer counts it from.
LEMMA ReportsKeeps ==
    ASSUME SyncInv, NEW s \in Syncers, NEW latency \in Latencies, SinkReports(s, latency)
    PROVE  SyncInv'
<1> USE DEF SyncInv, SyncSafe, SinkReports, UpdateTimeAnchor, NONE, SinkSteps, CallKept,
            SinkMoves, syncVars, mgrVars, sinkVars, pathVars, seenVars
<1>1. SyncTypes'
  BY RangeIs, ShownIs DEF SyncTypes
<1>2. HoldsFrame'
  BY RangeIs, ShownIs DEF SyncTypes, HoldsFrame
<1>3. RunsOnClock'
  BY RangeIs, ShownIs DEF SyncTypes, RunsOnClock, ScriptFits
<1>4. ScriptFits'
  BY RangeIs, ShownIs DEF SyncTypes, ScriptFits, AllSettled, RunsOnClock
<1>5. ToldNothing'
  BY RangeIs, ShownIs DEF SyncTypes, ToldNothing, NothingTold, AllSettled, ScriptFits, RunsOnClock
<1>6. PausedKeepsTime'
  BY RangeIs, ShownIs DEF SyncTypes, PausedKeepsTime, ToldNothing, NothingTold
<1>7. AnchorCounts'
  <2>1. CASE readClock[s] + latency = NONE \/ clockState # "RESUMED" \/ ~Anchors(s)
    BY <2>1, RangeIs DEF SyncTypes, AnchorCounts
  <2>2. CASE readClock[s] + latency # NONE /\ clockState = "RESUMED" /\ Anchors(s)
    <3>1. /\ anchorClock' = readClock[s] + latency /\ anchorMedia' = framePts[s]
          /\ shown' = Showing(framePts[s] - latency + playedSince[s]) /\ strayed' = crossed[s]
          /\ sinkStep[s] = "anchor" /\ steady' = steady /\ alreadySet' = alreadySet
      BY <2>2
    <3>2. /\ framePts[s] \in Nat /\ latency \in Int /\ playedSince[s] \in Int /\ readClock[s] \in Int
          /\ steady \in Int
      BY <3>1, RangeIs DEF SyncTypes, HoldsFrame
    <3>3. shown'.known /\ shown'.time = framePts[s] - latency + playedSince[s]
      BY <3>1, <3>2, ShownIs
    <3>4. ~crossed[s] => readClock[s] = steady - playedSince[s]
      BY <2>2, <3>1 DEF ReadIsRecent
    <3>5. alreadySet
      BY <2>2 DEF AnchorCounts
    <3>6. ~strayed' => shown'.time = anchorMedia' + (steady' - anchorClock')
      BY <3>1, <3>2, <3>3, <3>4
    <3> QED  BY <2>2, <3>1, <3>2, <3>3, <3>5, <3>6 DEF AnchorCounts
  <2> QED  BY <2>1, <2>2
<1>8. ReadIsRecent'
  BY RangeIs, ShownIs DEF SyncTypes, ReadIsRecent
<1> QED  BY <1>1, <1>2, <1>3, <1>4, <1>5, <1>6, <1>7, <1>8

\* A video frame that is early is slept for.
LEMMA SleepsKeeps ==
    ASSUME SyncInv, NEW s \in Syncers, NEW latency \in Latencies, SinkSleeps(s, latency)
    PROVE  SyncInv'
<1> USE DEF SyncInv, SyncSafe, SinkSleeps, GetClockTime, GetClockTimeNow, SinkSteps, CallKept,
            SinkMoves, syncVars, mgrVars, sinkVars, pathVars, seenVars
<1>1. SyncTypes'
  BY RangeIs DEF SyncTypes
<1>2. HoldsFrame'
  BY RangeIs DEF SyncTypes, HoldsFrame
<1>3. RunsOnClock'
  BY RangeIs DEF SyncTypes, RunsOnClock, ScriptFits
<1>4. ScriptFits'
  BY RangeIs DEF SyncTypes, ScriptFits, AllSettled, RunsOnClock
<1>5. ToldNothing'
  BY RangeIs DEF SyncTypes, ToldNothing, NothingTold, AllSettled, ScriptFits, RunsOnClock
<1>6. PausedKeepsTime'
  BY RangeIs DEF SyncTypes, PausedKeepsTime, ToldNothing, NothingTold
<1>7. AnchorCounts'
  BY RangeIs DEF SyncTypes, AnchorCounts, ToldNothing, NothingTold, PausedKeepsTime
<1>8. ReadIsRecent'
  BY RangeIs DEF SyncTypes, ReadIsRecent
<1> QED  BY <1>1, <1>2, <1>3, <1>4, <1>5, <1>6, <1>7, <1>8

\* A video frame that is not early is rendered or dropped.
LEMMA RendersKeeps ==
    ASSUME SyncInv, NEW s \in Syncers, NEW latency \in Latencies, SinkRenders(s, latency)
    PROVE  SyncInv'
<1> USE DEF SyncInv, SyncSafe, SinkRenders, SinkSteps, NONE, CallKept, SinkMoves, syncVars,
            mgrVars, sinkVars, pathVars, seenVars
<1>1. SyncTypes'
  BY DEF SyncTypes
<1>2. HoldsFrame'
  BY DEF SyncTypes, HoldsFrame
<1>3. RunsOnClock'
  BY DEF SyncTypes, RunsOnClock, ScriptFits
<1>4. ScriptFits'
  BY DEF SyncTypes, ScriptFits, AllSettled, RunsOnClock
<1>5. ToldNothing'
  BY DEF SyncTypes, ToldNothing, NothingTold, AllSettled, ScriptFits, RunsOnClock
<1>6. PausedKeepsTime'
  BY DEF SyncTypes, PausedKeepsTime, ToldNothing, NothingTold
<1>7. AnchorCounts'
  BY DEF SyncTypes, AnchorCounts, ToldNothing, NothingTold, PausedKeepsTime
<1>8. ReadIsRecent'
  BY DEF SyncTypes, ReadIsRecent
<1> QED  BY <1>1, <1>2, <1>3, <1>4, <1>5, <1>6, <1>7, <1>8

\* The sink wakes and renders the frame it slept for.
LEMMA WakesKeeps ==
    ASSUME SyncInv, NEW s \in Syncers, SinkWakes(s)
    PROVE  SyncInv'
<1> USE DEF SyncInv, SyncSafe, SinkWakes, SinkSteps, NONE, CallKept, SinkMoves, syncVars, mgrVars,
            sinkVars, pathVars, seenVars
<1>1. SyncTypes'
  BY DEF SyncTypes
<1>2. HoldsFrame'
  BY DEF SyncTypes, HoldsFrame
<1>3. RunsOnClock'
  BY DEF SyncTypes, RunsOnClock, ScriptFits
<1>4. ScriptFits'
  BY DEF SyncTypes, ScriptFits, AllSettled, RunsOnClock
<1>5. ToldNothing'
  BY DEF SyncTypes, ToldNothing, NothingTold, AllSettled, ScriptFits, RunsOnClock
<1>6. PausedKeepsTime'
  BY DEF SyncTypes, PausedKeepsTime, ToldNothing, NothingTold
<1>7. AnchorCounts'
  BY DEF SyncTypes, AnchorCounts, ToldNothing, NothingTold, PausedKeepsTime
<1>8. ReadIsRecent'
  BY DEF SyncTypes, ReadIsRecent
<1> QED  BY <1>1, <1>2, <1>3, <1>4, <1>5, <1>6, <1>7, <1>8

\* A call begins where the state of the manager allows it.
LEMMA CallKeeps ==
    ASSUME SyncInv, NEW c \in SyncApi, PlayerAsks(c)
    PROVE  SyncInv'
<1> USE DEF SyncInv, SyncSafe, PlayerAsks, SyncCallable, syncVars, mgrVars, sinkVars, pathVars,
            seenVars
<1>1. SyncTypes'
  BY CallsBegin DEF SyncTypes
<1>2. HoldsFrame'
  BY CallsBegin DEF SyncTypes, HoldsFrame
<1>3. RunsOnClock'
  BY CallsBegin DEF SyncTypes, RunsOnClock, ScriptFits
<1>4. ScriptFits'
  BY CallsBegin, SMTT(60) DEF SyncTypes, ScriptFits, AllSettled, RunsOnClock
<1>5. ToldNothing'
  BY CallsBegin DEF SyncTypes, ToldNothing, NothingTold, AllSettled, ScriptFits, RunsOnClock
<1>6. PausedKeepsTime'
  BY CallsBegin DEF SyncTypes, PausedKeepsTime, ToldNothing, NothingTold
<1>7. AnchorCounts'
  BY CallsBegin DEF SyncTypes, AnchorCounts, ToldNothing, NothingTold, PausedKeepsTime
<1>8. ReadIsRecent'
  BY CallsBegin DEF SyncTypes, ReadIsRecent
<1> QED  BY <1>1, <1>2, <1>3, <1>4, <1>5, <1>6, <1>7, <1>8

\* Prepare registers the sinks with a manager that has no time to tell.
LEMMA ConfiguresKeeps ==
    ASSUME SyncInv, PlayerConfigures
    PROVE  SyncInv'
<1> USE DEF SyncInv, SyncSafe, PlayerConfigures, AddSynchronizers, SinksBecome, Playings, SyncAt,
            IsDue, Followings, syncVars, mgrVars, sinkVars, pathVars, seenVars
<1>1. SyncTypes'
  BY ScriptSteps DEF SyncTypes
<1>2. HoldsFrame'
  BY ScriptSteps DEF SyncTypes, HoldsFrame
<1>3. RunsOnClock'
  BY ScriptSteps DEF SyncTypes, RunsOnClock, ScriptFits
<1>4. ScriptFits'
  BY ScriptSteps DEF SyncTypes, ScriptFits, AllSettled, RunsOnClock
<1>5. ToldNothing'
  BY ScriptSteps DEF SyncTypes, ToldNothing, NothingTold, AllSettled, ScriptFits, RunsOnClock
<1>6. PausedKeepsTime'
  BY ScriptSteps DEF SyncTypes, PausedKeepsTime, ToldNothing, NothingTold
<1>7. AnchorCounts'
  BY ScriptSteps DEF SyncTypes, AnchorCounts, ToldNothing, NothingTold, PausedKeepsTime
<1>8. ReadIsRecent'
  BY ScriptSteps DEF SyncTypes, ReadIsRecent
<1> QED  BY <1>1, <1>2, <1>3, <1>4, <1>5, <1>6, <1>7, <1>8

\* Resuming anchors the time of the pause at this moment; no reader of the old time is trusted.
LEMMA ResumesKeeps ==
    ASSUME SyncInv, PlayerResumesClock
    PROVE  SyncInv'
<1> USE DEF SyncInv, SyncSafe, PlayerResumesClock, ManagerResumes, SetAllSyncShouldWait,
            RangeKnown, SyncAt, IsDue, Followings, syncVars, mgrVars, sinkVars, pathVars, seenVars
<1>1. SyncTypes'
  <2>1. syncScript' \in SyncScripts
    BY ScriptSteps DEF SyncTypes
  <2>2. /\ anchorClock' \in Int /\ anchorMedia' \in Int /\ pausedMedia' \in Int /\ pausedClock' \in Int
        /\ clockState' = "RESUMED"
    BY DEF SyncTypes, NONE
  <2>4. alreadySet' \in BOOLEAN
    <3>1. alreadySet' = TRUE \/ alreadySet' = alreadySet
      OBVIOUS
    <3> QED  BY <3>1 DEF SyncTypes
  <2>3. crossed' \in [Syncers -> BOOLEAN]
    OBVIOUS
  <2> QED  BY <2>1, <2>2, <2>3, <2>4 DEF SyncTypes
<1>2. HoldsFrame'
  BY ScriptSteps, RangeIs DEF SyncTypes, HoldsFrame
<1>3. RunsOnClock'
  BY ScriptSteps, RangeIs DEF SyncTypes, RunsOnClock, ScriptFits
<1>4. ScriptFits'
  BY ScriptSteps, RangeIs DEF SyncTypes, ScriptFits, AllSettled, RunsOnClock
<1>5. ToldNothing'
  BY ScriptSteps, RangeIs DEF SyncTypes, ToldNothing, NothingTold, AllSettled, ScriptFits,
                              RunsOnClock
<1>6. PausedKeepsTime'
  BY ScriptSteps, RangeIs DEF SyncTypes, PausedKeepsTime, ToldNothing, NothingTold
<1>7. AnchorCounts'
  <2>1. CASE clockState = "RESUMED"
    BY <2>1 DEF SyncTypes, AnchorCounts
  <2>2. CASE clockState = "PAUSED" /\ pausedMedia = NONE
    BY <2>2 DEF SyncTypes, AnchorCounts, ToldNothing, NothingTold
  <2>3. CASE clockState = "PAUSED" /\ pausedMedia # NONE
    <3>1. /\ alreadySet' /\ anchorClock' = steady /\ anchorMedia' = pausedMedia
          /\ shown' = shown /\ strayed' = strayed /\ steady' = steady
      BY <2>3 DEF PausedKeepsTime
    <3>2. /\ ~strayed => shown.known /\ shown.time = pausedMedia
          /\ steady \in Nat /\ pausedMedia \in Int
      BY <2>3 DEF PausedKeepsTime, SyncTypes
    <3>3. shown.time = pausedMedia => shown'.time = anchorMedia' + (steady' - anchorClock')
      BY <3>1, <3>2
    <3> QED  BY <2>3, <3>1, <3>2, <3>3 DEF AnchorCounts, NONE
  <2> QED  BY <2>1, <2>2, <2>3 DEF SyncTypes
<1>8. ReadIsRecent'
  BY ScriptSteps, RangeIs DEF SyncTypes, ReadIsRecent
<1> QED  BY <1>1, <1>2, <1>3, <1>4, <1>5, <1>6, <1>7, <1>8

\* The sinks run after the clock was resumed.
LEMMA RunsKeeps ==
    ASSUME SyncInv, PlayerRunsSinks
    PROVE  SyncInv'
<1> USE DEF SyncInv, SyncSafe, PlayerRunsSinks, SinksBecome, Playings, SyncAt, IsDue, Followings,
            syncVars, mgrVars, sinkVars, pathVars, seenVars
<1>1. SyncTypes'
  BY ScriptSteps DEF SyncTypes
<1>2. HoldsFrame'
  BY ScriptSteps DEF SyncTypes, HoldsFrame
<1>3. RunsOnClock'
  BY ScriptSteps DEF SyncTypes, RunsOnClock, ScriptFits
<1>4. ScriptFits'
  BY ScriptSteps DEF SyncTypes, ScriptFits, AllSettled, RunsOnClock
<1>5. ToldNothing'
  BY ScriptSteps DEF SyncTypes, ToldNothing, NothingTold, AllSettled, ScriptFits, RunsOnClock
<1>6. PausedKeepsTime'
  BY ScriptSteps DEF SyncTypes, PausedKeepsTime, ToldNothing, NothingTold
<1>7. AnchorCounts'
  BY ScriptSteps DEF SyncTypes, AnchorCounts, ToldNothing, NothingTold, PausedKeepsTime
<1>8. ReadIsRecent'
  BY ScriptSteps DEF SyncTypes, ReadIsRecent
<1> QED  BY <1>1, <1>2, <1>3, <1>4, <1>5, <1>6, <1>7, <1>8

\* The sinks are paused before the clock is.
LEMMA PausesSinksKeeps ==
    ASSUME SyncInv, PlayerPausesSinks
    PROVE  SyncInv'
<1> USE DEF SyncInv, SyncSafe, PlayerPausesSinks, SinksBecome, Playings, SyncAt, IsDue,
            Followings, syncVars, mgrVars, sinkVars, pathVars, seenVars
<1>1. SyncTypes'
  BY ScriptSteps DEF SyncTypes
<1>2. HoldsFrame'
  BY ScriptSteps DEF SyncTypes, HoldsFrame
<1>3. RunsOnClock'
  BY ScriptSteps DEF SyncTypes, RunsOnClock, ScriptFits
<1>4. ScriptFits'
  BY ScriptSteps DEF SyncTypes, ScriptFits, AllSettled, RunsOnClock
<1>5. ToldNothing'
  BY ScriptSteps DEF SyncTypes, ToldNothing, NothingTold, AllSettled, ScriptFits, RunsOnClock
<1>6. PausedKeepsTime'
  BY ScriptSteps DEF SyncTypes, PausedKeepsTime, ToldNothing, NothingTold
<1>7. AnchorCounts'
  BY ScriptSteps DEF SyncTypes, AnchorCounts, ToldNothing, NothingTold, PausedKeepsTime
<1>8. ReadIsRecent'
  BY ScriptSteps DEF SyncTypes, ReadIsRecent
<1> QED  BY <1>1, <1>2, <1>3, <1>4, <1>5, <1>6, <1>7, <1>8

\* Pausing keeps the media time of this moment, within the range of the media.
LEMMA PausesClockKeeps ==
    ASSUME SyncInv, PlayerPausesClock
    PROVE  SyncInv'
<1> USE DEF SyncInv, SyncSafe, PlayerPausesClock, ManagerPauses, SimpleGetMediaTime, RangeKnown,
            NONE, SyncAt, IsDue, Followings, syncVars, mgrVars, sinkVars, pathVars, seenVars
<1> DEFINE clipped == ClipMediaTime(SimpleGetMediaTime(steady))
           counted == ClipMediaTime(shown.time)
<1>0. /\ clockState = "PAUSED" => pausedMedia' = pausedMedia /\ pausedClock' = pausedClock /\ shown' = shown
      /\ clockState = "RESUMED" => pausedMedia' = clipped /\ pausedClock' = steady /\ shown' = Showing(counted)
      /\ clockState' = "PAUSED" /\ strayed' = strayed /\ alreadySet' = alreadySet
  OBVIOUS
<1>a. shown.time \in Int /\ SimpleGetMediaTime(steady) \in Int
  BY ShownIs DEF SyncTypes, SimpleGetMediaTime, NONE
<1>b. /\ clipped \in Int /\ counted \in Int
      /\ RangeKnown => TrackStart <= clipped /\ clipped <= TrackEnd
  BY <1>a, ClippedIs
<1>c. Showing(counted) \in ShownTimes /\ Showing(counted).known /\ Showing(counted).time = counted
  BY <1>b, ShownIs
<1>d. clockState = "RESUMED" => RangeKnown
  BY DEF ToldNothing, NothingTold, RangeKnown
<1>e. clockState = "RESUMED" /\ ~strayed => shown.time = SimpleGetMediaTime(steady)
  BY <1>a, <1>d DEF AnchorCounts, ToldNothing, SimpleGetMediaTime, NONE, SyncTypes
<1> HIDE DEF clipped, counted
<1>f. clockState = "RESUMED" /\ ~strayed => counted = clipped
  BY <1>e DEF clipped, counted
<1>1. SyncTypes'
  <2>1. syncScript' \in SyncScripts
    BY ScriptSteps DEF SyncTypes
  <2>2. pausedMedia' \in Int /\ pausedClock' \in Int /\ shown' \in ShownTimes
    BY <1>0, <1>b, <1>c DEF SyncTypes
  <2>3. crossed' \in [Syncers -> BOOLEAN]
    OBVIOUS
  <2> QED  BY <2>1, <2>2, <2>3 DEF SyncTypes
<1>2. HoldsFrame'
  BY ScriptSteps, ShownIs, RangeIs, ClippedIs DEF SyncTypes, HoldsFrame
<1>3. RunsOnClock'
  BY ScriptSteps, ShownIs, RangeIs, ClippedIs DEF SyncTypes, RunsOnClock, ScriptFits
<1>4. ScriptFits'
  BY ScriptSteps, ShownIs, RangeIs, ClippedIs DEF SyncTypes, ScriptFits, AllSettled, RunsOnClock
<1>5. ToldNothing'
  <2>1. CASE clockState = "PAUSED"
    BY <2>1, <1>0 DEF SyncTypes, ToldNothing, NothingTold, AllSettled
  <2>2. CASE clockState = "RESUMED"
    <3>1. pausedMedia' # NONE /\ shown'.known /\ registered' # {}
      BY <2>2, <1>0, <1>b, <1>c, <1>d, RangeIs DEF RangeKnown, NONE
    <3> QED  BY <3>1 DEF ToldNothing, NothingTold
  <2> QED  BY <2>1, <2>2 DEF SyncTypes
<1>6. PausedKeepsTime'
  <2>1. CASE clockState = "PAUSED"
    BY <2>1, <1>0 DEF PausedKeepsTime
  <2>2. CASE clockState = "RESUMED"
    BY <2>2, <1>0, <1>b, <1>c, <1>d, <1>f DEF PausedKeepsTime, AnchorCounts
  <2> QED  BY <2>1, <2>2 DEF SyncTypes
<1>7. AnchorCounts'
  BY ScriptSteps, ShownIs, RangeIs, ClippedIs DEF SyncTypes, AnchorCounts, ToldNothing,
       NothingTold, PausedKeepsTime
<1>8. ReadIsRecent'
  BY ScriptSteps, ShownIs, RangeIs, ClippedIs DEF SyncTypes, ReadIsRecent
<1> QED  BY <1>1, <1>2, <1>3, <1>4, <1>5, <1>6, <1>7, <1>8

\* A flush begins, and later finds the threads of the sinks settled.
LEMMA FlushesKeeps ==
    ASSUME SyncInv, PlayerFlushes
    PROVE  SyncInv'
<1> USE DEF SyncInv, SyncSafe, PlayerFlushes, CallKept, AllSettled, SyncAt, IsDue, Followings,
            syncVars, mgrVars, sinkVars, pathVars, seenVars
<1>1. SyncTypes'
  BY ScriptSteps DEF SyncTypes
<1>2. HoldsFrame'
  BY ScriptSteps DEF SyncTypes, HoldsFrame
<1>3. RunsOnClock'
  BY ScriptSteps DEF SyncTypes, RunsOnClock, ScriptFits
<1>4. ScriptFits'
  BY ScriptSteps DEF SyncTypes, ScriptFits, AllSettled, RunsOnClock
<1>5. ToldNothing'
  BY ScriptSteps DEF SyncTypes, ToldNothing, NothingTold, AllSettled, ScriptFits, RunsOnClock
<1>6. PausedKeepsTime'
  BY ScriptSteps DEF SyncTypes, PausedKeepsTime, ToldNothing, NothingTold
<1>7. AnchorCounts'
  BY ScriptSteps DEF SyncTypes, AnchorCounts, ToldNothing, NothingTold, PausedKeepsTime
<1>8. ReadIsRecent'
  BY ScriptSteps DEF SyncTypes, ReadIsRecent
<1> QED  BY <1>1, <1>2, <1>3, <1>4, <1>5, <1>6, <1>7, <1>8

\* A flush ends.
LEMMA UnflushesKeeps ==
    ASSUME SyncInv, PlayerUnflushes
    PROVE  SyncInv'
<1> USE DEF SyncInv, SyncSafe, PlayerUnflushes, SyncAt, IsDue, Followings, syncVars, mgrVars,
            sinkVars, pathVars, seenVars
<1>1. SyncTypes'
  BY ScriptSteps DEF SyncTypes
<1>2. HoldsFrame'
  BY ScriptSteps DEF SyncTypes, HoldsFrame
<1>3. RunsOnClock'
  BY ScriptSteps DEF SyncTypes, RunsOnClock, ScriptFits
<1>4. ScriptFits'
  BY ScriptSteps DEF SyncTypes, ScriptFits, AllSettled, RunsOnClock
<1>5. ToldNothing'
  BY ScriptSteps DEF SyncTypes, ToldNothing, NothingTold, AllSettled, ScriptFits, RunsOnClock
<1>6. PausedKeepsTime'
  BY ScriptSteps DEF SyncTypes, PausedKeepsTime, ToldNothing, NothingTold
<1>7. AnchorCounts'
  BY ScriptSteps DEF SyncTypes, AnchorCounts, ToldNothing, NothingTold, PausedKeepsTime
<1>8. ReadIsRecent'
  BY ScriptSteps DEF SyncTypes, ReadIsRecent
<1> QED  BY <1>1, <1>2, <1>3, <1>4, <1>5, <1>6, <1>7, <1>8

\* A seek drops the anchor while no sink holds a frame of before; one out of range changes nothing.
LEMMA SeeksKeeps ==
    ASSUME SyncInv, NEW t \in FrameTimes, PlayerSeeks(t)
    PROVE  SyncInv'
<1> USE DEF SyncInv, SyncSafe, PlayerSeeks, ManagerSeeks, SetAllSyncShouldWait, RangeKnown, NONE,
            SyncAt, IsDue, Followings, syncVars, mgrVars, sinkVars, pathVars, seenVars
<1>0. t \in Nat /\ (t \in TrackStart .. TrackEnd <=> ~(t < TrackStart \/ t > TrackEnd))
  BY RangeIs
<1>1. SyncTypes'
  <2>1. syncScript' \in SyncScripts
    BY ScriptSteps DEF SyncTypes
  <2>2. shown' = NothingShown \/ shown' = shown
    OBVIOUS
  <2>3. strayed' \in BOOLEAN
    OBVIOUS
  <2>4. CASE UNCHANGED <<mgrVars, waitPreroll>>
    BY <2>1, <2>2, <2>3, <2>4, ShownIs DEF SyncTypes
  <2>5. CASE ~UNCHANGED <<mgrVars, waitPreroll>>
    <3>1. /\ seeking' = TRUE /\ seekTarget' = t /\ alreadySet' = TRUE
          /\ pausedMedia' = NONE /\ anchorClock' = NONE /\ anchorMedia' = NONE
          /\ UNCHANGED <<registered, clockState, pausedClock>>
      BY <2>5
    <3> QED  BY <2>1, <2>2, <2>3, <3>1, ShownIs DEF SyncTypes
  <2> QED  BY <2>4, <2>5
<1>2. HoldsFrame'
  BY ScriptSteps, ShownIs, RangeIs DEF SyncTypes, HoldsFrame
<1>3. RunsOnClock'
  BY ScriptSteps, ShownIs, RangeIs DEF SyncTypes, RunsOnClock, ScriptFits
<1>4. ScriptFits'
  BY ScriptSteps, ShownIs, RangeIs DEF SyncTypes, ScriptFits, AllSettled, RunsOnClock
<1>5. ToldNothing'
  BY ScriptSteps, ShownIs, RangeIs, SMTT(60) DEF SyncTypes, ToldNothing, NothingTold, AllSettled,
                                       ScriptFits, RunsOnClock
<1>6. PausedKeepsTime'
  BY ScriptSteps, ShownIs, RangeIs DEF SyncTypes, PausedKeepsTime, ToldNothing, NothingTold
<1>7. AnchorCounts'
  <2>1. CASE ~RangeKnown
    BY <2>1 DEF AnchorCounts, ToldNothing, NothingTold, SyncTypes
  <2>2. CASE RangeKnown /\ ~(t \in TrackStart .. TrackEnd)
    <3>1. UNCHANGED <<clockState, alreadySet, anchorClock, anchorMedia, steady, shown>> /\ strayed' = strayed
      BY <2>2, <1>0 DEF SyncTypes
    <3> QED  BY <3>1 DEF AnchorCounts
  <2>3. CASE RangeKnown /\ t \in TrackStart .. TrackEnd
    <3>1. alreadySet' = TRUE /\ anchorClock' = NONE /\ anchorMedia' = NONE /\ shown' = NothingShown
      BY <2>3, <1>0
    <3> QED  BY <3>1, ShownIs DEF AnchorCounts
  <2> QED  BY <2>1, <2>2, <2>3
<1>8. ReadIsRecent'
  BY ScriptSteps, ShownIs, RangeIs DEF SyncTypes, ReadIsRecent
<1> QED  BY <1>1, <1>2, <1>3, <1>4, <1>5, <1>6, <1>7, <1>8

\* Stop finds the threads of the sinks settled, and keeps them so.
LEMMA StopsKeeps ==
    ASSUME SyncInv, PlayerStopsSinks
    PROVE  SyncInv'
<1> USE DEF SyncInv, SyncSafe, PlayerStopsSinks, SinksBecome, Playings, SyncAt, IsDue, Followings,
            syncVars, mgrVars, sinkVars, pathVars, seenVars
<1>1. SyncTypes'
  BY ScriptSteps DEF SyncTypes
<1>2. HoldsFrame'
  BY ScriptSteps DEF SyncTypes, HoldsFrame
<1>3. RunsOnClock'
  BY ScriptSteps DEF SyncTypes, RunsOnClock, ScriptFits
<1>4. ScriptFits'
  BY ScriptSteps DEF SyncTypes, ScriptFits, AllSettled, RunsOnClock
<1>5. ToldNothing'
  BY ScriptSteps DEF SyncTypes, ToldNothing, NothingTold, AllSettled, ScriptFits, RunsOnClock
<1>6. PausedKeepsTime'
  BY ScriptSteps DEF SyncTypes, PausedKeepsTime, ToldNothing, NothingTold
<1>7. AnchorCounts'
  BY ScriptSteps DEF SyncTypes, AnchorCounts, ToldNothing, NothingTold, PausedKeepsTime
<1>8. ReadIsRecent'
  BY ScriptSteps DEF SyncTypes, ReadIsRecent
<1> QED  BY <1>1, <1>2, <1>3, <1>4, <1>5, <1>6, <1>7, <1>8

\* A reset leaves a manager that has no time to tell.
LEMMA ResetsKeeps ==
    ASSUME SyncInv, PlayerResetsClock
    PROVE  SyncInv'
<1> USE DEF SyncInv, SyncSafe, PlayerResetsClock, ManagerResets, NONE, SyncAt, IsDue, Followings,
            syncVars, mgrVars, sinkVars, pathVars, seenVars
<1>1. SyncTypes'
  BY ScriptSteps, ShownIs DEF SyncTypes
<1>2. HoldsFrame'
  BY ScriptSteps, ShownIs DEF SyncTypes, HoldsFrame
<1>3. RunsOnClock'
  BY ScriptSteps, ShownIs DEF SyncTypes, RunsOnClock, ScriptFits
<1>4. ScriptFits'
  BY ScriptSteps, ShownIs DEF SyncTypes, ScriptFits, AllSettled, RunsOnClock
<1>5. ToldNothing'
  BY ScriptSteps, ShownIs DEF SyncTypes, ToldNothing, NothingTold, AllSettled, ScriptFits,
                              RunsOnClock
<1>6. PausedKeepsTime'
  BY ScriptSteps, ShownIs DEF SyncTypes, PausedKeepsTime, ToldNothing, NothingTold
<1>7. AnchorCounts'
  BY ScriptSteps, ShownIs DEF SyncTypes, AnchorCounts, ToldNothing, NothingTold, PausedKeepsTime
<1>8. ReadIsRecent'
  BY ScriptSteps, ShownIs DEF SyncTypes, ReadIsRecent
<1> QED  BY <1>1, <1>2, <1>3, <1>4, <1>5, <1>6, <1>7, <1>8

\* While the clock runs, its time and the one a viewer counts go on together.
LEMMA TicksKeeps ==
    ASSUME SyncInv, SteadyTicks
    PROVE  SyncInv'
<1> USE DEF SyncInv, SyncSafe, SteadyTicks, NONE, syncVars, mgrVars, sinkVars, pathVars, seenVars
<1>1. SyncTypes'
  BY ShownIs DEF SyncTypes
<1>2. HoldsFrame'
  BY ShownIs DEF SyncTypes, HoldsFrame
<1>3. RunsOnClock'
  BY ShownIs DEF SyncTypes, RunsOnClock, ScriptFits
<1>4. ScriptFits'
  BY ShownIs DEF SyncTypes, ScriptFits, AllSettled, RunsOnClock
<1>5. ToldNothing'
  BY ShownIs DEF SyncTypes, ToldNothing, NothingTold, AllSettled, ScriptFits, RunsOnClock
<1>6. PausedKeepsTime'
  BY ShownIs DEF SyncTypes, PausedKeepsTime, ToldNothing, NothingTold
<1>7. AnchorCounts'
  BY ShownIs DEF SyncTypes, AnchorCounts, ToldNothing, NothingTold, PausedKeepsTime
<1>8. ReadIsRecent'
  BY ShownIs DEF SyncTypes, ReadIsRecent
<1> QED  BY <1>1, <1>2, <1>3, <1>4, <1>5, <1>6, <1>7, <1>8

-----------------------------------------------------------------------------
(* The theorem.                                                            *)

\* The invariant holds before the first call.
LEMMA InitTells ==
    ASSUME SyncInit
    PROVE  SyncInv
<1> USE DEF SyncInit
<1>1. SyncTypes
  <2>1. <<>> \in SyncScripts
    BY DEF SyncScripts
  <2>2. /\ sinkState \in [Syncers -> Playings] /\ sinkStep \in [Syncers -> SinkSteps]
        /\ crossed \in [Syncers -> BOOLEAN]
    BY DEF Playings, SinkSteps
  <2>3. /\ framePts \in [Syncers -> Int] /\ readClock \in [Syncers -> Int]
        /\ playedSince \in [Syncers -> Int]
    BY DEF NONE
  <2> QED  BY <2>1, <2>2, <2>3, ShownIs, ZenonT(60) DEF SyncTypes, NONE
<1>2. SyncSafe
  <2>1. \A d : ~IsDue(syncScript, d)
    BY DEF IsDue
  <2>2. ~shown.known /\ shown.time = NONE
    BY ShownIs
  <2> QED  BY <2>1, <2>2 DEF SyncSafe, HoldsFrame, RunsOnClock, ScriptFits, ToldNothing, NothingTold,
                             PausedKeepsTime, AnchorCounts, ReadIsRecent, AllSettled
<1> QED  BY <1>1, <1>2 DEF SyncInv

\* The thread of a sink keeps the invariant.
LEMMA SinksKeep ==
    ASSUME SyncInv, NEW s \in Syncers, SinkThread(s)
    PROVE  SyncInv'
  BY TakesKeeps, PrerollsKeeps, AsksKeeps, ReportsKeeps, SleepsKeeps, RendersKeeps, WakesKeeps
     DEF SinkThread

\* The calls of the player keep the invariant.
LEMMA PlayerKeeps ==
    ASSUME SyncInv, SyncPlayer
    PROVE  SyncInv'
  BY CallKeeps, ConfiguresKeeps, ResumesKeeps, RunsKeeps, PausesSinksKeeps, PausesClockKeeps,
     FlushesKeeps, UnflushesKeeps, SeeksKeeps, StopsKeeps, ResetsKeeps
     DEF SyncPlayer

\* In a state of the invariant the position that is told is the one that was counted.
LEMMA InvTells ==
    ASSUME SyncInv
    PROVE  PositionFollowsPlay
<1> USE DEF SyncInv, SyncSafe
<1> SUFFICES ASSUME ~strayed, ~seeking
             PROVE  GetMediaTimeNow = IF clockState = "PAUSED" /\ ~shown.known THEN 0
                                      ELSE ClipMediaTime(shown.time)
  BY DEF PositionFollowsPlay, GetMediaTimeNow
<1>1. CASE clockState = "PAUSED" /\ pausedMedia = NONE
  BY <1>1 DEF GetMediaTimeNow, ToldNothing, NothingTold
<1>2. CASE clockState = "PAUSED" /\ pausedMedia # NONE
  <2>1. /\ shown.known /\ shown.time = pausedMedia /\ pausedMedia \in Int
        /\ TrackStart <= pausedMedia /\ pausedMedia <= TrackEnd
    BY <1>2 DEF PausedKeepsTime, SyncTypes
  <2>2. ClipMediaTime(pausedMedia) = pausedMedia
    BY <2>1, ClippedIs
  <2> QED  BY <1>2, <2>1, <2>2 DEF GetMediaTimeNow
<1>3. CASE clockState = "RESUMED"
  <2>1. shown.time = SimpleGetMediaTime(steady)
    BY <1>3 DEF AnchorCounts, ToldNothing, SimpleGetMediaTime
  <2> QED  BY <1>3, <2>1 DEF GetMediaTimeNow
<1> QED  BY <1>1, <1>2, <1>3 DEF SyncTypes

\* The position a player tells is always the one a viewer would have counted: from
\* the last frame reported, the time played without the pauses, within the range
\* of the media; while a seek has not shown a frame near its target, the target
\* (MediaSyncManager::GetMediaTimeNow).  For any sinks, frames, latencies and calls.
THEOREM PositionIsCounted == SyncSpec => []PositionFollowsPlay
<1>1. SyncInit => SyncInv
  BY InitTells
<1>2. SyncInv /\ [SyncNext]_syncVars => SyncInv'
  BY StutterKeeps, SinksKeep, PlayerKeeps, TicksKeeps DEF SyncNext
<1>3. SyncInv => PositionFollowsPlay
  BY InvTells
<1> QED
  BY <1>1, <1>2, <1>3, PTL DEF SyncSpec

=============================================================================
