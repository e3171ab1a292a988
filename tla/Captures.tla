------------------------------- MODULE Captures ------------------------------
(***************************************************************************)
(* What a recording is made of: AudioCaptureFilter over AudioCapturePlugin,*)
(* and VideoCaptureFilter over the plug-in that reads a file of pictures or*)
(* the one that is given them through a Surface.                           *)
(*                                                                         *)
(* A client prepares the filter (a plug-in is found whose capabilities the *)
(* next filter shares, and is set to what was agreed), then starts, pauses,*)
(* resumes, ends and stops it; its calls are the steps of the code.  The   *)
(* reader is the filter's Task: it reads a buffer, takes out of its time   *)
(* what a pause took, and sends it through the calibration of times.       *)
(*                                                                         *)
(* A buffer lasts CpUnit.  The audio service (external) numbers buffers by *)
(* its clock, which is late by up to CpJitter, may lose buffers and runs on*)
(* while the client pauses.  The file has CpFileFrames pictures.           *)
(***************************************************************************)
EXTENDS Integers, Sequences, SequencesExt, FiniteSetsExt, TLC

CONSTANTS CpDowns,       \* what the next filter may take: lists for keys
          CpSettings,    \* what the client may set: [filter, keys]
          CpSupported,   \* what the audio service supports: lists for rate, channels and format
          CpKnown,       \* what the plug-in's tables know: sets for rate, channels and format
          CpUnit, CpSlack, CpJitter,   \* length of a buffer, ptsDiffThreshold_, jitter of the clock
          CpFileFrames, CpSurfaceQueue,
          MaxCpCalls, MaxCpFrames, MaxCpFaults   \* bounds: client's calls, buffers, faults

ASSUME CpAssumption ==
    /\ {CpUnit, CpSlack} \subseteq Nat \ {0} /\ 2 * CpSlack <= CpUnit
    /\ {CpJitter, CpFileFrames, CpSurfaceQueue, MaxCpCalls, MaxCpFrames, MaxCpFaults} \subseteq Nat

VARIABLES
    cpSet,      \* what SetParameter left in the filter
    cpDown,     \* what the next filter takes
    cpPhase,    \* what the client has reached
    cpAgreed,   \* capNegWithDownstream_
    cpPlug,     \* the plug-in and what Base knows of it
    cpCal,      \* the calibration: on, keys it was told, times of the last buffer
    cpTask, cpAt, cpPts,        \* the Task, its place in ReadLoop, the time of the buffer it holds
    cpEos, cpPaused, cpTimes,   \* eos_ or isEos_; state_ is PAUSED; what the filter knows of pauses
    cpClock, cpCall, cpCalls, cpFrames, cpFaults,
    cpOut       \* times that were pushed since the last start; EosTime stands for EOS

cpVars == <<cpSet, cpDown, cpPhase, cpAgreed, cpPlug, cpCal, cpTask, cpAt, cpPts, cpEos, cpPaused, cpTimes,
            cpClock, cpCall, cpCalls, cpFrames, cpFaults, cpOut>>
cpFilterVars == <<cpSet, cpDown, cpAgreed>>
cpReaderVars == <<cpAt, cpPts, cpFrames, cpClock>>

NoTime == -1    \* HST_TIME_NONE
EosTime == -2
PreferredFormat == 16
AudioKeys == <<"rate", "channels", "bits", "format">>
IsAudio == cpSet.filter = "audio"

NewCapture(name) ==
    [name |-> name, state |-> "created", token |-> 0, params |-> <<>>, size |-> 0, runs |-> FALSE,
     open |-> FALSE, stopped |-> FALSE, first |-> TRUE, cur |-> 0, stopAt |-> 0, lost |-> 0, count |-> 0]
NewCalibration == [on |-> FALSE, told |-> <<>>, first |-> TRUE, last |-> NoTime, length |-> 0]
NewTimes == [latest |-> NoTime, paused |-> NoTime, total |-> 0, refresh |-> FALSE]

AudioTags == {"input", "rate", "channels", "bits", "format", "layout", "token", "uid"}
VideoTags == {"input", "size", "capture rate"}
Taken(keys, tags) == [k \in DOMAIN keys \intersect tags |-> keys[k]]

\* SetParameter of the filters: what they know they keep; the input type decides the pixel format.
AudioSets(keys) == Taken(keys, AudioTags)
VideoSets(keys) ==
    IF "input" \notin DOMAIN keys THEN Taken(keys, VideoTags)
    ELSE Taken(keys, VideoTags) @@ ("pixel" :> IF keys.input = "yuv" THEN "yuv420p" ELSE "rgba")
TakesSettings(s) == [s EXCEPT !.keys = IF s.filter = "audio" THEN AudioSets(@) ELSE VideoSets(@)]

CpTypeOK ==
    /\ cpSet \in {TakesSettings(s) : s \in CpSettings} /\ cpDown \in CpDowns
    /\ cpPhase \in {"new", "prepared", "running", "paused", "ended"} /\ cpTask \in {"stopped", "running", "paused"}
    /\ DOMAIN cpPlug = DOMAIN NewCapture("none") /\ cpPlug.state \in {"created", "initialized", "prepared", "running"}
    /\ cpPlug.count \in 0 .. CpSurfaceQueue /\ DOMAIN cpCal = DOMAIN NewCalibration /\ DOMAIN cpTimes = DOMAIN NewTimes
    /\ cpAt \in {"idle", "reading", "sending", "ending", "crashed"} /\ {cpPts, cpClock} \subseteq Int
    /\ {cpEos, cpPaused} \subseteq BOOLEAN /\ cpCalls \in 0 .. MaxCpCalls
    /\ cpFrames \in 0 .. MaxCpFrames /\ cpFaults \in 0 .. MaxCpFaults /\ cpOut \in Seq(Int)

-----------------------------------------------------------------------------
(* Prepare: finding a plug-in and setting it up.                           *)

\* The plug-ins as they are listed.  The audio plug-in offers what the service supports and its tables
\* know; a key of which nothing is left is not offered.
OfferedBy(k) == SelectSeq(CpSupported[k], LAMBDA v : v \in CpKnown[k])
AudioCaps == [k \in {k \in DOMAIN CpSupported : OfferedBy(k) # <<>>} |-> OfferedBy(k)]
AudioCapture == [name |-> "audio", input |-> "mic", caps |-> <<AudioCaps>>]
FileCapture == [name |-> "file", input |-> "yuv", caps |-> << [pixel |-> <<"yuv420p">>] >>]
SurfaceCapture == [name |-> "surface", input |-> "yuv", caps |-> << [pixel |-> <<"nv21">>] >>]
CpPlugins == <<AudioCapture, FileCapture, SurfaceCapture>>

Has(k) == k \in DOMAIN cpSet.keys
CheckSampleRate(cap) == Has("rate") => ("rate" \in DOMAIN cap /\ Contains(cap.rate, cpSet.keys.rate))
CheckChannels(cap) == Has("channels") => ("channels" \in DOMAIN cap /\ Contains(cap.channels, cpSet.keys.channels))

\* It asks whether the channels were specified, not whether the format was.
CheckSampleFormat(cap) ==
    Has("channels") =>
        ("format" \in DOMAIN cap /\ Contains(cap.format, IF Has("format") THEN cpSet.keys.format ELSE PreferredFormat))

\* The channels decide the layout.
LayoutKey ==
    IF Has("channels") THEN [layout |-> <<IF cpSet.keys.channels = 1 THEN "mono" ELSE "stereo">>]
    ELSE IF Has("layout") THEN [layout |-> <<cpSet.keys.layout>>] ELSE <<>>

\* DoNegotiate: the capabilities offered to the next filter.
AudioOffers(caps) ==
    LET good == SelectSeq(caps, LAMBDA c : CheckSampleRate(c) /\ CheckChannels(c) /\ CheckSampleFormat(c))
        asked == Range(AudioKeys) \intersect DOMAIN cpSet.keys
    IN  [i \in DOMAIN good |->
            [k \in DOMAIN good[i] \union asked \union DOMAIN LayoutKey |->
                IF k \in DOMAIN LayoutKey THEN LayoutKey[k] ELSE IF k \in asked THEN <<cpSet.keys[k]>> ELSE good[i][k]]]
VideoOffers(caps) == caps

\* What an offer and the next filter have in common; a key that one side has alone stays.
Meets(cap) ==
    [k \in DOMAIN cap \union DOMAIN cpDown |->
        IF k \notin DOMAIN cpDown THEN cap[k] ELSE IF k \notin DOMAIN cap THEN cpDown[k]
        ELSE SelectSeq(cap[k], LAMBDA v : Contains(cpDown[k], v))]
Agreements(p) ==
    LET offers == IF IsAudio THEN AudioOffers(p.caps) ELSE VideoOffers(p.caps) IN
    SelectSeq([i \in DOMAIN offers |-> Meets(offers[i])], LAMBDA m : \A k \in DOMAIN m : m[k] # <<>>)

\* FindPlugin: those of the input type that was specified and whose capabilities are shared.
Usable == IF ~Has("input") THEN <<>>
          ELSE SelectSeq(CpPlugins, LAMBDA p : p.input = cpSet.keys.input /\ Agreements(p) # <<>>)

\* CreatePlugin: one that is there is reset and used again, a running one is not.
ResetCapture ==
    IF cpPlug.state # "prepared" THEN cpPlug
    ELSE IF cpPlug.name = "audio" THEN [cpPlug EXCEPT !.state = "initialized", !.params = <<>>, !.size = 0, !.runs = FALSE]
    ELSE [cpPlug EXCEPT !.state = "initialized"]
Recreated(p) == IF p.name = cpPlug.name /\ cpPlug.state # "running" THEN ResetCapture ELSE NewCapture(p.name)

\* A new plug-in is made for the app that was set; its uid and pid are not taken (their type is another).
Initialized(plug) ==
    IF plug.state # "created" THEN plug
    ELSE [plug EXCEPT !.state = "initialized", !.token = IF Has("token") THEN cpSet.keys.token ELSE 0]

\* MergeMetaWithCapability: the preferred format if it is among those agreed on, else the first of each list.
AgreedValue(agreed, k) ==
    IF k = "format" /\ Contains(agreed.format, PreferredFormat) THEN PreferredFormat ELSE Head(agreed[k])

\* The channels are given to the plug-in as they were specified, not as they were agreed on.
Given(agreed, k) == IF k = "channels" THEN (IF Has(k) THEN cpSet.keys.channels ELSE 0) ELSE AgreedValue(agreed, k)

\* A number is looked up in the table and then among what the service supports.
AssignsIfSupported(k, v) == v \in CpKnown[k] /\ Contains(CpSupported[k], v)
SupportsValue(k, v) == k = "bits" \/ AssignsIfSupported(k, v)

\* The keys that are given, one after the other, and how many of them the plug-in takes.
GivenKeys(agreed) == SelectSeq(AudioKeys, LAMBDA k : k \in DOMAIN agreed)
KeysAccepted(agreed) ==
    LET keys == GivenKeys(agreed)
        good == {n \in 0 .. Len(keys) : \A i \in 1 .. n : SupportsValue(keys[i], Given(agreed, keys[i]))}
    IN  CHOOSE n \in good : \A m \in good : m <= n
SetTo(f, S, value(_)) == [k \in DOMAIN f \union S |-> IF k \in S THEN value(k) ELSE f[k]]

\* InitAndConfigWithMeta of the audio filter.
AudioConfigured(plug, agreed) ==
    [plug EXCEPT !.params = SetTo(@, Range(SubSeq(GivenKeys(agreed), 1, KeysAccepted(agreed))), LAMBDA k : Given(agreed, k))]
CalibrationTold(agreed) ==
    LET told == {k \in Range(SubSeq(GivenKeys(agreed), 1, Min({KeysAccepted(agreed) + 1, Len(GivenKeys(agreed))}))) : k # "bits"} IN
    [cpCal EXCEPT !.told = SetTo(@, told, LAMBDA k : AgreedValue(agreed, k))]

\* InitAndConfigPlugin of the video filter: all are given, set or not.
PictureSize == IF Has("size") THEN cpSet.keys.size ELSE 0
CaptureRate == IF Has("capture rate") THEN cpSet.keys["capture rate"] ELSE 0
SurfaceSet == ("size" :> PictureSize) @@ ("pixel" :> cpSet.keys.pixel) @@ ("capture rate" :> CaptureRate)
FileSet(params) ==
    LET kept == IF "capture rate" \in DOMAIN params THEN params["capture rate"] ELSE CpUnit IN
    IF CaptureRate = 0 THEN [SurfaceSet EXCEPT !["capture rate"] = kept] ELSE SurfaceSet
VideoConfigured(plug) ==
    [plug EXCEPT !.params = IF plug.name = "file" THEN FileSet(@) ELSE SurfaceSet]

\* Prepare of each plug-in.
AudioPrepared(plug) == [plug EXCEPT !.state = "prepared", !.size = 1]
FilePrepared(plug) == [plug EXCEPT !.state = "prepared", !.open = TRUE, !.size = plug.params.size]
SurfacePrepared(plug) == [plug EXCEPT !.state = "prepared"]
CapturePrepared(plug) ==
    CASE plug.name = "audio" -> AudioPrepared(plug)
      [] plug.name = "file" -> FilePrepared(plug)
      [] OTHER -> SurfacePrepared(plug)

-----------------------------------------------------------------------------
(* The client.                                                             *)

CpInit ==
    /\ cpSet \in {TakesSettings(s) : s \in CpSettings} /\ cpDown \in CpDowns /\ cpPhase = "new" /\ cpAgreed = <<>>
    /\ cpPlug = NewCapture("none") /\ cpCal = NewCalibration /\ cpTask = "stopped" /\ cpAt = "idle" /\ cpPts = 0
    /\ cpEos = FALSE /\ cpPaused = FALSE /\ cpTimes = NewTimes /\ cpClock = 1
    /\ cpCall = <<>> /\ cpCalls = 0 /\ cpFrames = 0 /\ cpFaults = 0 /\ cpOut = <<>>

CallsWhen(phases) == cpCall = <<>> /\ cpPhase \in phases /\ cpCalls < MaxCpCalls /\ cpCalls' = cpCalls + 1

SetsCapture ==
    /\ CallsWhen({"new"}) /\ \E s \in CpSettings : s.filter = cpSet.filter /\ cpSet' = TakesSettings(s)
    /\ UNCHANGED <<cpDown, cpPhase, cpAgreed, cpPlug, cpCal, cpTask, cpEos, cpPaused, cpTimes, cpCall, cpFaults, cpOut>>
    /\ UNCHANGED cpReaderVars

PreparesCapture ==
    /\ CallsWhen({"new"})
    /\ IF Usable = <<>> THEN UNCHANGED <<cpPhase, cpAgreed, cpPlug, cpCal, cpFaults>>
       ELSE LET p == Head(Usable)
                agreed == Head(Agreements(p))
                ready == Initialized(Recreated(p))
                fit == ~IsAudio \/ KeysAccepted(agreed) = Len(GivenKeys(agreed))
                set == IF IsAudio THEN AudioConfigured(ready, agreed) ELSE VideoConfigured(ready)
            IN  /\ cpAgreed' = agreed /\ cpCal' = IF IsAudio THEN CalibrationTold(agreed) ELSE cpCal
                /\ \/ ~fit /\ cpPlug' = set /\ UNCHANGED <<cpPhase, cpFaults>>
                   \/ fit /\ cpPlug' = CapturePrepared(set) /\ cpPhase' = "prepared" /\ UNCHANGED cpFaults
                   \/ fit /\ cpFaults < MaxCpFaults /\ cpFaults' = cpFaults + 1 /\ cpPlug' = set /\ UNCHANGED cpPhase
    /\ UNCHANGED <<cpSet, cpDown, cpTask, cpEos, cpPaused, cpTimes, cpCall, cpOut>> /\ UNCHANGED cpReaderVars

AudioStart == <<"enable", "plug-in starts", "task starts">>
VideoStart == <<"task starts", "plug-in starts">>
VideoResume == <<"task starts", "plug-in starts">>
AudioResume == <<"refresh", "task starts", "plug-in starts">>
AudioPause == <<"task pauses", "paused at", "plug-in stops">>
VideoPause == <<"task pauses soon">> \o (IF cpPlug.name = "file" THEN <<"file closes">> ELSE <<>>) \o <<"plug-in stops">>
AudioStop == <<"task stops", "calibration resets", "plug-in stops">>
VideoStop == <<"task stops">> \o (IF cpPlug.name = "file" THEN <<"file closes">> ELSE <<>>) \o <<"plug-in stops">>
AudioEnds == <<"send EOS", "eos">>
VideoEnds == VideoStop \o AudioEnds

CallsCapture ==
    /\ \/ CallsWhen({"prepared"}) /\ cpPhase' = "running" /\ cpOut' = <<>>
          /\ cpCall' = IF IsAudio THEN AudioStart ELSE VideoStart
       \/ CallsWhen({"running"}) /\ cpPhase' = "paused" /\ UNCHANGED cpOut
          /\ cpCall' = IF IsAudio THEN AudioPause ELSE VideoPause
       \/ CallsWhen({"paused"}) /\ cpPhase' = "running" /\ UNCHANGED cpOut
          /\ cpCall' = IF IsAudio THEN AudioResume ELSE VideoResume
       \/ CallsWhen({"running", "paused"}) /\ cpPhase' = "ended" /\ UNCHANGED cpOut
          /\ cpCall' = IF IsAudio THEN AudioEnds ELSE VideoEnds
       \/ CallsWhen({"prepared", "running", "paused", "ended"}) /\ cpPhase' = "new" /\ UNCHANGED cpOut
          /\ cpCall' = IF IsAudio THEN AudioStop ELSE VideoStop
    /\ UNCHANGED <<cpPlug, cpCal, cpTask, cpEos, cpPaused, cpTimes, cpFaults>>
    /\ UNCHANGED cpFilterVars /\ UNCHANGED cpReaderVars

\* Start of each plug-in; the audio service may refuse.
SoundStarts == [cpPlug EXCEPT !.state = "running", !.runs = TRUE]
FileStarts ==
    [cpPlug EXCEPT !.state = "running", !.stopped = FALSE,
                   !.lost = IF cpPlug.stopped THEN @ + (cpPlug.cur - cpPlug.stopAt) ELSE @]
SurfaceStarts == [cpPlug EXCEPT !.state = "running", !.stopped = FALSE]   \* no picture moved its clock
PluginStarts == IF IsAudio THEN SoundStarts ELSE IF cpPlug.name = "file" THEN FileStarts ELSE SurfaceStarts

\* Stop of each plug-in: Base lets it through in PREPARED and RUNNING.
SoundStops == [cpPlug EXCEPT !.state = "prepared", !.runs = FALSE]
FileStops ==
    [cpPlug EXCEPT !.state = "prepared", !.stopped = TRUE, !.stopAt = IF cpPlug.stopped THEN @ ELSE cpPlug.cur]
SurfaceStops == [cpPlug EXCEPT !.state = "prepared", !.stopped = TRUE]
PluginStops == IF IsAudio THEN SoundStops ELSE IF cpPlug.name = "file" THEN FileStops ELSE SurfaceStops
FileCloses == [cpPlug EXCEPT !.open = FALSE, !.size = 0]

CalibrationReset == [NewCalibration EXCEPT !.on = FALSE]
Refreshed == IF cpPaused THEN [cpTimes EXCEPT !.refresh = TRUE] ELSE cpTimes

\* The calibration: a buffer gets the length its samples have, and the time at which the last one ended
\* unless its own is within CpSlack of that.
CorrectDuration ==
    IF ~{"rate", "channels", "format"} \subseteq DOMAIN cpCal.told THEN 0
    ELSE IF \A k \in DOMAIN cpCal.told : cpCal.told[k] = cpPlug.params[k] THEN CpUnit ELSE 2 * CpUnit
\* A mutant: a time that is not before the last one is believed.
CorrectPtsBelieves(pts) == IF cpCal.first \/ pts >= cpCal.last THEN pts ELSE cpCal.last + cpCal.length

CorrectPts(pts) ==
    LET predicted == cpCal.last + cpCal.length IN
    IF cpCal.first \/ cpCal.last <= 0 THEN pts
    ELSE IF pts > 0 /\ pts > predicted - CpSlack /\ pts < predicted + CpSlack THEN pts ELSE predicted
CorrectBuffer(pts) ==
    IF ~IsAudio \/ ~cpCal.on THEN /\ cpOut' = Append(cpOut, pts) /\ UNCHANGED cpCal
    ELSE /\ cpOut' = Append(cpOut, CorrectPts(pts))
         /\ cpCal' = [cpCal EXCEPT !.first = FALSE, !.last = CorrectPts(pts), !.length = CorrectDuration]

CaptureStep(s) ==
    \/ s = "enable" /\ cpEos' = FALSE /\ cpCal' = [cpCal EXCEPT !.on = TRUE]
       /\ UNCHANGED <<cpPlug, cpTask, cpPaused, cpTimes, cpOut>>
    \/ s = "plug-in starts" /\ cpPlug' = PluginStarts /\ UNCHANGED <<cpCal, cpTask, cpEos, cpPaused, cpTimes, cpOut>>
    \/ s = "task starts" /\ cpTask' = "running" /\ UNCHANGED <<cpPlug, cpCal, cpEos, cpPaused, cpTimes, cpOut>>
    \/ s \in {"task pauses", "task stops"} /\ cpAt = "idle" /\ cpTask' = (IF s = "task stops" THEN "stopped" ELSE "paused")
       /\ cpPaused' = (s = "task pauses") /\ UNCHANGED <<cpPlug, cpCal, cpEos, cpTimes, cpOut>>
    \/ s = "task pauses soon" /\ cpTask' = "paused" /\ UNCHANGED <<cpPlug, cpCal, cpEos, cpPaused, cpTimes, cpOut>>
    \/ s = "paused at" /\ cpTimes' = [cpTimes EXCEPT !.paused = cpTimes.latest]
       /\ UNCHANGED <<cpPlug, cpCal, cpTask, cpEos, cpPaused, cpOut>>
    \/ s = "refresh" /\ cpTimes' = Refreshed /\ cpPaused' = FALSE /\ UNCHANGED <<cpPlug, cpCal, cpTask, cpEos, cpOut>>
    \/ s = "calibration resets" /\ cpCal' = CalibrationReset /\ cpTimes' = NewTimes
       /\ UNCHANGED <<cpPlug, cpTask, cpEos, cpPaused, cpOut>>
    \/ s = "file closes" /\ cpPlug' = FileCloses /\ UNCHANGED <<cpCal, cpTask, cpEos, cpPaused, cpTimes, cpOut>>
    \/ s = "plug-in stops" /\ cpPlug' = PluginStops /\ UNCHANGED <<cpCal, cpTask, cpEos, cpPaused, cpTimes, cpOut>>
    \/ s = "send EOS" /\ cpOut' = (IF cpEos THEN cpOut ELSE Append(cpOut, EosTime))
       /\ UNCHANGED <<cpPlug, cpCal, cpTask, cpEos, cpPaused, cpTimes>>
    \/ s = "eos" /\ cpEos' = TRUE /\ UNCHANGED <<cpPlug, cpCal, cpTask, cpPaused, cpTimes, cpOut>>

StepsCapture ==
    /\ cpCall # <<>> /\ cpCall' = Tail(cpCall) /\ CaptureStep(Head(cpCall))
    /\ UNCHANGED <<cpPhase, cpCalls, cpFaults>> /\ UNCHANGED cpFilterVars /\ UNCHANGED cpReaderVars

\* The audio service does not start: the Task is not started either.
StartFails ==
    /\ IsAudio /\ cpCall # <<>> /\ Head(cpCall) = "plug-in starts" /\ cpFaults < MaxCpFaults
    /\ cpFaults' = cpFaults + 1 /\ cpCall' = <<>>
    /\ UNCHANGED <<cpPhase, cpPlug, cpCal, cpTask, cpEos, cpPaused, cpTimes, cpCalls, cpOut>>
    /\ UNCHANGED cpFilterVars /\ UNCHANGED cpReaderVars

-----------------------------------------------------------------------------
(* The reader and those who feed the plug-ins.                             *)

cpClientVars == <<cpPhase, cpTask, cpPaused, cpCall, cpCalls>>

\* ReadLoop until GetSize: without a size there is nothing to read.
ReadsSize ==
    /\ cpAt = "idle" /\ cpTask = "running" /\ ~cpEos /\ cpPlug.size > 0 /\ cpAt' = "reading"
    /\ UNCHANGED <<cpPlug, cpCal, cpEos, cpTimes, cpPts, cpFrames, cpClock, cpFaults, cpOut>>
    /\ UNCHANGED cpFilterVars /\ UNCHANGED cpClientVars

\* The time of a buffer without what the pauses took; only the first buffer after a resume adds to that.
PausedTime(pts) ==
    LET more == IF cpTimes.paused # NoTime /\ pts > cpTimes.paused THEN pts - cpTimes.paused ELSE 0 IN
    [cpTimes EXCEPT !.latest = pts, !.refresh = FALSE, !.total = IF cpTimes.refresh THEN @ + more ELSE @]

\* Read of the audio plug-in; the time is that of the service.
AudioTimes == {cpClock + late : late \in 0 .. CpJitter}
ReadsSound ==
    /\ cpAt = "reading" /\ IsAudio
    /\ \/ /\ ~cpPlug.runs /\ cpAt' = "idle" /\ UNCHANGED <<cpTimes, cpPts, cpClock, cpFrames, cpFaults>>
       \/ /\ cpPlug.runs /\ cpFrames < MaxCpFrames /\ cpFrames' = cpFrames + 1 /\ cpAt' = "sending"
          /\ \E pts \in AudioTimes : cpTimes' = PausedTime(pts) /\ cpPts' = pts - cpTimes'.total
          /\ cpClock' = cpClock + CpUnit /\ UNCHANGED cpFaults
       \/ /\ cpPlug.runs /\ cpFaults < MaxCpFaults /\ cpFaults' = cpFaults + 1 /\ cpAt' = "ending"
          /\ UNCHANGED <<cpTimes, cpPts, cpClock, cpFrames>>
    /\ UNCHANGED <<cpPlug, cpCal, cpEos, cpOut>> /\ UNCHANGED cpFilterVars /\ UNCHANGED cpClientVars

\* A Read that failed: the reader sends EOS itself.
EndsByItself ==
    /\ cpAt = "ending" /\ cpAt' = "idle" /\ cpEos' = TRUE /\ cpOut' = IF cpEos THEN cpOut ELSE Append(cpOut, EosTime)
    /\ UNCHANGED <<cpPlug, cpCal, cpTimes, cpPts, cpFrames, cpClock, cpFaults>>
    /\ UNCHANGED cpFilterVars /\ UNCHANGED cpClientVars

\* Read of the file; a file that Stop has closed meanwhile is undefined behaviour.
PictureRate == IF "capture rate" \in DOMAIN cpPlug.params THEN cpPlug.params["capture rate"] ELSE CpUnit
PictureRead == [cpPlug EXCEPT !.first = FALSE, !.count = 0, !.cur = IF cpPlug.first THEN @ ELSE @ + PictureRate]
ReadsPicture ==
    /\ cpAt = "reading" /\ ~IsAudio
    /\ \/ /\ cpPlug.stopped \/ cpFrames >= CpFileFrames
          /\ cpAt' = "idle" /\ UNCHANGED <<cpPlug, cpPts, cpFrames>>
       \/ /\ ~cpPlug.stopped /\ ~cpPlug.open /\ cpAt' \in {"idle", "crashed"} /\ UNCHANGED <<cpPlug, cpPts, cpFrames>>
       \/ /\ ~cpPlug.stopped /\ cpPlug.open /\ cpFrames < CpFileFrames /\ cpFrames' = cpFrames + 1
          /\ cpPlug' = PictureRead /\ cpPts' = PictureRead.cur - cpPlug.lost /\ cpAt' = "sending"
    /\ UNCHANGED <<cpCal, cpEos, cpTimes, cpClock, cpFaults, cpOut>> /\ UNCHANGED cpFilterVars /\ UNCHANGED cpClientVars

\* SendBuffer: nothing is sent after EOS was.
SendsBuffer ==
    /\ cpAt = "sending" /\ cpAt' = "idle"
    /\ IF cpEos THEN UNCHANGED <<cpCal, cpOut>> ELSE CorrectBuffer(cpPts)
    /\ UNCHANGED <<cpPlug, cpEos, cpTimes, cpPts, cpFrames, cpClock, cpFaults>>
    /\ UNCHANGED cpFilterVars /\ UNCHANGED cpClientVars

\* The audio service loses a buffer, or its clock runs on while nothing is read.
ClockRuns ==
    /\ IsAudio /\ cpPhase \in {"running", "paused"} /\ cpFrames < MaxCpFrames /\ cpFrames' = cpFrames + 1
    /\ cpClock' = cpClock + CpUnit
    /\ UNCHANGED <<cpPlug, cpCal, cpAt, cpEos, cpTimes, cpPts, cpFaults, cpOut>>
    /\ UNCHANGED cpFilterVars /\ UNCHANGED cpClientVars

\* OnBufferAvailable: a picture comes through the Surface, whose queue has an end.
PictureArrives ==
    /\ cpPlug.name = "surface" /\ cpPlug.state \in {"prepared", "running"} /\ cpPlug.count < CpSurfaceQueue
    /\ cpPlug' = [cpPlug EXCEPT !.count = @ + 1]
    /\ UNCHANGED <<cpCal, cpEos, cpTimes, cpFaults, cpOut>>
    /\ UNCHANGED cpFilterVars /\ UNCHANGED cpClientVars /\ UNCHANGED cpReaderVars

CpNext ==
    \/ SetsCapture \/ PreparesCapture \/ CallsCapture \/ StepsCapture \/ StartFails
    \/ ReadsSize \/ ReadsSound \/ EndsByItself \/ ReadsPicture \/ SendsBuffer \/ ClockRuns \/ PictureArrives

CpSpec == CpInit /\ [][CpNext]_cpVars

-----------------------------------------------------------------------------
\* What is recorded runs on: from buffer to buffer the time moves by the length of one, and by no
\* more than the threshold, whatever pauses, lost buffers and a clock that is late; and what the plug-in
\* captures and the calibration counts with is what was agreed on with the next filter.
CapturesRunOn ==
    /\ \A i \in 1 .. Len(cpOut) - 1 :
           LET moved == cpOut[i + 1] - cpOut[i] IN
           (EosTime \notin {cpOut[i], cpOut[i + 1]}) =>
               (moved > 0 /\ moved > CpUnit - CpSlack /\ moved < CpUnit + CpSlack)
    /\ (IsAudio /\ cpPhase \in {"prepared", "running", "paused", "ended"}) =>
           \A k \in Range(GivenKeys(cpAgreed)) :
               /\ Contains(cpAgreed[k], cpPlug.params[k])
               /\ k \in DOMAIN cpCal.told => cpCal.told[k] = cpPlug.params[k]

\* Broken (no run): nothing is pushed after EOS (SendEos sets eos_ when it has let the lock go).
NothingAfterEos == \A i \in 1 .. Len(cpOut) - 1 : cpOut[i] # EosTime

\* Broken (no run): a file is not closed under its reader (VideoFileCapturePlugin::Stop).
FileStaysOpen == cpAt # "crashed"

\* Broken (no run): a Surface that brings pictures is read (VideoCapturePlugin::GetSize knows the size of
\* the last picture read only, and Read is called when GetSize knows one).
SurfaceIsRead == cpPlug.name = "surface" => cpPlug.count < CpSurfaceQueue

\* Broken (no run): a file goes on after a pause (its Stop closes it).
FileGoesOn == (cpPlug.name = "file" /\ cpPhase = "running" /\ cpCall = <<>> /\ PictureSize > 0) => cpPlug.open
=============================================================================
