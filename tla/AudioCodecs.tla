---------------------------- MODULE AudioCodecs ----------------------------
(***************************************************************************)
(* The audio codecs that work on the thread that pushes: AudioEncoderFilter*)
(* with the ffmpeg encoder plug-in, which cuts captured sound into frames  *)
(* of one size through a RingBuffer, and AudioDecoderFilter in SyncMode    *)
(* with the ffmpeg, lite AAC or minimp3 decoder plug-in.                   *)
(*                                                                         *)
(* The pusher gives the filter sound (samples to an encoder, frames to a   *)
(* decoder), numbered in the order of the medium, and then EOS.  Each call *)
(* hands the plug-in its input, takes output until there is none, and tries*)
(* three times while the plug-in is busy.  Another thread opens, starts,   *)
(* flushes and stops the codec; its calls are the steps of the code, so    *)
(* they fall between those of the pusher.                                  *)
(*                                                                         *)
(* libavcodec is external: a context that keeps AcDelay frames to itself,  *)
(* refuses input while it has output, and is over after EOS.               *)
(***************************************************************************)
EXTENDS Integers, Sequences, SequencesExt, FiniteSetsExt

CONSTANTS AcKinds,      \* the codecs: a subset of {"encoder", "ffmpeg", "aac", "mp3"}
          AcFrame,      \* samples in a frame of the encoder (frameSize_)
          AcPushes,     \* how many samples one captured buffer may hold
          AcLength,     \* samples or frames of a stream
          AcRingFrames, \* frames the ring of the encoder holds (ten in the code)
          AcDelay,      \* frames a libavcodec context keeps to itself
          AcLong,       \* numbers of the frames longer than the codec says
          MaxAcCalls,   \* bound on the calls of the other thread
          MaxAcFaults   \* bound on the frames and openings that libavcodec refuses

ASSUME AcAssumption ==
    /\ AcKinds \subseteq {"encoder", "ffmpeg", "aac", "mp3"}
    /\ {AcFrame, AcLength, AcRingFrames} \subseteq Nat \ {0} /\ AcPushes \subseteq Nat \ {0}
    /\ {AcDelay, MaxAcCalls, MaxAcFaults} \subseteq Nat /\ AcLong \subseteq Nat

VARIABLES
    acKind, acState, acFlushing,   \* the codec, state_ and isFlushing_ of its filter
    acPlugin,     \* "none" before it is created, else what Prepare and Start made of it
    acParams,     \* what SetParameter and Init left in audioParameter_
    acSamples,    \* minimp3: samplesPerFrame_
    acRoom,       \* samples per frame that an output buffer has room for
    acContext,    \* frames in the libavcodec context
    acDraining,   \* EOS went into the context
    acInput,      \* aac, mp3: inBuffer_
    acOutput,     \* outBuffer_: the frame it holds, NoBuffer when reset
    acRing, acRingOn,              \* rb_ and its isActive_
    acNext, acFirst,               \* the next number of the medium and the first since the last seek
    acEos, acEosCut,               \* the push in hand is EOS; isRbDrained
    acAt, acBuffer, acStatus, acRetry,   \* the pusher in its call
    acCall, acCalls,               \* steps left of the other thread's call, calls made
    acOut, acClean, acFaults       \* what came out, whether nothing disturbed it, faults

codecsVars == <<acKind, acState, acFlushing, acPlugin, acParams, acSamples, acRoom, acContext,
                acDraining, acInput, acOutput, acRing, acRingOn, acNext, acFirst, acEos, acEosCut,
                acAt, acBuffer, acStatus, acRetry, acCall, acCalls, acOut, acClean, acFaults>>
acPluginVars == <<acPlugin, acParams, acSamples, acRoom>>
acIoVars == <<acContext, acDraining, acInput, acOutput>>
acRingVars == <<acRing, acRingOn, acEos, acEosCut, acNext, acFirst>>
acPushVars == <<acAt, acBuffer, acStatus, acRetry>>
acCallVars == <<acCall, acCalls, acState, acFlushing>>

NoBuffer == <<>>          \* no buffer
EosBuffer == <<0>>    \* an empty buffer with BUFFER_FLAG_EOS
Native == 1           \* the samples of a frame as the plug-in's Init says
Most == 2             \* MAX_SAMPLE_PER_FRAME
AcLast == acFirst + AcLength - 1
AcBufferSet == Seq(Nat)

AcTypeOK ==
    /\ acKind \in AcKinds /\ acState \in {"initialized", "ready", "running"} /\ acFlushing \in BOOLEAN
    /\ acPlugin \in {"none", "initialized", "started"} /\ acSamples \in {0, Native, Most} /\ acRoom \in {0, Native, Most}
    /\ DOMAIN acParams \subseteq {"count", "samples"} /\ acContext \in Seq(AcBufferSet) /\ acDraining \in BOOLEAN
    /\ {acInput, acOutput, acBuffer, acRing} \subseteq AcBufferSet /\ {acRingOn, acEos, acEosCut, acClean} \subseteq BOOLEAN
    /\ acAt \in {"idle", "write", "cut", "read", "handle", "drain", "give", "judge", "crashed"}
    /\ acNext \in acFirst .. AcLast + 2 /\ acRetry \in 0 .. 3 /\ acCalls \in 0 .. MaxAcCalls /\ acFaults \in 0 .. MaxAcFaults

-----------------------------------------------------------------------------
(* Opening: UpdateAndInitPluginByInfo, UpdateParams, ConfigPluginWithMeta,
   CreateOutBufferPool, Prepare and Start.                                  *)

\* Init says how many buffers it wants and how long a frame is; the lite AAC decoder
\* says only the former, the encoder answers both itself and keeps neither.
InitParams ==
    CASE acKind = "encoder" -> <<>>
      [] acKind = "aac" -> [count |-> Native]
      [] OTHER -> [count |-> Native, samples |-> Native]

\* SetParameter inserts: what is there already stays.
SetParameter(params, tag, value) ==
    [t \in DOMAIN params \union {tag} |-> IF t \in DOMAIN params THEN params[t] ELSE value]

\* A plug-in that was created before is reset: its parameters are gone, those of Init too.
ParamsBefore == IF acPlugin # "none" THEN <<>> ELSE InitParams

SamplesAsked(params) == IF "samples" \in DOMAIN params THEN params["samples"] ELSE Most
ConfiguredParams == SetParameter(ParamsBefore, "samples", SamplesAsked(ParamsBefore))

\* CalculateBufferSize: the room of an output buffer; an encoder's is that of a frame.
EncoderRoom == Native
DecoderRoom == SamplesAsked(ParamsBefore)

\* Prepare: minimp3 takes only the lengths that an MP3 frame may have.
Mp3Prepare == acKind # "mp3" \/ acSamples' = Native

\* Prepare and Start of the ffmpeg plug-ins: a new context, which libavcodec may refuse to open.
NewContext == acContext' = <<>> /\ acDraining' = FALSE
StartsContext(opens) ==
    /\ ~opens => acKind \in {"encoder", "ffmpeg"} /\ acFaults < MaxAcFaults
    /\ acFaults' = IF opens THEN acFaults ELSE acFaults + 1

NewRing == acRing' = <<>> /\ acRingOn' = TRUE /\ acEos' = FALSE /\ acEosCut' = FALSE

OpensCodec ==
    /\ acState = "initialized" /\ acCall = <<>> /\ acCalls < MaxAcCalls /\ acAt = "idle"
    /\ acCalls' = acCalls + 1 /\ acParams' = ConfiguredParams
    /\ acRoom' = IF acKind = "encoder" THEN EncoderRoom ELSE DecoderRoom
    /\ acSamples' = IF acKind = "mp3" THEN acParams'["samples"] ELSE acSamples
    /\ acOutput' = NoBuffer /\ NewContext /\ NewRing
    /\ \E opens \in BOOLEAN :
         /\ StartsContext(opens)
         /\ acPlugin' = IF opens /\ Mp3Prepare THEN "started" ELSE "initialized"
    /\ acState' = IF acPlugin' = "started" THEN "ready" ELSE acState
    /\ acFirst' = acNext /\ acOut' = <<>> /\ acClean' = TRUE
    /\ UNCHANGED <<acKind, acFlushing, acNext, acCall, acInput>> /\ UNCHANGED acPushVars

StartsCodec ==
    /\ acState = "ready" /\ acCall = <<>> /\ acState' = "running"
    /\ acRingOn' = TRUE
    /\ UNCHANGED <<acKind, acFlushing, acRing, acEos, acEosCut, acNext, acFirst, acCall, acCalls, acOut, acClean, acFaults>>
    /\ UNCHANGED acPluginVars /\ UNCHANGED acIoVars /\ UNCHANGED acPushVars

-----------------------------------------------------------------------------
(* The plug-ins' QueueInputBuffer and QueueOutputBuffer.                    *)

UsesContext == acKind \in {"encoder", "ffmpeg"}
ContextHasOutput == Len(acContext) > IF acDraining THEN 0 ELSE AcDelay

\* avcodec_send_frame, avcodec_send_packet.
ContextTakes == IF acDraining THEN "eos" ELSE IF ContextHasOutput THEN "again" ELSE "ok"

\* SendBufferLocked of the encoder wants a frame to be whole before it fills the cached
\* frame and converts its samples.
FrameIsTaken(buffer) == IF buffer = EosBuffer \/ Len(buffer) = AcFrame THEN ContextTakes ELSE "not enough"

\* Lite AAC takes nothing while it has input; minimp3 overwrites what it has.
AacTakes == IF acInput # NoBuffer THEN "timed out" ELSE "ok"
Mp3Takes == "ok"

QueueInputStatus(buffer) ==
    IF acKind = "aac" THEN AacTakes ELSE IF acKind = "mp3" THEN Mp3Takes
    ELSE IF acPlugin # "started" THEN "wrong state"
    ELSE IF acKind = "encoder" THEN FrameIsTaken(buffer) ELSE ContextTakes

Handles ==
    /\ acAt = "handle" /\ acAt' = "drain"
    /\ \E damaged \in {FALSE} \union {UsesContext /\ acBuffer # EosBuffer /\ acFaults < MaxAcFaults} :
         LET status == QueueInputStatus(acBuffer) IN
         /\ damaged => status = "ok"
         /\ acStatus' = IF damaged THEN "unknown" ELSE status
         /\ acFaults' = IF damaged THEN acFaults + 1 ELSE acFaults
         /\ acClean' = (acClean /\ ~damaged)
         /\ acContext' = IF UsesContext /\ acStatus' = "ok" /\ acBuffer # EosBuffer THEN Append(acContext, acBuffer) ELSE acContext
         /\ acDraining' = (acDraining \/ (UsesContext /\ acStatus' = "ok" /\ acBuffer = EosBuffer))
         /\ acInput' = IF ~UsesContext /\ acStatus' = "ok" THEN acBuffer ELSE acInput
    /\ UNCHANGED <<acKind, acBuffer, acRetry, acOutput, acOut>>
    /\ UNCHANGED acPluginVars /\ UNCHANGED acRingVars /\ UNCHANGED acCallVars

\* A frame that the output buffer has no room for is refused, and gone from the codec.
FitsOutput(buffer) ==
    acKind \in {"encoder", "mp3"} \/ ~(\E i \in DOMAIN buffer : buffer[i] \in AcLong) \/ acRoom = Most

\* avcodec_receive_packet, avcodec_receive_frame: the decoder is made ready again when it is over.
ReceivesFromContext ==
    IF acPlugin # "started" THEN UNCHANGED acIoVars
    ELSE IF ContextHasOutput
    THEN /\ acContext' = Tail(acContext) /\ UNCHANGED <<acDraining, acInput>>
         /\ acOutput' = IF FitsOutput(Head(acContext)) THEN Head(acContext) ELSE NoBuffer
    ELSE IF acDraining
    THEN /\ acOutput' = EosBuffer /\ acDraining' = (acKind = "encoder") /\ UNCHANGED <<acContext, acInput>>
    ELSE UNCHANGED acIoVars

\* A closed AAC decoder decodes nothing; minimp3 wants room for the samples it was told of.
AacDecodes(frame) == acPlugin = "started" /\ FitsOutput(frame)
Mp3Decodes == acSamples <= acRoom
AacOutput == IF acInput = EosBuffer \/ AacDecodes(acInput) THEN acInput ELSE NoBuffer
Mp3Output == IF acInput = EosBuffer \/ Mp3Decodes THEN acInput ELSE NoBuffer

\* A faulty drain, which leaves the input where it was.
ReceivesAndKeeps ==
    /\ acOutput' = IF acKind = "aac" THEN AacOutput ELSE Mp3Output
    /\ UNCHANGED <<acInput, acContext, acDraining>>

\* SendOutputBuffer of both: the input is given up whatever came of it.
ReceivesFromInput ==
    /\ acOutput' = IF acKind = "aac" THEN AacOutput ELSE Mp3Output
    /\ acInput' = NoBuffer /\ UNCHANGED <<acContext, acDraining>>

\* FinishFrame: the pool grows rather than being empty, so there is always a buffer to fill.
DrainsCodec ==
    /\ acAt = "drain"
    /\ IF UsesContext THEN ReceivesFromContext ELSE ReceivesFromInput
    /\ acAt' = IF acOutput' = NoBuffer THEN "judge" ELSE "give"
    /\ UNCHANGED <<acKind, acBuffer, acStatus, acRetry, acOut, acFaults, acClean>>
    /\ UNCHANGED acPluginVars /\ UNCHANGED acRingVars /\ UNCHANGED acCallVars

\* OnOutputBufferDone pushes the buffer downstream, or does nothing without one.
DeliversDownstream(buffer) == acOut' = acOut \o buffer

\* SendOutputBuffer reads outBuffer_ again: a Stop may have reset it, and the encoder
\* follows it all the same.  After EOS the plug-in is not asked for more.
GivesOutput ==
    /\ acAt = "give" /\ acOutput' = NoBuffer
    /\ DeliversDownstream(acOutput)
    /\ acAt' = IF acOutput = EosBuffer THEN "judge"
               ELSE IF acOutput # NoBuffer \/ acKind = "aac" THEN "drain"
               ELSE IF acKind = "encoder" THEN "crashed" ELSE "judge"
    /\ UNCHANGED <<acKind, acBuffer, acStatus, acRetry, acContext, acDraining, acInput, acFaults, acClean>>
    /\ UNCHANGED acPluginVars /\ UNCHANGED acRingVars /\ UNCHANGED acCallVars

\* PushData tries a busy plug-in three times and then drops the frame.
MaxRetryTimes == 3
TriesAgain == acRetry + 1 < MaxRetryTimes /\ acStatus \in {"timed out", "again"}
Judges ==
    /\ acAt = "judge"
    /\ acAt' = IF TriesAgain THEN "handle" ELSE IF acKind = "encoder" THEN "cut" ELSE "idle"
    /\ acRetry' = IF TriesAgain THEN acRetry + 1 ELSE 0
    /\ acBuffer' = IF TriesAgain THEN acBuffer ELSE NoBuffer
    /\ UNCHANGED <<acKind, acStatus, acOut, acFaults, acClean>>
    /\ UNCHANGED acPluginVars /\ UNCHANGED acIoVars /\ UNCHANGED acRingVars /\ UNCHANGED acCallVars

-----------------------------------------------------------------------------
(* The pusher.                                                              *)

Pushable == acState \in {"ready", "running"}
PushesEos == acNext = AcLast + 1

\* A decoder's push: dropped while the filter is flushing.
PushesFrame ==
    /\ acKind # "encoder" /\ acAt = "idle" /\ Pushable /\ acNext <= AcLast + 1
    /\ acNext' = acNext + 1 /\ acEos' = PushesEos
    /\ IF acFlushing THEN UNCHANGED <<acAt, acBuffer>> /\ acClean' = FALSE
       ELSE /\ acAt' = "handle" /\ acBuffer' = (IF PushesEos THEN EosBuffer ELSE <<acNext>>) /\ acClean' = acClean
    /\ UNCHANGED <<acKind, acStatus, acRetry, acRing, acRingOn, acEosCut, acFirst, acOut, acFaults>>
    /\ UNCHANGED acPluginVars /\ UNCHANGED acIoVars /\ UNCHANGED acCallVars

\* An encoder's push: the sound of a captured buffer goes into the ring, which waits for
\* room unless it is inactive; EOS comes in a buffer of its own.
PushesSound ==
    /\ acKind = "encoder" /\ acAt = "idle" /\ Pushable /\ acNext <= AcLast + 1
    /\ \E n \in AcPushes :
         /\ acBuffer' = IF PushesEos THEN NoBuffer ELSE [i \in 1 .. Min({n, AcLast + 1 - acNext}) |-> acNext + i - 1]
         /\ acNext' = acNext + Max({1, Len(acBuffer')})
    /\ acEos' = PushesEos /\ acEosCut' = FALSE /\ acAt' = "write"
    /\ UNCHANGED <<acKind, acStatus, acRetry, acRing, acRingOn, acFirst, acOut, acFaults, acClean>>
    /\ UNCHANGED acPluginVars /\ UNCHANGED acIoVars /\ UNCHANGED acCallVars

WritesRing ==
    /\ acAt = "write" /\ acAt' = "cut"
    /\ acRingOn => Len(acRing) + Len(acBuffer) <= AcRingFrames * AcFrame
    /\ acRing' = IF acRingOn THEN acRing \o acBuffer ELSE acRing
    /\ acClean' = (acClean /\ acRingOn)
    /\ acBuffer' = NoBuffer
    /\ UNCHANGED <<acKind, acStatus, acRetry, acRingOn, acEos, acEosCut, acNext, acFirst, acOut, acFaults>>
    /\ UNCHANGED acPluginVars /\ UNCHANGED acIoVars /\ UNCHANGED acCallVars

\* While the ring has a frame, and at EOS until it is empty: the size is asked first ...
CutAllThereIs(available) == available
CutSize(available) == Min({available, AcFrame})
CutsOn(available) == available >= AcFrame \/ (acEos /\ ~acEosCut)
CutsFrame ==
    /\ acAt = "cut"
    /\ LET size == CutSize(Len(acRing)) IN
       IF ~CutsOn(Len(acRing)) THEN acAt' = "idle" /\ UNCHANGED <<acEosCut, acBuffer>>
       ELSE IF size > 0 THEN acAt' = "read" /\ acBuffer' = SubSeq(acRing, 1, size) /\ UNCHANGED acEosCut
       ELSE acAt' = "handle" /\ acBuffer' = EosBuffer /\ acEosCut' = TRUE
    /\ UNCHANGED <<acKind, acStatus, acRetry, acRing, acRingOn, acEos, acNext, acFirst, acOut, acFaults, acClean>>
    /\ UNCHANGED acPluginVars /\ UNCHANGED acIoVars /\ UNCHANGED acCallVars

\* ... then the frame is read: nothing is there when a Stop came between.
ReadsRing ==
    /\ acAt = "read"
    /\ IF acRingOn THEN acAt' = "handle" /\ acRing' = SubSeq(acRing, Len(acBuffer) + 1, Len(acRing)) /\ UNCHANGED acBuffer
       ELSE acAt' = "idle" /\ acBuffer' = NoBuffer /\ UNCHANGED acRing
    /\ UNCHANGED <<acKind, acStatus, acRetry, acRingOn, acEos, acEosCut, acNext, acFirst, acOut, acFaults, acClean>>
    /\ UNCHANGED acPluginVars /\ UNCHANGED acIoVars /\ UNCHANGED acCallVars

-----------------------------------------------------------------------------
(* The other thread: a flush of the pipeline and a stop.                    *)

FlushCodecSteps == <<"flushing", "flush", "join", "unflush">>
StopCodecSteps == <<"flush", "stop", "ring", "settle", "join">>

CallsCodec ==
    /\ acCall = <<>> /\ Pushable /\ acCalls < MaxAcCalls /\ acCalls' = acCalls + 1
    /\ acCall' \in {StopCodecSteps} \union (IF acKind = "encoder" THEN {} ELSE {FlushCodecSteps})
    /\ acClean' = FALSE
    /\ UNCHANGED <<acKind, acState, acFlushing, acOut, acFaults>>
    /\ UNCHANGED acPluginVars /\ UNCHANGED acIoVars /\ UNCHANGED acRingVars /\ UNCHANGED acPushVars

\* Flush empties a libavcodec context; of the other plug-ins lite AAC resets outBuffer_.
FlushPlugin ==
    /\ NewContext
    /\ acOutput' = IF acKind = "aac" THEN NoBuffer ELSE acOutput
    /\ UNCHANGED <<acInput, acPlugin, acState, acFlushing, acRing, acRingOn, acNext, acFirst, acOut, acClean>>

\* Stop closes the context and resets outBuffer_; minimp3's does nothing.
StopCodec ==
    /\ acPlugin' = IF acKind = "mp3" THEN acPlugin ELSE "initialized"
    /\ NewContext
    /\ acOutput' = IF acKind = "mp3" THEN acOutput ELSE NoBuffer
    /\ UNCHANGED <<acInput, acState, acFlushing, acRing, acRingOn, acNext, acFirst, acOut, acClean>>

CodecStep(step) ==
    CASE step = "flush" -> FlushPlugin
      [] step = "stop" -> StopCodec
      [] step = "ring" -> /\ acRing' = <<>> /\ acRingOn' = FALSE
                          /\ UNCHANGED <<acPlugin, acContext, acDraining, acInput, acOutput, acState, acFlushing, acNext, acFirst, acOut, acClean>>
      [] step = "join" -> /\ acAt \in {"idle", "crashed"}
                          /\ UNCHANGED <<acPlugin, acContext, acDraining, acInput, acOutput, acState, acFlushing, acRing, acRingOn, acNext, acFirst, acOut, acClean>>
      [] step = "unflush" -> /\ acFlushing' = FALSE /\ acFirst' = acNext /\ acOut' = <<>> /\ acClean' = (acContext = <<>> /\ ~acDraining)
                             /\ UNCHANGED <<acPlugin, acContext, acDraining, acInput, acOutput, acState, acRing, acRingOn, acNext>>
      [] OTHER -> /\ acFlushing' = (acFlushing \/ step = "flushing")
                  /\ acState' = IF step = "settle" THEN "initialized" ELSE acState
                  /\ UNCHANGED <<acPlugin, acContext, acDraining, acInput, acOutput, acRing, acRingOn, acNext, acFirst, acOut, acClean>>

StepsCodec ==
    /\ acCall # <<>> /\ acCall' = Tail(acCall) /\ CodecStep(Head(acCall))
    /\ UNCHANGED <<acKind, acParams, acSamples, acRoom, acEos, acEosCut, acCalls, acFaults>> /\ UNCHANGED acPushVars

AcInit ==
    /\ acKind \in AcKinds /\ acState = "initialized" /\ acFlushing = FALSE
    /\ acPlugin = "none" /\ acParams = <<>> /\ acSamples = 0 /\ acRoom = 0
    /\ acContext = <<>> /\ acDraining = FALSE /\ acInput = NoBuffer /\ acOutput = NoBuffer
    /\ acRing = <<>> /\ acRingOn = TRUE /\ acEos = FALSE /\ acEosCut = FALSE /\ acNext = 1 /\ acFirst = 1
    /\ acAt = "idle" /\ acBuffer = NoBuffer /\ acStatus = "ok" /\ acRetry = 0
    /\ acCall = <<>> /\ acCalls = 0 /\ acOut = <<>> /\ acClean = TRUE /\ acFaults = 0

AcNext ==
    \/ OpensCodec \/ StartsCodec \/ PushesFrame \/ PushesSound \/ WritesRing \/ CutsFrame \/ ReadsRing
    \/ Handles \/ DrainsCodec \/ GivesOutput \/ Judges \/ CallsCodec \/ StepsCodec

AcSpec == AcInit /\ [][AcNext]_codecsVars

-----------------------------------------------------------------------------

\* What the codec is to make of the stream: an encoder all whole frames, a decoder every
\* frame that its buffers have room for, and EOS after them.
FramesOf == (AcLength \div AcFrame) * AcFrame
Expected ==
    (IF acKind = "encoder" THEN [i \in 1 .. FramesOf |-> acFirst + i - 1]
     ELSE SelectSeq([i \in 1 .. AcLength |-> acFirst + i - 1], LAMBDA n : FitsOutput(<<n>>))) \o EosBuffer

\* Sound comes out of the codec in the order of the medium and not twice, however often
\* the plug-in is tried, flushed and stopped; and when the pusher has returned from EOS
\* and nobody disturbed it, all of it is out and EOS is last (PushData of the filters).
AudioComesCoded ==
    LET sound == SelectSeq(acOut, LAMBDA n : n > 0) IN
    /\ \A i \in 2 .. Len(sound) : sound[i - 1] < sound[i]
    /\ acAt = "idle" /\ acClean /\ acEos /\ acNext = AcLast + 2 => acOut = Expected

\* A codec that was stopped and is opened again for the next medium is ready, if libavcodec
\* opens it (Minimp3DecoderPlugin::Reset and Prepare).
ReopenedIsReady == acCalls > 0 /\ acFaults = 0 /\ acPlugin = "initialized" => acCall # <<>> \/ ~acClean

\* What comes out after a seek is of the place sought (SyncMode::PushData against FlushStart).
NothingOld == \A i \in DOMAIN acOut : acOut[i] = 0 \/ acOut[i] >= acFirst

\* All captured samples are encoded, the last ones too (AudioFfmpegEncoderPlugin::SendBufferLocked).
TailIsEncoded ==
    acKind = "encoder" /\ acAt = "idle" /\ acClean /\ acEos /\ acNext = AcLast + 2 => Len(acOut) = AcLength + 1

\* Nobody takes the output buffer away while it is filled (AudioFfmpegEncoderPlugin::SendOutputBuffer).
OutputStays == acAt # "crashed"
=============================================================================
