---------------------------- MODULE Negotiation ----------------------------
(***************************************************************************)
(* How the filters of a stream agree on a format                           *)
(* (engine/pipeline/core/compatible_check.cpp, port.cpp, filter_base.cpp,  *)
(* filters/codec/codec_filter_base.cpp, filters/common/plugin_utils.cpp):  *)
(* the demuxer offers what it knows of its audio track; the decoder filter *)
(* tries its plug-ins one after the other on the audio sink, which picks   *)
(* and starts its own; then the values agreed on go down the same way and  *)
(* configure the plug-ins.  The filters live on when the player is stopped *)
(* and prepared for another stream, with what they remember of the last.   *)
(***************************************************************************)
EXTENDS Integers, Sequences, FiniteSets, SequencesExt

CONSTANTS
    NgDecoders,    \* the decoder plug-ins, in the order of ListPlugins
    NgSinks,       \* the audio sink plug-ins, in that order
    NgStreams,     \* the media: sequences of tracks
    NgIntRange,    \* how many values an int tells apart
    MaxNgOpens,    \* bound: streams opened
    MaxNgFaults    \* bound: plug-ins that fail to initialise, reset or prepare

ASSUME NegotiationAssumption == MaxNgOpens \in Nat /\ MaxNgFaults \in Nat /\ NgIntRange \in Nat \ {0}

VARIABLES
    ngPhase,     \* what the demuxer's thread does
    ngState,     \* state_ of the decoder and of the sink filter
    ngLink,      \* the ports that are linked: [from, to]
    ngTrack,     \* the meta of the track, as GetTrackMeta answers it
    ngTry,       \* the candidate plug-ins the decoder has not tried yet
    ngSlot,      \* plugin_ and pluginInfo_ of a filter, with the plug-in's parameters
    ngAgreed,    \* capNegWithDownstream_ of the decoder filter
    ngSinkParams,\* sinkParams_ of the decoder filter: the channels the sink puts out
    ngDown,      \* downstreamParams of the negotiation that runs
    ngOpens, ngFaults
negVars == <<ngPhase, ngState, ngLink, ngTrack, ngTry, ngSlot, ngAgreed, ngSinkParams, ngDown, ngOpens, ngFaults>>

NgFilters == {"decoder", "sink"}
NoPlugin == "none"
NgKeys == {"rate", "channels", "layout", "format"}

-----------------------------------------------------------------------------
TheOnly(S) == CHOOSE x \in S : TRUE

(* Capabilities: a value, two bounds or a list of values for a key.        *)
FixedCap(v) == [kind |-> "fixed", vals |-> <<v>>]
IntervalCap(lo, hi) == [kind |-> "interval", vals |-> <<lo, hi>>]
DiscreteCap(s) == [kind |-> "discrete", vals |-> s]

\* cmpFunc returns an int: of a 64 bit layout the upper half is lost.
Difference(key, a, b) == IF key = "layout" THEN (a - b) % NgIntRange ELSE a - b
Equals(key, a, b) == Difference(key, a, b) = 0

Larger(a, b) == IF a - b >= 0 THEN a ELSE b
Smaller(a, b) == IF a - b <= 0 THEN a ELSE b
Bottom(i) == Smaller(i.vals[1], i.vals[2])
Top(i) == Larger(i.vals[1], i.vals[2])

\* FFCapabilityCheck, FICapabilityCheck and FDCapabilityCheck.
FixedFits(key, v, c) ==
    CASE c.kind = "fixed" -> Equals(key, v, c.vals[1])
      [] c.kind = "interval" -> v >= Bottom(c) /\ v <= Top(c)
      [] c.kind = "discrete" -> \E i \in DOMAIN c.vals : Equals(key, c.vals[i], v)

\* What is left of a list: nothing, one value or a list.
Narrowed(s) ==
    CASE Len(s) = 0 -> {}
      [] Len(s) = 1 -> {FixedCap(s[1])}
      [] OTHER -> {DiscreteCap(s)}

IntervalsMeet(a, b) ==
    LET lo == Larger(Bottom(a), Bottom(b))
        hi == Smaller(Top(a), Top(b)) IN
    CASE lo > hi -> {}
      [] lo = hi -> {FixedCap(lo)}
      [] OTHER -> {IntervalCap(lo, hi)}

ListInInterval(i, d) == Narrowed(SelectSeq(d.vals, LAMBDA v : v >= i.vals[1] /\ v <= i.vals[2]))

ListsMeet(key, a, b) == Narrowed(SelectSeq(a.vals, LAMBDA v : FixedFits(key, v, b)))

\* CapabilityValueCheck: the set of the merged capability, or the empty set.
MergeValues(key, a, b) ==
    CASE a.kind = "fixed" -> IF FixedFits(key, a.vals[1], b) THEN {a} ELSE {}
      [] b.kind = "fixed" -> IF FixedFits(key, b.vals[1], a) THEN {b} ELSE {}
      [] a.kind = "interval" /\ b.kind = "interval" -> IntervalsMeet(a, b)
      [] a.kind = "interval" -> ListInInterval(a, b)
      [] b.kind = "interval" -> ListInInterval(b, a)
      [] OTHER -> ListsMeet(key, a, b)

\* A mutant: where the two sides differ the first one is believed.
MergeKeysBelieves(a, b) == { [k \in DOMAIN a \cup DOMAIN b |-> IF k \in DOMAIN a THEN a[k] ELSE b[k]] }

\* MergeCapabilityKeys: a key that one side alone has stays as it is.
MergeKeys(a, b) ==
    LET merged == [k \in DOMAIN a \cap DOMAIN b |-> MergeValues(k, a[k], b[k])] IN
    IF \E k \in DOMAIN merged : merged[k] = {} THEN {}
    ELSE { [k \in DOMAIN a \cup DOMAIN b |->
               IF k \in DOMAIN merged THEN TheOnly(merged[k]) ELSE IF k \in DOMAIN a THEN a[k] ELSE b[k]] }

\* IsSubsetMime: "*" takes every mime that is one.
SubsetMime(m, u) ==
    /\ m.type \notin {"", "*"}
    /\ \/ u.type = "*"
       \/ u.type # "" /\ u.type = m.type /\ u.sub \in {"*", m.sub}

MergeCapability(a, b) ==
    IF SubsetMime(a.mime, b.mime) THEN { [mime |-> a.mime, keys |-> k] : k \in MergeKeys(a.keys, b.keys) } ELSE {}

FirstOf(sets) ==
    LET found == SelectSeq(sets, LAMBDA s : s # {}) IN IF found = <<>> THEN {} ELSE Head(found)

\* ApplyCapabilitySet: the first of a plug-in's capabilities that merges.
FirstMerged(cap, caps) ==
    FirstOf([i \in DOMAIN caps |-> MergeCapability(cap, caps[i])])

\* ExtractFixedCap: the first bound or the first of a list stands for all.
ExtractFixed(c) == c.vals[1]

\* MetaToCapability.
TrackCap(t) == [mime |-> t.mime, keys |-> [k \in DOMAIN t.keys |-> FixedCap(t.keys[k])]]

\* MergeMetaWithCapability: the meta with the values of the merged capability.
MergeMeta(t, cap) ==
    { [t EXCEPT !.mime = cap.mime, !.keys = [k \in DOMAIN c.keys |-> ExtractFixed(c.keys[k])]]
      : c \in MergeCapability([mime |-> cap.mime, keys |-> TrackCap(t).keys], cap) }

\* FindAvailablePlugins: the plug-ins that take the capability, with what is agreed on.
AvailablePlugins(cap, plugins) ==
    SelectSeq([i \in DOMAIN plugins |-> [def |-> plugins[i], caps |-> FirstMerged(cap, plugins[i].inCaps)]],
              LAMBDA p : p.caps # {})

-----------------------------------------------------------------------------
EmptySlot == [plugin |-> NoPlugin, ready |-> FALSE, info |-> NoPlugin, params |-> <<>>]
NoCap == [mime |-> [type |-> "", sub |-> ""], keys |-> <<>>]
NoTrack == [mime |-> [type |-> "", sub |-> ""], keys |-> <<>>, out |-> 0]

NegInit ==
    /\ ngPhase = "closed" /\ ngState = [f \in NgFilters |-> "initialized"] /\ ngLink = {}
    /\ ngTrack = NoTrack /\ ngTry = <<>> /\ ngSlot = [f \in NgFilters |-> EmptySlot]
    /\ ngAgreed = NoCap /\ ngSinkParams = 0 /\ ngDown = 0 /\ ngOpens = 0 /\ ngFaults = 0

CountFaults(oks) == ngFaults' = ngFaults + Cardinality({i \in DOMAIN oks : ~oks[i]})

\* UpdateAndInitPluginByInfo: the plug-in of that name is reset and kept; another
\* is created, and known by its info only once it is initialised.
KeepsPlugin(slot, def, resets) == slot.plugin # NoPlugin /\ slot.info = def.name /\ resets
PluginSlot(slot, def, resets, inits) ==
    IF KeepsPlugin(slot, def, resets) THEN [slot EXCEPT !.params = <<>>]
    ELSE [plugin |-> def.name, ready |-> inits, info |-> IF inits THEN def.name ELSE slot.info, params |-> <<>>]
SlotServes(slot, def, resets, inits) == KeepsPlugin(slot, def, resets) \/ inits

\* PrepareStreams: of the tracks that say their mime the first audio track gets a port.
AudioTracks(tracks) == SelectSeq(tracks, LAMBDA t : t.mime.type = "audio")

RawAudio(t) == t.mime.sub = "raw"
LinksOf(t) == IF RawAudio(t) THEN {<<"demuxer", "sink">>} ELSE {<<"demuxer", "decoder">>, <<"decoder", "sink">>}

\* The new ports are linked, and the filters behind them prepared: a filter that
\* is not initialised refuses, and its in-port needs a peer to activate.
OpenStream(tracks) ==
    /\ ngPhase = "closed" /\ ngOpens < MaxNgOpens /\ ngOpens' = ngOpens + 1
    /\ IF AudioTracks(tracks) = <<>>
       THEN /\ ngPhase' = "failed"
            /\ UNCHANGED <<ngState, ngLink, ngTrack>>
       ELSE LET t == AudioTracks(tracks)[1] IN
            /\ ngLink' = LinksOf(t) /\ ngTrack' = t
            /\ ngState' = [f \in NgFilters |->
                              IF ngState[f] = "initialized" /\ (\E l \in LinksOf(t) : l[2] = f) THEN "preparing" ELSE ngState[f]]
            /\ ngPhase' = IF RawAudio(t) THEN "to sink" ELSE "to decoder"
    /\ ngTry' = <<>> /\ ngDown' = 0
    /\ UNCHANGED <<ngSlot, ngAgreed, ngSinkParams, ngFaults>>

\* The sink takes the first plug-in that fits, provided that all its
\* capabilities name a sample format, and tells how many channels it puts out.
SinkChoices(cap) ==
    LET found == AvailablePlugins(cap, NgSinks) IN
    IF found # <<>> /\ \A i \in DOMAIN found[1].def.inCaps : "format" \in DOMAIN found[1].def.inCaps[i].keys
    THEN {found[1]} ELSE {}
SinkAgrees(choice, resets, inits) ==
    /\ ngSlot' = [ngSlot EXCEPT !["sink"] = PluginSlot(@, choice.def, resets, inits)]
    /\ ngDown' = IF choice.def.out > 0 THEN choice.def.out ELSE ngDown

\* The codec filter looks for its candidates ...
DecoderSearches ==
    /\ ngPhase = "to decoder" /\ <<"demuxer", "decoder">> \in ngLink
    /\ IF ngState["decoder"] = "preparing"
       THEN /\ ngTry' = AvailablePlugins(TrackCap(ngTrack), NgDecoders)
            /\ ngPhase' = "trying"
       ELSE ngPhase' = "failed" /\ ngTry' = <<>>
    /\ UNCHANGED <<ngState, ngLink, ngTrack, ngSlot, ngAgreed, ngSinkParams, ngDown, ngOpens, ngFaults>>

\* ... the first out capability that has the keys it must have and merges with
\* what came from upstream is offered downstream ...
OfferOf(out) ==
    IF "format" \in DOMAIN out.keys
    THEN { [mime |-> out.mime, keys |-> k] : k \in MergeKeys(TrackCap(ngTrack).keys, out.keys) } ELSE {}
OffersOf(candidate) ==
    FirstOf([i \in DOMAIN candidate.def.outCaps |-> OfferOf(candidate.def.outCaps[i])])

\* ... and if the sink can serve it, the codec's own plug-in is started.
DecoderTries ==
    /\ ngPhase = "trying" /\ ngTry # <<>>
    /\ \E sinkResets, sinkInits, resets, inits \in BOOLEAN :
        LET candidate == Head(ngTry)
            choices == UNION {SinkChoices(o) : o \in OffersOf(candidate)}
            s == TheOnly(choices)
            sinkServes == choices # {} /\ SlotServes(ngSlot["sink"], s.def, sinkResets, sinkInits)
            serves == SlotServes(ngSlot["decoder"], candidate.def, resets, inits) IN
        /\ CountFaults(<<sinkResets, sinkInits, resets, inits>>) /\ ngFaults' <= MaxNgFaults
        /\ choices = {} => sinkResets /\ sinkInits
        /\ ~sinkServes => resets /\ inits
        /\ ngTry' = Tail(ngTry)
        /\ IF choices = {} THEN UNCHANGED <<ngSlot, ngDown, ngAgreed>>
           ELSE /\ ngSlot' = [ngSlot EXCEPT !["sink"] = PluginSlot(@, s.def, sinkResets, sinkInits),
                                            !["decoder"] = IF sinkServes THEN PluginSlot(@, candidate.def, resets, inits) ELSE @]
                /\ ngDown' = IF s.def.out > 0 THEN s.def.out ELSE ngDown
                /\ ngAgreed' = TheOnly(s.caps)
        /\ ngPhase' = IF ~sinkServes THEN "trying" ELSE IF serves THEN "agreed" ELSE "failed"
        /\ UNCHANGED <<ngState, ngLink, ngTrack, ngSinkParams, ngOpens>>

\* No candidate is left: the demuxer pauses its task and reports the format.
DecoderGivesUp ==
    /\ ngPhase = "trying" /\ ngTry = <<>> /\ ngPhase' = "failed"
    /\ UNCHANGED <<ngState, ngLink, ngTrack, ngTry, ngSlot, ngAgreed, ngSinkParams, ngDown, ngOpens, ngFaults>>

\* Raw audio goes to the sink without a codec.
SinkNegotiates ==
    /\ ngPhase = "to sink" /\ <<"demuxer", "sink">> \in ngLink
    /\ LET choices == SinkChoices(TrackCap(ngTrack)) IN
       IF choices = {} THEN ngPhase' = "failed" /\ UNCHANGED <<ngSlot, ngDown, ngFaults>>
       ELSE \E choice \in choices, resets, inits \in BOOLEAN :
            /\ CountFaults(<<resets, inits>>) /\ ngFaults' <= MaxNgFaults
            /\ SinkAgrees(choice, resets, inits)
            /\ ngPhase' = IF SlotServes(ngSlot["sink"], choice.def, resets, inits) THEN "agreed" ELSE "failed"
    /\ UNCHANGED <<ngState, ngLink, ngTrack, ngTry, ngAgreed, ngSinkParams, ngOpens>>

-----------------------------------------------------------------------------
\* UpdateStreamMeta: the track puts out no more channels than it has; what the
\* meta or the sink does not say is taken for stereo.
TrackChannels(t) == IF "channels" \in DOMAIN t.keys THEN t.keys["channels"] ELSE 2
UpdateStreamMeta(t) == [t EXCEPT !.out = Smaller(TrackChannels(t), IF ngDown > 0 THEN ngDown ELSE 2)]

\* AudioDecoderFilter::UpdateParams: what the sink said when the decoder was configured last.
UpdateParams(up, t) ==
    IF ngSinkParams = 0 THEN t
    ELSE [t EXCEPT !.out = IF "channels" \in DOMAIN up.keys THEN Smaller(up.keys["channels"], ngSinkParams) ELSE 0]

\* ConfigPluginWithMeta: the parameters of a filter's table that the meta has.
DecoderTable == {"rate", "channels", "format"}
SinkTable == {"rate", "format"}
ConfigPlugin(slot, t, table) ==
    [slot EXCEPT !.params = [keys |-> [k \in table \cap DOMAIN t.keys |-> t.keys[k]], out |-> t.out]]

\* The track is configured down to the sink, whose plug-in is prepared; the codec
\* is configured before its sink and ready after it.
ConfigureDecoder ==
    /\ ngPhase = "agreed" /\ ~RawAudio(ngTrack)
    /\ LET up == UpdateStreamMeta(ngTrack)
           merged == MergeMeta(up, ngAgreed) IN
       IF merged = {} \/ ngSlot["decoder"].info = NoPlugin \/ ngSlot["sink"].info = NoPlugin
       THEN ngPhase' = "failed" /\ UNCHANGED <<ngState, ngSlot, ngSinkParams, ngFaults>>
       ELSE \E prepared, started \in BOOLEAN :
            LET meta == UpdateParams(up, TheOnly(merged)) IN
            /\ CountFaults(<<prepared, started>>) /\ ngFaults' <= MaxNgFaults
            /\ ~prepared => started
            /\ ngSlot' = [decoder |-> ConfigPlugin(ngSlot["decoder"], meta, DecoderTable),
                          sink |-> ConfigPlugin(ngSlot["sink"], meta, SinkTable)]
            /\ ngState' = [decoder |-> IF prepared /\ started THEN "ready" ELSE ngState["decoder"],
                           sink |-> IF prepared THEN "ready" ELSE ngState["sink"]]
            /\ ngSinkParams' = IF prepared THEN ngDown ELSE ngSinkParams
            /\ ngPhase' = IF prepared /\ started THEN "ready" ELSE "failed"
    /\ ngTrack' = UpdateStreamMeta(ngTrack)
    /\ UNCHANGED <<ngLink, ngTry, ngAgreed, ngDown, ngOpens>>

ConfigureSink ==
    /\ ngPhase = "agreed" /\ RawAudio(ngTrack)
    /\ \E prepared \in BOOLEAN :
        /\ CountFaults(<<prepared>>) /\ ngFaults' <= MaxNgFaults
        /\ ngSlot' = [ngSlot EXCEPT !["sink"] = ConfigPlugin(@, UpdateStreamMeta(ngTrack), SinkTable)]
        /\ ngState' = [ngState EXCEPT !["sink"] = IF prepared THEN "ready" ELSE @]
        /\ ngPhase' = IF prepared THEN "ready" ELSE "failed"
    /\ ngTrack' = UpdateStreamMeta(ngTrack)
    /\ UNCHANGED <<ngLink, ngTry, ngAgreed, ngSinkParams, ngDown, ngOpens>>

\* The player stops: the filters are initialised, their ports taken apart.
CloseStream ==
    /\ ngPhase \in {"ready", "failed"} /\ ngPhase' = "closed"
    /\ ngState' = [f \in NgFilters |-> "initialized"] /\ ngLink' = {}
    /\ ngTrack' = NoTrack /\ ngTry' = <<>> /\ ngDown' = 0
    /\ UNCHANGED <<ngSlot, ngAgreed, ngSinkParams, ngOpens, ngFaults>>

NegNext ==
    \/ \E s \in NgStreams : OpenStream(s)
    \/ DecoderSearches \/ DecoderTries \/ DecoderGivesUp \/ SinkNegotiates
    \/ ConfigureDecoder \/ ConfigureSink \/ CloseStream

NegSpec == NegInit /\ [][NegNext]_negVars

-----------------------------------------------------------------------------
(* What is to hold.                                                        *)
NegTypeOK ==
    /\ ngPhase \in {"closed", "to decoder", "to sink", "trying", "agreed", "ready", "failed"}
    /\ ngState \in [NgFilters -> {"initialized", "preparing", "ready"}]
    /\ ngOpens \in 0..MaxNgOpens /\ ngFaults \in 0..MaxNgFaults

ValuesOf(c) == IF c.kind = "interval" THEN c.vals[1]..c.vals[2] ELSE ToSet(c.vals)

\* Capabilities as the CapabilityBuilder makes them over three values: a value,
\* a range in order, a list.
SampleCaps ==
    { FixedCap(v) : v \in 1..3 } \cup { IntervalCap(i, j) : i \in 1..2, j \in 2..3 }
    \cup { DiscreteCap(s) : s \in {<<1, 2>>, <<3, 1>>, <<3, 2, 1>>, <<2>>} }

\* Merging two capabilities leaves exactly the values that both allow, whatever
\* the way each of them says it, and fails when there is none.
MergesIntersect ==
    ngPhase = "closed" =>
        \A a, b \in SampleCaps : UNION {ValuesOf(c) : c \in MergeValues("rate", a, b)} = ValuesOf(a) \cap ValuesOf(b)

DefOf(name, plugins) == CHOOSE p \in ToSet(plugins) : p.name = name
Allows(cap, values, keys) ==
    \A k \in keys \cap DOMAIN values \cap DOMAIN cap.keys : values[k] \in ValuesOf(cap.keys[k])
AllowsAll(cap, values) == Allows(cap, values, NgKeys \ {"layout"})

\* Ready filters fit together: some input of the chosen decoder takes the track,
\* what the sink is configured with is among what that decoder puts out and what
\* the sink takes, and what the track says of itself is still so at the sink.
ReadyFits ==
    ngPhase = "ready" =>
        LET sink == ngSlot["sink"].params
            taken == DefOf(ngSlot["sink"].info, NgSinks) IN
        /\ \E i \in DOMAIN taken.inCaps : AllowsAll(taken.inCaps[i], sink.keys)
        /\ {k \in {"rate", "format"} : k \in DOMAIN ngTrack.keys} \subseteq DOMAIN sink.keys
        /\ \A k \in DOMAIN sink.keys \cap DOMAIN ngTrack.keys : sink.keys[k] = ngTrack.keys[k]
        /\ sink.out <= TrackChannels(ngTrack)
        /\ ~RawAudio(ngTrack) =>
              LET coder == DefOf(ngSlot["decoder"].info, NgDecoders) IN
              /\ \E i \in DOMAIN coder.inCaps :
                    SubsetMime(ngTrack.mime, coder.inCaps[i].mime) /\ AllowsAll(coder.inCaps[i], ngTrack.keys)
              /\ \E i \in DOMAIN coder.outCaps : AllowsAll(coder.outCaps[i], sink.keys)

\* What the filters of a stream agree on is what both sides of every link allow.
NegotiationFits == MergesIntersect /\ ReadyFits

\* A ready filter runs the plug-in it chose, initialised.  It does not always: a
\* plug-in whose Init failed stays in the slot under the name of the one before.
SlotRunsItsPlugin ==
    ngPhase = "ready" =>
        \A f \in {l[2] : l \in ngLink} : ngSlot[f].plugin = ngSlot[f].info /\ ngSlot[f].ready

\* The sink gets no more channels than it puts out.  It may get as many as the
\* sink of the stream before put out: sinkParams_ is written after it is read.
ChannelsFitSink ==
    ngPhase = "ready" => LET out == DefOf(ngSlot["sink"].info, NgSinks).out IN out > 0 => ngSlot["sink"].params.out <= out

\* Two layouts that differ are told apart.  They are not if they differ in the upper half alone.
LayoutsDiffer ==
    ngPhase = "ready" /\ ~RawAudio(ngTrack) /\ "layout" \in DOMAIN ngTrack.keys =>
        LET caps == DefOf(ngSlot["decoder"].info, NgDecoders).inCaps IN
        \E i \in DOMAIN caps : SubsetMime(ngTrack.mime, caps[i].mime) /\ Allows(caps[i], ngTrack.keys, {"layout"})
=============================================================================
