-------------------------------- MODULE Ports --------------------------------
(***************************************************************************)
(* The ports of the engine's filters, and the graph PipelineCore and the   *)
(* scenes build with them: adding, initialising, linking, ordering,        *)
(* activating, unlinking and removing filters, and the way of a frame      *)
(* from port to port.                                                      *)
(*                                                                         *)
(* An out port owns the in port it is linked to; an in port only knows     *)
(* the out port before it (weak_ptr).  A filter that is initialised again  *)
(* gets new ports; the former ones, and the links they are in, are gone    *)
(* with the last that owns them.  A name nobody has is answered with the   *)
(* one EmptyInPort, or EmptyOutPort, which can be connected and activated  *)
(* and does nothing.                                                       *)
(*                                                                         *)
(* Two scenes: the player (lite), whose demuxer finds the streams and      *)
(* announces its ports, and the recorder, which adds a branch for every    *)
(* source the application sets, before the muxer added first.  A call of   *)
(* the scene visits one filter in a step.                                  *)
(***************************************************************************)
EXTENDS Naturals, Sequences, FiniteSets, SequencesExt

CONSTANTS PtMedia,      \* the media a player opens: sequences over {"audio", "raw", "video"}
          PtStops,      \* how a decoder may answer Stop: a subset of BOOLEAN
          MaxPtRounds,  \* preparations
          MaxPtFrames   \* frames pushed

VARIABLES
    ptScene,        \* "player", "recorder"
    ptState,        \* where the scene is
    ptTodo,         \* filters the call has still to visit
    ptFilters,      \* filters_ of the pipeline
    ptGone,         \* filtersToRemove_
    ptPorts,        \* inPorts_ and outPorts_ of each filter
    ptPeer,         \* nextPort and prevPort
    ptGen,          \* ports made so far
    ptReady,        \* filters that are INITIALIZED
    ptTracks,       \* trackInfos of the demuxer: the port and the kind of each track
    ptCount,        \* mediaTypeCntMap_ of the demuxer
    ptVdecs,        \* video decoders made: only the last is alive
    ptSeekable,     \* seekable_ of the source
    ptMode,         \* how the demuxer gets its data
    ptSeen,         \* filters this Prepare has visited (history)
    ptTrail,        \* the filters the last frame went through, and its kind (history)
    ptFailed,       \* a Stop has failed (history)
    ptRounds, ptFrames

ptGraphVars == <<ptPorts, ptPeer, ptGen>>
ptDemuxVars == <<ptTracks, ptCount, ptMode>>
ptHistVars == <<ptTrail, ptFailed, ptFrames>>
ptVars == <<ptScene, ptState, ptTodo, ptFilters, ptGone, ptGraphVars, ptReady, ptDemuxVars,
            ptVdecs, ptSeekable, ptSeen, ptHistVars, ptRounds>>

AudioDecoders == <<"adec1", "adec2", "adec3", "adec4">>
VideoDecoders == <<"vdec1", "vdec2", "vdec3", "vdec4">>
PtDecoders == ToSet(AudioDecoders) \union ToSet(VideoDecoders)
PtSinks == {"asink", "vsink", "osink"}
PtSources == {"source", "acap", "vcap"}
PtFilterNames == PtDecoders \union PtSinks \union PtSources \union {"demuxer", "muxer", "aenc", "venc"}

-----------------------------------------------------------------------------
(* Ports.                                                                  *)

EmptyIn == [at |-> "none", dir |-> "in", name |-> <<"empty", 0>>, gen |-> 0]
EmptyOut == [at |-> "none", dir |-> "out", name |-> <<"empty", 0>>, gen |-> 0]
Default == <<"default", 0>>
MakePort(f, d, n, g) == [at |-> f, dir |-> d, name |-> n, gen |-> g]

\* InitPorts: one in port and one out port; a source has no in port, a sink, and the
\* demuxer until it knows the streams, no out port, the muxer no in port yet.
FreshPorts(f, g) ==
    (IF f \in PtSources \union {"muxer"} THEN <<>> ELSE <<MakePort(f, "in", Default, g)>>)
    \o (IF f \in PtSinks \union {"demuxer"} THEN <<>> ELSE <<MakePort(f, "out", Default, g)>>)

\* FindPort, GetInPort, GetOutPort: the first of that name, or the empty port.
FindPort(f, d, n) ==
    LET found == SelectSeq(ptPorts[f], LAMBDA p : p.dir = d /\ p.name = n)
    IN IF found # <<>> THEN found[1] ELSE IF d = "in" THEN EmptyIn ELSE EmptyOut

\* The ports somebody owns: a filter, the demuxer's tracks, an owned out port.
Owned == UNION {ToSet(ptPorts[f]) : f \in PtFilterNames} \union {ptTracks[i].port : i \in DOMAIN ptTracks}
Alive == Owned \union {ptPeer[p] : p \in {q \in Owned \intersect DOMAIN ptPeer : q.dir = "out"}}

\* GetPeerPort: the peer of an in port may be gone.
Linked(p) == p \in DOMAIN ptPeer /\ (p.dir = "out" \/ ptPeer[p] \in Alive)
Peer(p) == ptPeer[p]

Joins(peer, p, q) == [x \in DOMAIN peer \union {p} |-> IF x = p THEN q ELSE peer[x]]

\* OutPort::Connect takes a port of a filter of the same pipeline, the empty port takes
\* anything and remembers nothing; InPort::Connect takes anything.
OutTakes(p, q) == p # EmptyOut /\ q.at # "none"
LinksPorts(peer, p, q) ==
    IF p = EmptyOut THEN (IF q = EmptyIn THEN peer ELSE Joins(peer, q, p))
    ELSE IF OutTakes(p, q) THEN Joins(Joins(peer, p, q), q, p) ELSE peer

\* GetNextFilters, GetPreFilters
NextFilters(f) == {Peer(p).at : p \in {q \in ToSet(ptPorts[f]) : q.dir = "out" /\ Linked(q)}}
PreFilters(f) == {Peer(p).at : p \in {q \in ToSet(ptPorts[f]) : q.dir = "in" /\ Linked(q)}}

\* UnlinkPrevFilters, of several filters.
Unlinked(peer, fs) ==
    LET ins == UNION {{p \in ToSet(ptPorts[f]) : p.dir = "in"} : f \in fs}
        outs == {peer[p] : p \in {q \in ins : Linked(q)}}
    IN [x \in DOMAIN peer \ (ins \union outs) |-> peer[x]]

\* RemoveFilterChain: level after level, each unlinked before its next filters are asked.
RECURSIVE ChainFrom(_)
ChainFrom(level) ==
    IF level = <<>> THEN <<>>
    ELSE <<Head(level)>> \o ChainFrom(Tail(level) \o SetToSeq(NextFilters(Head(level))))

\* The mode of work: the first of the caller's that the owner of the out port supports.
WorkModes(f) == IF f = "source" /\ ptSeekable THEN {"push", "pull"} ELSE {"push"}
Agreed(f, modes) == SelectSeq(modes, LAMBDA m : m \in WorkModes(f))
\* InPort::Activate asks its peer; the empty port agrees and sets no mode.
Activates(f) == FindPort(f, "in", Default) = EmptyIn \/ Linked(FindPort(f, "in", Default))
ModeOf(f, modes) == Agreed(Peer(FindPort(f, "in", Default)).at, modes)[1]

-----------------------------------------------------------------------------
(* ReorderFilters: Kahn's algorithm with a stack; the former order stays   *)
(* when not every filter is reached.  A next filter that is not in the     *)
(* list counts as the first of it (mapInfo[next]).                         *)

NodeOf(f) == IF f \in ToSet(ptFilters) THEN CHOOSE i \in DOMAIN ptFilters : ptFilters[i] = f ELSE 1

RECURSIVE Lowered(_, _, _)
Lowered(nexts, degree, stack) ==
    IF nexts = <<>> THEN <<degree, stack>>
    ELSE LET i == NodeOf(Head(nexts))
             lower == [degree EXCEPT ![i] = @ - 1]
         IN Lowered(Tail(nexts), lower, IF lower[i] = 0 THEN Append(stack, i) ELSE stack)

RECURSIVE Topological(_, _, _)
Topological(degree, stack, result) ==
    IF stack = <<>> THEN result
    ELSE LET cur == Last(stack)
             low == Lowered(SetToSeq(NextFilters(ptFilters[cur])), degree, Front(stack))
         IN Topological(low[1], low[2], Append(result, ptFilters[cur]))

Reordered ==
    LET roots == SelectSeq([i \in DOMAIN ptFilters |-> i], LAMBDA i : PreFilters(ptFilters[i]) = {})
        ins(i) == Cardinality({p \in ToSet(ptPorts[ptFilters[i]]) : p.dir = "in" /\ Linked(p)})
        result == Topological([i \in DOMAIN ptFilters |-> ins(i)], roots, <<>>)
    IN IF Len(result) = Len(ptFilters) THEN result ELSE ptFilters

-----------------------------------------------------------------------------
PtTypeOK ==
    /\ ptScene \in {"player", "recorder"}
    /\ ptState \in {"idle", "preparing", "open", "named", "audio", "wired", "running", "stopping", "crashed"}
    /\ ptFilters \in Seq(PtFilterNames) /\ ptTodo \in Seq(PtFilterNames) /\ ptGone \in Seq(PtFilterNames)
    /\ \A f \in PtFilterNames : \A p \in ToSet(ptPorts[f]) : p.at = f
    /\ \A p \in DOMAIN ptPeer : p.dir # ptPeer[p].dir
    /\ ptReady \subseteq PtFilterNames /\ ptSeen \subseteq PtFilterNames
    /\ ptMode \in {"none", "push", "pull"}
    /\ ptVdecs \in 0 .. MaxPtRounds /\ ptRounds \in 0 .. MaxPtRounds /\ ptFrames \in 0 .. MaxPtFrames

\* AddsFilters: those the list does not have, initialised: new ports.
NewOf(fs) == SelectSeq(fs, LAMBDA f : f \notin ToSet(ptFilters))
WithPorts(fs) == [f \in PtFilterNames |-> IF f \in ToSet(fs) THEN FreshPorts(f, ptGen + 1) ELSE ptPorts[f]]
AddsFilters(fs) ==
    /\ ptFilters' = ptFilters \o NewOf(fs)
    /\ ptPorts' = WithPorts(NewOf(fs))
    /\ ptGen' = ptGen + 1

Base(scene) == IF scene = "player" THEN <<"source", "demuxer">> ELSE <<"muxer", "osink">>

\* Init of the scene: AddsFilters and LinkFilters of the two filters it always has.
PtInit ==
    /\ ptScene \in {"player", "recorder"} /\ ptSeekable \in BOOLEAN
    /\ ptScene = "recorder" => ptSeekable
    /\ ptState = "idle" /\ ptTodo = <<>> /\ ptGone = <<>>
    /\ ptFilters = Base(ptScene)
    /\ ptPorts = [f \in PtFilterNames |-> IF f \in ToSet(ptFilters) THEN FreshPorts(f, 1) ELSE <<>>]
    /\ LET from == MakePort(ptFilters[1], "out", Default, 1)
           to == MakePort(ptFilters[2], "in", Default, 1)
       IN ptPeer = [p \in {from, to} |-> IF p = from THEN to ELSE from]
    /\ ptGen = 1
    /\ ptReady = ToSet(ptFilters)
    /\ ptTracks = <<>> /\ ptCount = [k \in {"audio", "video"} |-> 0] /\ ptVdecs = 0
    /\ ptMode = "none" /\ ptSeen = {} /\ ptTrail = <<>> /\ ptFailed = FALSE
    /\ ptRounds = 0 /\ ptFrames = 0

-----------------------------------------------------------------------------
(* The recorder: a source is set, its branch added before the muxer.       *)

MuxerPorts(ports) == Cardinality({p \in ToSet(ports["muxer"]) : p.dir = "in"})

SetsSource(cap, enc) ==
    /\ ptScene = "recorder" /\ ptState = "idle" /\ ptRounds = 0
    /\ cap \notin ToSet(ptFilters)
    /\ ptFilters' = ptFilters \o <<cap, enc>>
    /\ ptGen' = ptGen + 1
    /\ LET track == MakePort("muxer", "in", <<"default", MuxerPorts(ptPorts) + 1>>, ptGen + 1)
           made == [WithPorts(<<cap, enc>>) EXCEPT !["muxer"] = @ \o <<track>>]
           from(f) == SelectSeq(made[f], LAMBDA p : p.dir = "out")[1]
           to(f) == SelectSeq(made[f], LAMBDA p : p.dir = "in")[1]
       IN /\ ptPorts' = made
          /\ ptPeer' = LinksPorts(LinksPorts(ptPeer, from(cap), to(enc)), from(enc), track)
    /\ ptReady' = ptReady \union {cap, enc}
    /\ UNCHANGED <<ptScene, ptState, ptTodo, ptGone, ptDemuxVars, ptVdecs, ptSeekable, ptSeen, ptHistVars, ptRounds>>

-----------------------------------------------------------------------------
(* PipelineCore::Prepare, one filter at a time from the last to the first. *)

PtPrepares ==
    /\ ptState = "idle" /\ ptRounds < MaxPtRounds
    /\ ptScene = "recorder" => Len(ptFilters) > 2
    /\ ptRounds' = ptRounds + 1
    /\ ptFilters' = Reordered
    /\ ptTodo' = Reverse(Reordered) /\ ptSeen' = {}
    /\ ptState' = "preparing"
    /\ UNCHANGED <<ptScene, ptGone, ptGraphVars, ptReady, ptDemuxVars, ptVdecs, ptSeekable, ptHistVars>>

\* FilterBase::Prepare refuses a filter that is not INITIALIZED, or that is not linked;
\* the source and the demuxer do not look.
PrepareOK(f) == f \in {"source", "demuxer"} \/ (f \in ptReady /\ Activates(f))

VisitPrepare ==
    /\ ptState = "preparing" /\ ptTodo # <<>>
    /\ LET f == Head(ptTodo)
       IN /\ ptTodo' = IF PrepareOK(f) THEN Tail(ptTodo) ELSE <<>>
          /\ ptState' = IF PrepareOK(f) THEN IF Tail(ptTodo) = <<>> THEN "open" ELSE ptState
                                        ELSE "idle"
          /\ ptSeen' = ptSeen \union {f}
          /\ ptReady' = ptReady \ {f}
          /\ ptMode' = IF f = "demuxer" THEN ModeOf(f, <<"pull", "push">>) ELSE ptMode
    /\ UNCHANGED <<ptScene, ptFilters, ptGone, ptGraphVars, ptTracks, ptCount, ptVdecs, ptSeekable, ptHistVars, ptRounds>>

-----------------------------------------------------------------------------
(* The demuxer has found the streams: PrepareStreams, and the player's     *)
(* callback.                                                               *)

KindOf(t) == IF t = "raw" THEN "audio" ELSE t
\* Only the first audio track gets a port.
Served(media) == SelectSeq([i \in DOMAIN media |-> [i |-> i, t |-> media[i]]],
                           LAMBDA x : KindOf(x.t) = "audio"
                                      => \A j \in 1 .. x.i - 1 : KindOf(media[j]) # "audio")

\* NamePort numbers the ports of a type, until the demuxer is stopped.
NamePort(count, served, i) ==
    <<KindOf(served[i].t), count[KindOf(served[i].t)]
                           + Cardinality({j \in 1 .. i : KindOf(served[j].t) = KindOf(served[i].t)})>>

PreparesStreams(media) ==
    /\ ptScene = "player" /\ ptState = "open"
    /\ LET s == Served(media)
           new == [i \in DOMAIN s |-> MakePort("demuxer", "out", NamePort(ptCount, s, i), ptGen + 1)]
       IN /\ ptPorts' = [ptPorts EXCEPT !["demuxer"] = SelectSeq(@, LAMBDA p : p.dir = "in") \o new]
          /\ ptTracks' = ptTracks \o [i \in DOMAIN s |-> [port |-> new[i], kind |-> s[i].t]]
          /\ ptCount' = [k \in DOMAIN ptCount |->
                            ptCount[k] + Cardinality({i \in DOMAIN s : KindOf(s[i].t) = k})]
    /\ ptGen' = ptGen + 1
    /\ ptState' = "named"
    /\ UNCHANGED <<ptScene, ptTodo, ptFilters, ptGone, ptPeer, ptReady, ptMode, ptVdecs, ptSeekable, ptSeen, ptHistVars, ptRounds>>

FirstPort(kind) == SelectSeq(ptPorts["demuxer"], LAMBDA p : p.dir = "out" /\ p.name[1] = kind)
IsPcm(p) == \E i \in DOMAIN ptTracks : ptTracks[i].port = p /\ ptTracks[i].kind = "raw"

\* NewAudioPortFound: the decoder is the one made for a port of that name; raw samples
\* go to the sink.
WiresAudio ==
    /\ ptState = "named" /\ ptState' = "audio"
    /\ IF FirstPort("audio") = <<>>
       THEN UNCHANGED <<ptFilters, ptGraphVars, ptReady>>
       ELSE LET p == FirstPort("audio")[1]
                chain == IF IsPcm(p) THEN <<"asink">> ELSE <<AudioDecoders[p.name[2]], "asink">>
            IN /\ AddsFilters(chain)
               /\ ptReady' = ptReady \ ToSet(chain)      \* ActiveFilters: Prepare of each
               /\ LET made == WithPorts(NewOf(chain))
                      in(f) == made[f][1]
                      first == LinksPorts(ptPeer, p, in(chain[1]))
                  IN ptPeer' = IF Len(chain) = 1 THEN first
                               ELSE LinksPorts(first, made[chain[1]][2], in("asink"))
    /\ UNCHANGED <<ptScene, ptTodo, ptGone, ptDemuxVars, ptVdecs, ptSeekable, ptSeen, ptHistVars, ptRounds>>

\* NewVideoPortFound: a new decoder, which replaces the one there was.
WiresVideo ==
    /\ ptState = "audio" /\ ptState' = "wired"
    /\ IF FirstPort("video") = <<>>
       THEN UNCHANGED <<ptFilters, ptGraphVars, ptReady, ptVdecs>>
       ELSE LET dec == VideoDecoders[ptVdecs + 1]
                made == WithPorts(NewOf(<<dec, "vsink">>))
            IN /\ AddsFilters(<<dec, "vsink">>)
               /\ ptVdecs' = ptVdecs + 1
               /\ ptReady' = ptReady \ {dec, "vsink"}
               /\ ptPeer' = LinksPorts(LinksPorts(ptPeer, FirstPort("video")[1], made[dec][1]),
                                      made[dec][2], made["vsink"][1])
    /\ UNCHANGED <<ptScene, ptTodo, ptGone, ptDemuxVars, ptSeekable, ptSeen, ptHistVars, ptRounds>>

\* NegotiateDownstream asks every track's port, and the port its next: OutPort::Negotiate
\* does not look whether it has one.
NegotiatesTracks ==
    /\ ptState = "wired"
    /\ ptState' = IF \A i \in DOMAIN ptTracks : Linked(ptTracks[i].port) THEN "running" ELSE "crashed"
    /\ UNCHANGED <<ptScene, ptTodo, ptFilters, ptGone, ptGraphVars, ptReady, ptDemuxVars, ptVdecs, ptSeekable,
                   ptSeen, ptHistVars, ptRounds>>

StartsRecording ==
    /\ ptScene = "recorder" /\ ptState = "open" /\ ptState' = "running"
    /\ UNCHANGED <<ptScene, ptTodo, ptFilters, ptGone, ptGraphVars, ptReady, ptDemuxVars, ptVdecs, ptSeekable,
                   ptSeen, ptHistVars, ptRounds>>

-----------------------------------------------------------------------------
(* A frame: PushData of an out port is PushData of the filter behind its   *)
(* in port, which pushes from its first out port what it makes of it.      *)

RECURSIVE WayFrom(_)
WayFrom(p) ==
    IF ~Linked(p) THEN <<"nobody">>
    ELSE LET f == Peer(p).at
             outs == SelectSeq(ptPorts[f], LAMBDA q : q.dir = "out")
         IN IF outs = <<>> THEN <<f>> ELSE <<f>> \o WayFrom(outs[1])

PushesTo(kind, p) ==
    /\ ptState = "running" /\ ptFrames < MaxPtFrames
    /\ ptFrames' = ptFrames + 1
    /\ ptTrail' = <<kind>> \o WayFrom(p)
    /\ UNCHANGED <<ptScene, ptState, ptTodo, ptFilters, ptGone, ptGraphVars, ptReady, ptDemuxVars, ptVdecs, ptSeekable,
                   ptSeen, ptFailed, ptRounds>>

DemuxerPushes == \E i \in DOMAIN ptTracks : PushesTo(ptTracks[i].kind, ptTracks[i].port)
CapturePushes == \E f \in {"acap", "vcap"} \intersect ToSet(ptFilters) :
                    PushesTo(IF f = "acap" THEN "audio" ELSE "video", FindPort(f, "out", Default))

-----------------------------------------------------------------------------
(* PipelineCore::Stop.                                                     *)

PtStopsAll ==
    /\ ptState \in {"open", "running"}
    /\ ptState' = "stopping"
    /\ ptTodo' = Reverse(ptFilters) /\ ptGone' = <<>>
    /\ UNCHANGED <<ptScene, ptFilters, ptGraphVars, ptReady, ptDemuxVars, ptVdecs, ptSeekable, ptSeen, ptHistVars, ptRounds>>

\* DemuxerFilter::Stop announces the removal of its ports: the player has the chain
\* behind each of them unlinked and marked.
RemovedChains ==
    LET behind == {Peer(p).at : p \in {q \in ToSet(ptPorts["demuxer"]) : q.dir = "out" /\ Linked(q)}}
    IN ChainFrom(SetToSeq(behind))

VisitStop(ok) ==
    /\ ptState = "stopping" /\ ptTodo # <<>>
    /\ LET f == Head(ptTodo)
           removed == IF f = "demuxer" THEN RemovedChains ELSE <<>>
       IN /\ ~ok => f \in PtDecoders
          /\ ptTodo' = IF ok THEN Tail(ptTodo) ELSE <<>>
          /\ ptState' = IF ok THEN ptState ELSE "idle"
          /\ ptFailed' = (ptFailed \/ ~ok)
          /\ ptReady' = IF ok THEN ptReady \union {f} ELSE ptReady
          /\ ptPeer' = Unlinked(ptPeer, ToSet(removed))
          /\ ptGone' = ptGone \o removed
          /\ ptTracks' = IF f = "demuxer" THEN <<>> ELSE ptTracks
          /\ ptCount' = IF f = "demuxer" THEN [k \in DOMAIN ptCount |-> 0] ELSE ptCount
    /\ UNCHANGED <<ptScene, ptFilters, ptPorts, ptGen, ptMode, ptVdecs, ptSeekable, ptSeen, ptTrail, ptFrames, ptRounds>>

\* RemoveFilter of every filter that was marked.
RemovesMarked ==
    /\ ptState = "stopping" /\ ptTodo = <<>>
    /\ ptFilters' = SelectSeq(ptFilters, LAMBDA f : f \notin ToSet(ptGone))
    /\ ptState' = "idle"
    /\ UNCHANGED <<ptScene, ptTodo, ptGone, ptGraphVars, ptReady, ptDemuxVars, ptVdecs, ptSeekable, ptSeen, ptHistVars, ptRounds>>

\* Another source: seekable or not.
AnotherSource ==
    /\ ptScene = "player" /\ ptState = "idle" /\ 0 < ptRounds /\ ptRounds < MaxPtRounds
    /\ ptSeekable' = ~ptSeekable
    /\ UNCHANGED <<ptScene, ptState, ptTodo, ptFilters, ptGone, ptGraphVars, ptReady, ptDemuxVars, ptVdecs, ptSeen,
                   ptHistVars, ptRounds>>

PtNext ==
    \/ SetsSource("acap", "aenc") \/ SetsSource("vcap", "venc")
    \/ PtPrepares \/ VisitPrepare
    \/ \E media \in PtMedia : PreparesStreams(media)
    \/ WiresAudio \/ WiresVideo \/ NegotiatesTracks \/ StartsRecording
    \/ DemuxerPushes \/ CapturePushes
    \/ PtStopsAll \/ (\E ok \in PtStops : VisitStop(ok)) \/ RemovesMarked \/ AnotherSource

PtSpec == PtInit /\ [][PtNext]_ptVars

-----------------------------------------------------------------------------
WaysOf(kind) ==
    IF ptScene = "recorder"
    THEN {<<kind, IF kind = "audio" THEN "aenc" ELSE "venc", "muxer", "osink">>}
    ELSE CASE kind = "raw"   -> {<<kind, "asink">>}
           [] kind = "audio" -> {<<kind, d, "asink">> : d \in ToSet(AudioDecoders)}
           [] kind = "video" -> {<<kind, d, "vsink">> : d \in ToSet(VideoDecoders)}

WasReplaced(f) == \E i \in DOMAIN VideoDecoders : VideoDecoders[i] = f /\ i < ptVdecs

\* The list never holds a filter that has been destroyed.  While no Stop has failed: a
\* filter is prepared after every filter behind it; the two ends of a link know each other;
\* a frame goes through the decoder, or the encoder and the muxer, made for it and only
\* through filters the pipeline drives; a stopped player is left with its source and its
\* demuxer, linked to each other alone; and data is pulled from a source exactly when it
\* can seek (PipelineCore::ReorderFilters, LinkPorts, RemoveFilterChain, OutPort::Activate).
LinksFit ==
    /\ \A f \in ToSet(ptFilters) : ~WasReplaced(f)
    /\ ~ptFailed =>
        /\ \A f \in ptSeen : ptState = "preparing" => NextFilters(f) \subseteq ptSeen
        /\ \A p \in Alive \intersect DOMAIN ptPeer : Linked(p) => Linked(Peer(p)) /\ Peer(Peer(p)) = p
        /\ ptTrail # <<>> => ptTrail \in WaysOf(ptTrail[1])
        /\ ptState = "running" => \A i \in DOMAIN ptTracks : ToSet(WayFrom(ptTracks[i].port)) \subseteq ToSet(ptFilters)
        /\ ptScene = "player" /\ ptState = "idle" =>
               /\ ToSet(ptFilters) = {"source", "demuxer"}
               /\ {p \in Alive : Linked(p)} = ToSet(ptPorts["source"]) \union {FindPort("demuxer", "in", Default)}
        /\ ptScene = "player" /\ ptState = "running" => (ptMode = "pull") = ptSeekable

\* A negotiation meets no port without a peer (OutPort::Negotiate).
SomebodyIsAsked == ptState # "crashed"

=============================================================================
