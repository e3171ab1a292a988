--------------------------- MODULE PluginFramework ---------------------------
(***************************************************************************)
(* The plug-ins: how they are registered, how a demuxer is found for a      *)
(* source, and the wrapper through which a filter calls one.                *)
(*                                                                         *)
(* Part one (plugVars): PluginRegister of the engine and of the inner API,  *)
(* which differ in what they ask of a definition, and the engine's          *)
(* TypeFinder, which lets the demuxers sniff at a source.  Plug-ins are     *)
(* known by type and name; a library holds several.                         *)
(*                                                                         *)
(* Part two (wrapVars): Base, AudioSink and VideoSink of the engine over a  *)
(* plug-in that keeps the states its interface documents.                   *)
(***************************************************************************)
EXTENDS Integers, Sequences, SequencesExt, FiniteSets

CONSTANTS Libraries,   \* plug-in libraries in the directory
          LibraryDefs, \* of each, its definitions: [type, name, hw, fits, caps, ext, rank]
          StaticDefs,  \* definitions that are registered without a library
          SniffSources,   \* sources: [uri, lower, ext, prob]; prob: what each demuxer answers
          MaxFinds,    \* sources that are looked at
          MaxWrapCalls \* calls of a wrapper

ASSUME PluginAssumption == MaxFinds \in Nat /\ MaxWrapCalls \in Nat

VARIABLES plugApi,      \* "engine" or "inner"
          plugRegister, \* registerNames, registerTable, registeredLoaders_
          plugFinder,   \* the TypeFinder and the source it is asked about
          plugMarks     \* whether it was torn down, whether it crashed; sources seen

plugVars == <<plugApi, plugRegister, plugFinder, plugMarks>>

VARIABLES wrapState,  \* pluginState_
          wrapPlugin, \* the state of the plug-in itself
          wrapMarks   \* calls; whether the plug-in's Reset failed; whether a call came out of order

wrapVars == <<wrapState, wrapPlugin, wrapMarks>>

-----------------------------------------------------------------------------
(* PluginRegister.                                                          *)

CodecTypes == {"audio decoder", "video decoder", "audio encoder", "video encoder"}
AllDefs == UNION {ToSet(LibraryDefs[l]) : l \in Libraries} \cup ToSet(StaticDefs)
PluginTypes == {d.type : d \in AllDefs}
PluginNames == {d.name : d \in AllDefs}
NoLoader == "no loader"

\* IsPluginExist.
IsPluginExist(r, type, name) == \E e \in r.table : e.def.type = type /\ e.def.name = name
GetPluginRegInfo(r, type, name) == {e \in r.table : e.def.type = type /\ e.def.name = name}

\* Verification and VersionMatched of the engine; the inner API takes any version.
Accepted(def) == def.fits \/ plugApi = "inner"

\* InitSourceInfo .. InitGenericPlugin of the inner API: a source, a codec and an output sink
\* must say one thing of their input.
SaysInput(def) == def.caps

\* Otherwise they have no info_ there, and AddPlugin does not notice.
HasInfo(def) == plugApi = "engine" \/ SaysInput(def)

\* Of a codec without info_ the inner API then asks the mode: a null pointer is followed.
Crashes(def) == def.type \in CodecTypes /\ ~HasInfo(def)

\* The names of a type: hardware codecs first.
RegisterName(names, def) ==
    IF def.type \in CodecTypes /\ def.hw THEN <<def.name>> \o names ELSE Append(names, def.name)

\* UpdateRegisterTableAndRegisterNames; the loader moves into the first plug-in of a library.
Registered(r, def) ==
    [r EXCEPT !.table = @ \cup {[def |-> def, loader |-> r.loader, info |-> HasInfo(def)]},
              !.names[def.type] = RegisterName(@, def),
              !.loader = NoLoader,
              !.crashed = @ \/ Crashes(def)]

\* AddPlugin: of two plug-ins with one name the first stays.
AddPlugin(r, def) ==
    IF ~Accepted(def) \/ IsPluginExist(r, def.type, def.name) THEN r ELSE Registered(r, def)

RegisterAll(r, defs) == FoldLeft(AddPlugin, r, defs)

EmptyRegister ==
    [names |-> [t \in PluginTypes |-> <<>>], table |-> {}, loader |-> NoLoader, loaders |-> <<>>, crashed |-> FALSE]

NoFinder ==
    [at |-> "idle", uri |-> "none", name |-> "", plugins |-> <<>>, changed |-> TRUE, source |-> "none",
     next |-> 1, best |-> 0, data |-> FALSE, late |-> FALSE, sniffed |-> FALSE]

\* RegisterStaticPlugins.
PlugInit ==
    /\ plugApi \in {"engine", "inner"}
    /\ plugRegister = RegisterAll(EmptyRegister, StaticDefs)
    /\ plugFinder = NoFinder
    /\ plugMarks = [down |-> FALSE, seen |-> 0, gone |-> {}]

\* RegisterPluginsFromPath, a library of the directory: PluginLoader::Create may not open it.
LoadsLibrary(l) ==
    /\ ~plugMarks.down /\ ~plugRegister.crashed
    /\ l \notin ToSet(plugRegister.loaders)
    /\ plugRegister' = [RegisterAll([plugRegister EXCEPT !.loader = l], LibraryDefs[l])
                           EXCEPT !.loader = NoLoader, !.loaders = Append(@, l)]
    /\ UNCHANGED <<plugApi, plugFinder, plugMarks>>

\* RegisterGenericPlugins, as AutoRegisterPlugin does while libraries are loaded.
RegistersGeneric(def) ==
    /\ ~plugMarks.down /\ ~plugRegister.crashed /\ def.type = "generic"
    /\ plugRegister' = AddPlugin(plugRegister, def)
    /\ plugRegister' # plugRegister
    /\ UNCHANGED <<plugApi, plugFinder, plugMarks>>

\* ListPlugins: software first if that is preferred.
ListPlugins(type, preferred) ==
    IF type \in CodecTypes /\ preferred # "hardware"
    THEN Reverse(plugRegister.names[type]) ELSE plugRegister.names[type]

\* DeletePlugin, for every plug-in that has the loader.
EraseRegisteredPluginsByLoader(r, l) ==
    LET gone == {e \in r.table : e.loader = l} IN
    [r EXCEPT !.table = @ \ gone,
              !.names = [t \in PluginTypes |->
                           SelectSeq(@[t], LAMBDA n : ~\E e \in gone : e.def.type = t /\ e.def.name = n)]]

\* UnregisterAllPlugins, one loader after the other: then its library may be unloaded.
UnregistersLoader ==
    /\ plugApi = "engine" /\ plugFinder.at = "idle" /\ plugRegister.loaders # <<>>
    /\ plugMarks' = [plugMarks EXCEPT !.down = TRUE, !.gone = @ \cup {Head(plugRegister.loaders)}]
    /\ plugRegister' = [EraseRegisteredPluginsByLoader(plugRegister, Head(plugRegister.loaders))
                           EXCEPT !.loaders = Tail(@)]
    /\ UNCHANGED <<plugApi, plugFinder>>

\* The destructor clears what is left; the one of the inner API does that alone.
RegisterEnds ==
    /\ plugFinder.at = "idle" /\ (plugApi = "inner" \/ plugRegister.loaders = <<>>)
    /\ plugRegister' = EmptyRegister /\ plugMarks' = [plugMarks EXCEPT !.down = TRUE]
    /\ UNCHANGED <<plugApi, plugFinder>>

-----------------------------------------------------------------------------
(* TypeFinder.                                                              *)

Info(name) == CHOOSE e \in plugRegister.table : e.def.type = "demuxer" /\ e.def.name = name
RankOf(name) == Info(name).def.rank
SupportsExtension(name, ext) == ext # "" /\ ext = Info(name).def.ext

\* GetPlugins: once, for nobody says that the registry has changed.
GetPlugins ==
    IF plugFinder.changed
    THEN SelectSeq(ListPlugins("demuxer", "hardware"), LAMBDA n : Info(n).info) ELSE plugFinder.plugins

\* SortPlugins compares with >=, so that the order of equals is open.
Precedes(a, b, ext) ==
    IF SupportsExtension(a, ext) THEN RankOf(a) > RankOf(b) \/ ~SupportsExtension(b, ext)
    ELSE RankOf(a) > RankOf(b) /\ ~SupportsExtension(b, ext)
Sorted(plugins, ext) ==
    IF ext = "" THEN {plugins}
    ELSE {p \in SetToSeqs(ToSet(plugins)) : \A i, j \in DOMAIN p : i < j => ~Precedes(p[j], p[i], ext)}

\* IsSniffNeeded, on the name in lower case.
IsSniffNeeded(src) == plugFinder.uri # src.lower \/ plugFinder.changed \/ src.uri = ""

\* Init: DemuxerFilter is asked for the type of another source.
FinderInit(src) ==
    /\ plugApi = "engine" /\ ~plugMarks.down /\ plugFinder.at \in {"idle", "found"}
    /\ plugMarks.seen < MaxFinds
    /\ plugMarks' = [plugMarks EXCEPT !.seen = @ + 1]
    /\ \E data \in BOOLEAN :
         IF IsSniffNeeded(src)
         THEN \E p \in Sorted(GetPlugins, src.ext) :
                plugFinder' = [plugFinder EXCEPT
                    !.at = "sniffing", !.uri = src.lower, !.name = "", !.plugins = p, !.changed = FALSE,
                    !.source = src, !.next = 1, !.best = 0, !.data = data, !.late = FALSE, !.sniffed = TRUE]
         ELSE plugFinder' = [plugFinder EXCEPT !.at = "found", !.source = src, !.data = data, !.sniffed = FALSE]
    /\ UNCHANGED <<plugApi, plugRegister>>

\* The data comes that ReadAt waits for.
DataComes ==
    /\ plugFinder.at = "sniffing" /\ ~plugFinder.data
    /\ plugFinder' = [plugFinder EXCEPT !.data = TRUE]
    /\ UNCHANGED <<plugApi, plugRegister, plugMarks>>

\* A faulty SniffMediaType that takes whoever answers last.
TakesLast(prob) == prob > 0

\* SniffMediaType prefers the better answer, the first of two that are alike.
TakesBetter(prob) == prob > plugFinder.best

\* Each demuxer in turn.  It reads through ReadAt, which gives up on the third try that fails,
\* or says OK without data after the fourth: then the sniffer answers 0.
SniffsNext ==
    /\ plugFinder.at = "sniffing" /\ plugFinder.next <= Len(plugFinder.plugins)
    /\ LET name == plugFinder.plugins[plugFinder.next]
           prob == IF plugFinder.data THEN plugFinder.source.prob[name] ELSE 0
           sure == prob > 50 IN
       plugFinder' = [plugFinder EXCEPT
           !.name = IF sure \/ TakesBetter(prob) THEN name ELSE @,
           !.best = IF prob > @ THEN prob ELSE @,
           !.late = @ \/ ~plugFinder.data,
           !.next = IF sure THEN Len(plugFinder.plugins) + 1 ELSE @ + 1]
    /\ UNCHANGED <<plugApi, plugRegister, plugMarks>>

\* GuessMediaType: by the ending of the name.
Guesses ==
    LET able == SelectSeq(plugFinder.plugins, LAMBDA n : SupportsExtension(n, plugFinder.source.ext)) IN
    IF able = <<>> THEN "" ELSE Head(able)

FinderEnds ==
    /\ plugFinder.at = "sniffing" /\ plugFinder.next > Len(plugFinder.plugins)
    /\ plugFinder' = [plugFinder EXCEPT !.at = "found", !.name = IF @ = "" THEN Guesses ELSE @]
    /\ UNCHANGED <<plugApi, plugRegister, plugMarks>>

\* DemuxerFilter has the answer.
FinderLeft ==
    /\ plugFinder.at = "found" /\ plugFinder' = [plugFinder EXCEPT !.at = "idle"]
    /\ UNCHANGED <<plugApi, plugRegister, plugMarks>>

PlugNext ==
    \/ \E l \in Libraries : LoadsLibrary(l)
    \/ \E d \in AllDefs : RegistersGeneric(d)
    \/ UnregistersLoader \/ RegisterEnds
    \/ \E src \in SniffSources : FinderInit(src)
    \/ DataComes \/ SniffsNext \/ FinderEnds \/ FinderLeft

PlugTypeOK ==
    /\ \A e \in plugRegister.table : e.def \in AllDefs /\ e.loader \in Libraries \cup {NoLoader}
    /\ plugFinder.at \in {"idle", "sniffing", "found"} /\ plugFinder.name \in PluginNames \cup {""}

-----------------------------------------------------------------------------
(* Base, AudioSink and VideoSink.                                           *)

WrapCalls == {"Init", "Deinit", "Prepare", "Reset", "Start", "Stop", "Pause", "Resume"}

WrapInit ==
    /\ wrapState = "created" /\ wrapPlugin = "created"
    /\ wrapMarks = [calls |-> 0, resetFailed |-> FALSE, outOfOrder |-> FALSE]

\* What the wrapper refuses with ERROR_WRONG_STATE.
Refused(call) ==
    CASE call = "Init" -> wrapState = "destroyed"
      [] call = "Prepare" -> wrapState \notin {"prepared", "initialized"}
      [] call = "Reset" -> wrapState \in {"running", "paused", "destroyed"}
      [] call = "Start" -> wrapState \notin {"prepared", "running"}
      [] OTHER -> FALSE

\* What it answers itself.
CallAnswered(call) ==
    CASE call = "Init" -> wrapState # "created"
      [] call = "Deinit" -> wrapState = "destroyed"
      [] call = "Prepare" -> wrapState = "prepared"
      [] call = "Reset" -> wrapState \in {"created", "initialized"}
      [] call = "Start" -> wrapState = "running"
      [] call = "Stop" -> wrapState \notin {"running", "paused", "prepared"}
      [] call = "Pause" -> wrapState # "running"
      [] call = "Resume" -> wrapState # "paused"

Leads(call) ==
    CASE call = "Init" -> "initialized" [] call = "Deinit" -> "destroyed" [] call = "Prepare" -> "prepared"
      [] call = "Reset" -> "initialized" [] call = "Start" -> "running" [] call = "Stop" -> "prepared"
      [] call = "Pause" -> "paused" [] call = "Resume" -> "running"

\* The states in which the interface of a plug-in allows each call.
ValidIn(call) ==
    CASE call = "Init" -> {"created"} [] call = "Prepare" -> {"initialized"}
      [] call = "Reset" -> {"prepared", "running", "paused"}
      [] call = "Start" -> {"prepared"}
      [] call = "Stop" -> {"running", "paused", "prepared"}  \* the header: RUNNING only
      [] call = "Pause" -> {"running"} [] call = "Resume" -> {"paused"}
      [] OTHER -> {"created", "initialized", "prepared", "running", "paused"}

\* A call under stateChangeMutex_.  A plug-in that fails stays as it was; the wrapper takes a
\* Reset and a Deinit for done all the same, and Prepare's ERROR_DELAY_READY for success.
WrapperCalls(call, answer) ==
    /\ wrapMarks.calls < MaxWrapCalls
    /\ ~Refused(call) /\ ~CallAnswered(call)
    /\ answer = "delay" => call = "Prepare"
    /\ wrapState' = IF answer # "error" \/ call \in {"Reset", "Deinit"} THEN Leads(call) ELSE wrapState
    /\ wrapPlugin' = IF answer # "error" THEN Leads(call) ELSE wrapPlugin
    /\ wrapMarks' = [calls |-> wrapMarks.calls + 1,
                     resetFailed |-> wrapMarks.resetFailed \/ (answer = "error" /\ call = "Reset"),
                     outOfOrder |-> wrapMarks.outOfOrder \/ wrapPlugin \notin ValidIn(call)]

WrapNext == \E call \in WrapCalls, answer \in {"ok", "error", "delay"} : WrapperCalls(call, answer)

WrapTypeOK ==
    /\ wrapState \in {"created", "initialized", "prepared", "running", "paused", "destroyed"}
    /\ wrapPlugin \in {"created", "initialized", "prepared", "running", "paused", "destroyed"}

-----------------------------------------------------------------------------
(* Properties.                                                             *)

Codecs(hw) == {e.def.name : e \in {x \in plugRegister.table : x.def.type \in CodecTypes /\ x.def.hw = hw}}

\* Whatever was registered and unregistered, in whichever order the directory gave it: each
\* listed plug-in is in the table, once; and no software codec stands before a hardware one
\* unless that was asked for.
ListedIsRegistered ==
    \A t \in PluginTypes :
        /\ ToSet(ListPlugins(t, "hardware")) = {e.def.name : e \in {x \in plugRegister.table : x.def.type = t}}
        /\ \A i, j \in DOMAIN ListPlugins(t, "hardware") :
               i < j => LET a == ListPlugins(t, "hardware")[i]
                            b == ListPlugins(t, "hardware")[j] IN
                        a # b /\ ~(a \in Codecs(FALSE) /\ b \in Codecs(TRUE))

\* A source that was sniffed while its data was there goes to a demuxer that was sure of it,
\* if there is one, and otherwise to the one with the best answer; without any, to one that
\* has the ending.
BestSnifferWins ==
    plugFinder.at = "found" /\ plugFinder.sniffed /\ ~plugFinder.late =>
        LET probs == {plugFinder.source.prob[n] : n \in ToSet(plugFinder.plugins)}
            got == IF plugFinder.name = "" THEN 0 ELSE plugFinder.source.prob[plugFinder.name] IN
        /\ (\E p \in probs : p > 50) => got > 50
        /\ got <= 50 => \A p \in probs : p <= got
        /\ got = 0 /\ plugFinder.name # "" => SupportsExtension(plugFinder.name, plugFinder.source.ext)

\* A plug-in is called only in a state that its interface names for the call, as long as its
\* own Reset has not failed.
CallsComeInOrder == wrapMarks.outOfOrder => wrapMarks.resetFailed

PluginsServe == ListedIsRegistered /\ BestSnifferWins /\ CallsComeInOrder

\* The interface: the framework guarantees the timing of the calls.  Not so after a Reset that
\* failed: the wrapper calls Prepare on a plug-in that is prepared.
TimingIsGuaranteed == ~wrapMarks.outOfOrder

\* What a library registered is gone when its loader is: not so, the loader is kept with the
\* first plug-in of the library only.
UnloadedIsGone ==
    \A l \in plugMarks.gone : ~\E e \in plugRegister.table : e.def \in ToSet(LibraryDefs[l])

\* Each source is sniffed: not so if its name differs from the last one's in case only, or if
\* it is tried again when its data was late.
EachSourceIsSniffed ==
    plugFinder.at = "found" /\ plugFinder.name # "" => plugFinder.source.prob[plugFinder.name] > 0 \/ plugFinder.sniffed

\* A plug-in of the table can be asked for what it is: not so for one of the inner API that
\* says nothing of its input.
RegisteredHasInfo == ~plugRegister.crashed /\ \A e \in plugRegister.table : e.info
=============================================================================
