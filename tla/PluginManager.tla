---------------------------- MODULE PluginManager ----------------------------
(***************************************************************************)
(* The plugin manager of discovery: the registry of classes and instances, *)
(* the life cycle of an instance, loading in the order of dependencies,    *)
(* unloading, reloading and stopping.                                      *)
(* A call suspends in the initialize() and the cleanup() of a plugin, and  *)
(* in the hooks between two plugins of a batch.  The locks of the registry *)
(* and of a plugin are held across no suspension.                          *)
(***************************************************************************)
EXTENDS Naturals, FiniteSets, Sequences, SequencesExt

CONSTANTS
    PluginNames, Declares, \* the sets of dependencies the versions of a plugin declare
    PluginCallers,
    OrderNames,            \* the names on which the order of loading is checked
    NoPlugin,
    MaxInstances,          \* bound of the instances made
    MaxPluginCalls         \* bound of the calls

ASSUME PluginAssumption ==
    /\ Declares \in [PluginNames -> SUBSET SUBSET PluginNames]
    /\ MaxInstances \in Nat /\ NoPlugin \notin Nat
    /\ IsFiniteSet(PluginNames) /\ PluginNames # {} /\ IsFiniteSet(OrderNames)

VARIABLES
    dependencies,  \* by registered name, as its newest version declares them
    dependents,    \* by name: who ever declared it as a dependency
    plugins,       \* by name: its instance
    status, nameOf,\* by instance: an instance is the number of its creation
    call,          \* by caller
    pluginCalls,   \* the calls made
    refused,       \* ghost: by name, stop() found an active dependent, or cleanup() failed
    contested      \* ghost: names that two calls worked on at a time

pmVars == <<dependencies, dependents, plugins, status, nameOf, call, pluginCalls, refused, contested>>

\* at: idle, init or cleanup (of instance inst), next (of the batch todo)
NoCall == [op |-> "none", at |-> "idle", inst |-> NoPlugin, todo |-> <<>>, batch |-> <<>>]

PMInit ==
    /\ dependencies = [n \in {} |-> {}] /\ dependents = [n \in PluginNames |-> {}]
    /\ plugins = [n \in PluginNames |-> NoPlugin]
    /\ status = <<>> /\ nameOf = <<>>
    /\ call = [c \in PluginCallers |-> NoCall]
    /\ pluginCalls = 0 /\ refused = {} /\ contested = {}

-----------------------------------------------------------------------------
(* PluginRegistry *)

\* What earlier versions declared is not taken back from the dependents.
DependentsWith(n, declared) ==
    [d \in PluginNames |-> IF d \in declared THEN dependents[d] \cup {n} ELSE dependents[d]]

RegisterClass(n, declared) ==
    /\ dependencies' = [m \in DOMAIN dependencies \cup {n} |->
                           IF m = n THEN declared ELSE dependencies[m]]
    /\ dependents' = DependentsWith(n, declared)

\* discover_plugins finds a class: its version declares these dependencies.
DiscoverPlugin(n, declared) ==
    /\ declared \in Declares[n]
    /\ RegisterClass(n, declared)
    /\ UNCHANGED <<plugins, status, nameOf, call, pluginCalls, refused, contested>>

\* An order under way, and a visit: of a name, below these names, with the order so far.
Orders(names) == [order : Seq(names), cyclic : BOOLEAN]
Visits(names) == [name : names, above : SUBSET names, state : Orders(names)]

\* Mutant of Visit: names are put down before their dependencies.
VisitFirst(names, deps) ==
    LET visit[v \in Visits(names)] ==
            IF v.name \in v.above THEN [v.state EXCEPT !.cyclic = TRUE]
            ELSE IF v.state.cyclic \/ v.name \in ToSet(v.state.order) THEN v.state
            ELSE FoldSet(LAMBDA d, s : visit[[name |-> d, above |-> v.above \cup {v.name}, state |-> s]],
                         [v.state EXCEPT !.order = Append(@, v.name)], deps[v.name] \cap names)
    IN visit
\* resolve_load_order: depth-first; a name met again below itself raises.
Visit(names, deps) ==
    LET visit[v \in Visits(names)] ==
            IF v.name \in v.above THEN [v.state EXCEPT !.cyclic = TRUE]
            ELSE IF v.state.cyclic \/ v.name \in ToSet(v.state.order) THEN v.state
            ELSE LET s == FoldSet(LAMBDA d, acc : visit[[name |-> d, above |-> v.above \cup {v.name}, state |-> acc]],
                                  v.state, deps[v.name] \cap names)
                 IN IF s.cyclic THEN s ELSE [s EXCEPT !.order = Append(@, v.name)]
    IN visit

LoadOrder(names, deps) ==
    FoldLeft(LAMBDA s, n : Visit(ToSet(names), deps)[[name |-> n, above |-> {}, state |-> s]],
             [order |-> <<>>, cyclic |-> FALSE], names)

DependsOn == [n \in PluginNames |-> IF n \in DOMAIN dependencies THEN dependencies[n] ELSE {}]

-----------------------------------------------------------------------------
(* The life cycle of an instance *)

SetStatus(i, s) == status' = [status EXCEPT ![i] = s]

\* The names a caller works on, and what becomes contested when c begins on n.
WorksOn(c) == ToSet(call[c].batch)
Contest(c, names) ==
    contested' = contested \cup {n \in names : \E o \in PluginCallers \ {c} : n \in WorksOn(o)}

\* activate() and deactivate() by the application.
Activate(n) ==
    /\ plugins[n] # NoPlugin /\ status[plugins[n]] = "loaded"
    /\ SetStatus(plugins[n], "active")
    /\ UNCHANGED <<dependencies, dependents, plugins, nameOf, call, pluginCalls, refused, contested>>

Deactivate(n) ==
    /\ plugins[n] # NoPlugin /\ status[plugins[n]] = "active"
    /\ SetStatus(plugins[n], "inactive")
    /\ UNCHANGED <<dependencies, dependents, plugins, nameOf, call, pluginCalls, refused, contested>>

\* A call is over, or goes on to the next name of its batch.
Goes(c, todo) ==
    call' = [call EXCEPT ![c] = IF todo = <<>> THEN NoCall
                                ELSE [@ EXCEPT !.at = "next", !.inst = NoPlugin, !.todo = todo]]

\* load() begins: the configuration may be invalid, which ends the load.
BeginLoad(c, i, record, todo) ==
    \/ /\ SetStatus(i, "loading")
       /\ call' = [call EXCEPT ![c] = [record EXCEPT !.at = "init", !.inst = i, !.todo = todo]]
    \/ SetStatus(i, "error") /\ Goes(c, todo)

\* create_plugin_instance and load(): an older instance is replaced, not unloaded.
CreateAndLoad(c, n, record, todo) ==
    /\ n \in DOMAIN dependencies /\ Len(status) < MaxInstances
    /\ LET i == Len(status) + 1
       IN /\ plugins' = [plugins EXCEPT ![n] = i]
          /\ nameOf' = Append(nameOf, n)
          /\ \/ /\ status' = Append(status, "loading")
                /\ call' = [call EXCEPT ![c] = [record EXCEPT !.at = "init", !.inst = i, !.todo = todo]]
             \/ status' = Append(status, "error") /\ Goes(c, todo)

\* initialize() ends; a reload goes on to activate().
InitEnds(c) ==
    /\ call[c].at = "init"
    /\ \/ SetStatus(call[c].inst, IF call[c].op = "reload" THEN "active" ELSE "loaded")
       \/ SetStatus(call[c].inst, "error")
    /\ Goes(c, call[c].todo)
    /\ UNCHANGED <<dependencies, dependents, plugins, nameOf, pluginCalls, refused, contested>>

\* unload_plugin looks at the dependents before it suspends in cleanup().
ActiveDependents(n) == {d \in dependents[n] : plugins[d] # NoPlugin /\ status[plugins[d]] = "active"}

\* Mutant of MayUnload: the dependents are not looked at.
MayUnloadAny(n) == TRUE
MayUnload(n) == ActiveDependents(n) = {}

BeginUnload(c, n, record, todo) ==
    /\ plugins[n] # NoPlugin /\ MayUnload(n)
    /\ SetStatus(plugins[n], "unloading")
    /\ call' = [call EXCEPT ![c] = [record EXCEPT !.at = "cleanup", !.inst = plugins[n], !.todo = todo]]

\* cleanup() succeeds.  unload_plugin removes what is registered under the name by
\* now; a reload loads the instance again.
CleanupEnds(c) ==
    /\ call[c].at = "cleanup"
    /\ LET i == call[c].inst IN
       IF call[c].op = "reload"
       THEN BeginLoad(c, i, call[c], <<>>) /\ UNCHANGED plugins
       ELSE /\ SetStatus(i, "unloaded")
            /\ plugins' = [plugins EXCEPT ![nameOf[i]] = NoPlugin]
            /\ Goes(c, call[c].todo)
    /\ UNCHANGED <<dependencies, dependents, nameOf, pluginCalls, refused, contested>>

CleanupFails(c) ==
    /\ call[c].at = "cleanup"
    /\ SetStatus(call[c].inst, "error")
    /\ Goes(c, call[c].todo)
    /\ refused' = refused \cup {nameOf[call[c].inst]}
    /\ UNCHANGED <<dependencies, dependents, plugins, nameOf, pluginCalls, contested>>

-----------------------------------------------------------------------------
(* The calls of the manager *)

MayCall(c) == call[c].at = "idle" /\ pluginCalls < MaxPluginCalls /\ pluginCalls' = pluginCalls + 1

Called(op, batch) == [NoCall EXCEPT !.op = op, !.batch = batch]

LoadPlugin(c, n) ==
    /\ MayCall(c) /\ Contest(c, {n})
    /\ CreateAndLoad(c, n, Called("load", <<n>>), <<>>)
    /\ UNCHANGED <<dependencies, dependents, refused>>

\* load_plugins: a cycle refuses the batch before anything is loaded.
LoadPlugins(c, names) ==
    /\ MayCall(c) /\ Contest(c, ToSet(names))
    /\ LET result == LoadOrder(names, DependsOn)
       IN /\ ~result.cyclic
          /\ call' = [call EXCEPT ![c] = [Called("load", result.order) EXCEPT
                                             !.at = "next", !.todo = result.order]]
    /\ UNCHANGED <<dependencies, dependents, plugins, status, nameOf, refused>>

UnloadPlugin(c, n) ==
    /\ MayCall(c) /\ Contest(c, {n})
    /\ BeginUnload(c, n, Called("unload", <<n>>), <<>>)
    /\ UNCHANGED <<dependencies, dependents, plugins, nameOf, refused>>

\* reload() of an instance that is neither loaded nor inactive does not clean it up.
BeginReload(c, n) ==
    /\ plugins[n] # NoPlugin /\ Contest(c, {n})
    /\ LET i == plugins[n] IN
       IF status[i] \in {"loaded", "active", "inactive"}
       THEN /\ SetStatus(i, "unloading")
            /\ call' = [call EXCEPT ![c] = [Called("reload", <<n>>) EXCEPT !.at = "cleanup", !.inst = i]]
       ELSE BeginLoad(c, i, Called("reload", <<n>>), <<>>)
    /\ UNCHANGED <<plugins, nameOf, refused>>

ReloadPlugin(c, n) == MayCall(c) /\ BeginReload(c, n) /\ UNCHANGED <<dependencies, dependents>>

\* reload_plugin_file: the class is registered anew, and the old instance reloaded.
ReloadPluginFile(c, n, declared) ==
    /\ MayCall(c) /\ n \in DOMAIN dependencies /\ declared \in Declares[n]
    /\ RegisterClass(n, declared)
    /\ BeginReload(c, n)

\* stop(): the plugins of now, in the order of the dict.
StopManager(c) ==
    /\ MayCall(c)
    /\ LET names == {n \in PluginNames : plugins[n] # NoPlugin}
       IN /\ names # {} /\ Contest(c, names)
          /\ \E order \in SetToSeqs(names) :
                call' = [call EXCEPT ![c] = [Called("stop", order) EXCEPT !.at = "next", !.todo = order]]
    /\ refused' = {}
    /\ UNCHANGED <<dependencies, dependents, plugins, status, nameOf>>

PassOver(c) == Goes(c, Tail(call[c].todo))

\* The next name of a batch; one that fails at once is passed over.
NextOfBatch(c) ==
    /\ call[c].at = "next"
    /\ LET n == Head(call[c].todo)
           todo == Tail(call[c].todo)
       IN \/ /\ call[c].op = "load"
             /\ CreateAndLoad(c, n, call[c], todo) /\ UNCHANGED refused
          \/ /\ call[c].op = "load" /\ (n \notin DOMAIN dependencies \/ Len(status) = MaxInstances)
             /\ PassOver(c) /\ UNCHANGED <<plugins, status, nameOf, refused>>
          \/ /\ call[c].op = "stop" /\ BeginUnload(c, n, call[c], todo)
             /\ UNCHANGED <<plugins, nameOf, refused>>
          \/ /\ call[c].op = "stop" /\ (plugins[n] = NoPlugin \/ ~MayUnload(n))
             /\ PassOver(c)
             /\ refused' = IF plugins[n] = NoPlugin THEN refused ELSE refused \cup {n}
             /\ UNCHANGED <<plugins, status, nameOf>>
    /\ UNCHANGED <<dependencies, dependents, pluginCalls, contested>>

-----------------------------------------------------------------------------
PluginStep(c) == InitEnds(c) \/ CleanupEnds(c) \/ CleanupFails(c) \/ NextOfBatch(c)

PMNext ==
    \/ \E n \in PluginNames :
          \/ \E declared \in Declares[n] : DiscoverPlugin(n, declared)
          \/ Activate(n) \/ Deactivate(n)
    \/ \E c \in PluginCallers :
          \/ \E n \in PluginNames :
                \/ LoadPlugin(c, n) \/ UnloadPlugin(c, n) \/ ReloadPlugin(c, n)
                \/ \E declared \in Declares[n] : ReloadPluginFile(c, n, declared)
          \/ \E names \in SetToSeqs(PluginNames) : LoadPlugins(c, names)
          \/ StopManager(c)
          \/ PluginStep(c)

PMSpec == PMInit /\ [][PMNext]_pmVars

\* initialize(), cleanup() and hooks end.
PMFairness == \A c \in PluginCallers : WF_pmVars(PluginStep(c))

-----------------------------------------------------------------------------
(* Properties *)

\* The shape of the state; the instance under a name is one of that name.
PMTypeOK ==
    /\ DOMAIN dependencies \subseteq PluginNames
    /\ DOMAIN nameOf = DOMAIN status
    /\ \A n \in PluginNames : plugins[n] = NoPlugin \/ nameOf[plugins[n]] = n
    /\ \A c \in PluginCallers :
          /\ call[c].at \in {"idle", "init", "cleanup", "next"}
          /\ call[c].at \in {"init", "cleanup"} => call[c].inst \in DOMAIN status
          /\ call[c].at = "next" => call[c].todo # <<>>

\* Whatever depends on whatever, a batch is loaded dependencies first: in an order of the
\* names asked for in which no name comes before one it depends on, however indirectly
\* the names asked for make it so; and a batch is refused only if it has no such order.
\* (This is about any registry: it is enough to check it where a first batch begins.)
BatchInOrder ==
    status = <<>> /\ pluginCalls = 1 =>
    \A deps \in [OrderNames -> SUBSET OrderNames], names \in SetToSeqs(OrderNames) :
        LET result == LoadOrder(names, deps)
            Right(order) == \A i, j \in DOMAIN order : i <= j => order[j] \notin deps[order[i]]
        IN IF result.cyclic THEN ~\E order \in SetToSeqs(OrderNames) : Right(order)
           ELSE result.order \in SetToSeqs(OrderNames) /\ Right(result.order)

\* unload_plugin and stop do not take a plugin away that an active one needs: while an
\* instance is cleaned up to be unloaded, whoever declares it as a dependency has been
\* activated since the cleanup began, or declared it since, if it is active.
UnloadSparesDependents ==
    [][\A c \in PluginCallers :
          call[c].at # "cleanup" /\ call'[c].at = "cleanup" /\ call'[c].op # "reload" =>
             \A d \in DOMAIN dependencies :
                nameOf[call'[c].inst] \in dependencies[d] /\ plugins[d] # NoPlugin
                   => status[plugins[d]] # "active"]_pmVars

\* When stop() has returned, the plugins it found are gone, except those with an active
\* dependent at their turn, those whose cleanup failed, and those that another call was
\* working on: one that fails does not keep the others.
StopReachesAll ==
    [][\A c \in PluginCallers :
          call[c].op = "stop" /\ call'[c].op # "stop" =>
             \A n \in ToSet(call[c].batch) \ (contested \cup refused') : plugins'[n] = NoPlugin]_pmVars

\* A plugin leaves the registry only when its own cleanup succeeded, unless calls for the
\* name overlap: then the instance of another call may be removed.
OnlyUnloadedLeave ==
    [][\A n \in PluginNames \ contested :
          plugins[n] # NoPlugin /\ plugins'[n] = NoPlugin => status'[plugins[n]] = "unloaded"]_pmVars

\* Every call ends.
PluginCallsEnd == \A c \in PluginCallers : call[c].at # "idle" ~> call[c].at = "idle"

\* The registry is consistent, and the order computed for a batch respects the dependencies.
PMInv == PMTypeOK /\ BatchInOrder

=============================================================================
