----------------------------- MODULE PluginFiles -----------------------------
(***************************************************************************)
(* The plugin loader of the core: a file is a plugin, whose module runs in *)
(* an executor while the loader is suspended, with a time-out; a plugin    *)
(* that is loaded adds its commands to the command line.  Files are        *)
(* created, modified and deleted while loads are under way.                *)
(***************************************************************************)
EXTENDS Naturals, FiniteSets, Sequences

CONSTANTS
    Files,                  \* a file is also the name of its plugin
    CommandsOf,             \* the sets of commands the versions of a file may offer
    LoaderTasks,
    NoVersion,
    MaxLoads                \* bound of the plugins made and of the calls

ASSUME FilesAssumption == MaxLoads \in Nat /\ NoVersion \notin Files

VARIABLES
    loadedPlugins,   \* by file: its instance
    pluginFiles,     \* the files of which plugin_files knows the name
    commands,        \* the command line: by command, the instance that answers it
    offers, made,    \* by instance: the commands it offers; the file it was made from
    cleaned,         \* by instance: how often its cleanup() has succeeded
    loading,         \* by task: the file whose module is being executed
    onDisk, loaderCalls,
    crossed          \* ghost: files that two tasks worked on at a time, or with a failed cleanup()

filesVars == <<loadedPlugins, pluginFiles, commands, offers, made, cleaned, loading, onDisk,
               loaderCalls, crossed>>

FilesInit ==
    /\ loadedPlugins = [f \in {} |-> 0] /\ pluginFiles = {}
    /\ commands = [x \in {} |-> 0]
    /\ offers = <<>> /\ made = <<>> /\ cleaned = <<>>
    /\ loading = [t \in LoaderTasks |-> NoVersion]
    /\ onDisk = Files /\ loaderCalls = 0 /\ crossed = {}

-----------------------------------------------------------------------------
Less(f, xs) == [x \in DOMAIN f \ xs |-> f[x]]

Loaded(f) == f \in DOMAIN loadedPlugins

\* unload_plugin: the commands go first, whoever answers them, then cleanup() runs; if it
\* raises, the plugin stays loaded without its commands.
\* Mutant of Unloads: the commands are left.
UnloadsSilently(f, ok) ==
    /\ commands' = commands
    /\ loadedPlugins' = IF ok THEN Less(loadedPlugins, {f}) ELSE loadedPlugins
    /\ cleaned' = IF ok THEN [cleaned EXCEPT ![loadedPlugins[f]] = @ + 1] ELSE cleaned
Unloads(f, ok) ==
    /\ commands' = Less(commands, offers[loadedPlugins[f]])
    /\ loadedPlugins' = IF ok THEN Less(loadedPlugins, {f}) ELSE loadedPlugins
    /\ cleaned' = IF ok THEN [cleaned EXCEPT ![loadedPlugins[f]] = @ + 1] ELSE cleaned

UnloadsIfLoaded(f) ==
    IF Loaded(f)
    THEN \E ok \in BOOLEAN :
            /\ Unloads(f, ok)
            /\ crossed' = IF ok THEN crossed ELSE crossed \cup {f}
    ELSE UNCHANGED <<commands, loadedPlugins, cleaned, crossed>>

MayStart(t) ==
    /\ loading[t] = NoVersion
    /\ loaderCalls < MaxLoads /\ loaderCalls' = loaderCalls + 1

\* load_plugin_from_file and reload_plugin_from_file: the loaded plugin is unloaded,
\* then the module is executed.
StartLoad(t, f) ==
    /\ MayStart(t) /\ f \in onDisk
    /\ loading' = [loading EXCEPT ![t] = f]
    /\ IF \E o \in LoaderTasks : loading[o] = f
       THEN /\ crossed' = crossed \cup {f}
            /\ IF Loaded(f) THEN \E ok \in BOOLEAN : Unloads(f, ok)
               ELSE UNCHANGED <<commands, loadedPlugins, cleaned>>
       ELSE UnloadsIfLoaded(f)
    /\ UNCHANGED <<pluginFiles, offers, made, onDisk>>

\* The module fails, has no plugin, or takes too long; initialize() raises.
LoadFails(t) ==
    /\ loading[t] # NoVersion
    /\ loading' = [loading EXCEPT ![t] = NoVersion]
    /\ UNCHANGED <<loadedPlugins, pluginFiles, commands, offers, made, cleaned, onDisk, loaderCalls,
                   crossed>>

Filed(f) == pluginFiles \cup {f}

LoadSucceeds(t) ==
    /\ loading[t] # NoVersion
    /\ \E xs \in CommandsOf[loading[t]] :
          LET f == loading[t]
              i == Len(offers) + 1
          IN /\ offers' = Append(offers, xs) /\ made' = Append(made, f)
             /\ cleaned' = Append(cleaned, 0)
             /\ loadedPlugins' = [g \in DOMAIN loadedPlugins \cup {f} |->
                                     IF g = f THEN i ELSE loadedPlugins[g]]
             /\ pluginFiles' = Filed(f)
             /\ commands' = [x \in DOMAIN commands \cup xs |-> IF x \in xs THEN i ELSE commands[x]]
    /\ loading' = [loading EXCEPT ![t] = NoVersion]
    /\ UNCHANGED <<onDisk, loaderCalls, crossed>>

\* unload_plugin, and unload_plugin_from_file when the file is deleted.
Unload(t, f) ==
    /\ MayStart(t) /\ Loaded(f)
    /\ UnloadsIfLoaded(f)
    /\ UNCHANGED <<pluginFiles, offers, made, loading, onDisk>>

FileDeleted(t, f) ==
    /\ MayStart(t) /\ f \in onDisk /\ onDisk' = onDisk \ {f}
    /\ IF f \in pluginFiles /\ Loaded(f)
       THEN \E ok \in BOOLEAN :
               /\ Unloads(f, ok)
               /\ pluginFiles' = IF ok THEN pluginFiles \ {f} ELSE pluginFiles
               /\ crossed' = IF ok /\ \A o \in LoaderTasks : loading[o] # f
                             THEN crossed ELSE crossed \cup {f}
       ELSE /\ crossed' = IF \E o \in LoaderTasks : loading[o] = f THEN crossed \cup {f} ELSE crossed
            /\ UNCHANGED <<pluginFiles, commands, loadedPlugins, cleaned>>
    /\ UNCHANGED <<offers, made, loading>>

FileCreated(f) ==
    /\ f \notin onDisk /\ onDisk' = onDisk \cup {f}
    /\ UNCHANGED <<loadedPlugins, pluginFiles, commands, offers, made, cleaned, loading, loaderCalls,
                   crossed>>

\* unload_all_plugins and stop(): no suspension, and failures are passed over.
UnloadAll(t) ==
    /\ MayStart(t) /\ DOMAIN loadedPlugins # {}
    /\ \E stuck \in SUBSET DOMAIN loadedPlugins :
          /\ commands' = Less(commands, UNION {offers[loadedPlugins[f]] : f \in DOMAIN loadedPlugins})
          /\ loadedPlugins' = Less(loadedPlugins, DOMAIN loadedPlugins \ stuck)
          /\ cleaned' = [i \in DOMAIN cleaned |->
                           IF \E f \in DOMAIN loadedPlugins \ stuck : loadedPlugins[f] = i
                           THEN cleaned[i] + 1 ELSE cleaned[i]]
          /\ crossed' = crossed \cup stuck
    /\ UNCHANGED <<pluginFiles, offers, made, loading, onDisk>>

-----------------------------------------------------------------------------
FilesNext ==
    \/ \E t \in LoaderTasks :
          \/ \E f \in Files : StartLoad(t, f) \/ Unload(t, f) \/ FileDeleted(t, f)
          \/ LoadFails(t) \/ LoadSucceeds(t)
          \/ UnloadAll(t)
    \/ \E f \in Files : FileCreated(f)

FilesSpec == FilesInit /\ [][FilesNext]_filesVars

\* A module may run for ever; the time-out ends the load.
FilesFairness == \A t \in LoaderTasks : WF_filesVars(LoadFails(t))

-----------------------------------------------------------------------------
(* Properties *)

\* The shape of the state; a loaded plugin was made from its file, which plugin_files
\* knows unless the file was worked on by two tasks.
FilesTypeOK ==
    /\ DOMAIN loadedPlugins \subseteq Files /\ pluginFiles \subseteq Files
    /\ \A f \in DOMAIN loadedPlugins : made[loadedPlugins[f]] = f
    /\ DOMAIN loadedPlugins \ crossed \subseteq pluginFiles
    /\ \A x \in DOMAIN commands : x \in offers[commands[x]]

\* What the versions of other files may offer: the last one loaded answers, and takes the command
\* along when it goes.
OfferedByOthers(f) == UNION {UNION CommandsOf[g] : g \in Files \ {f}}

\* The command line offers what the loaded plugins offer and nothing else, also after
\* reloads to a version with other commands, loads that failed or timed out after the old
\* plugin was unloaded, and deletions; only a file that two tasks worked on at a time, or
\* whose cleanup() raised, may have commands left over or missing, and a command missing
\* is one that another file offers, too.
CommandsFollowPlugins ==
    /\ \A f \in DOMAIN loadedPlugins \ crossed :
       \A x \in offers[loadedPlugins[f]] \ OfferedByOthers(f) :
          x \in DOMAIN commands /\ commands[x] = loadedPlugins[f]
    /\ \A x \in DOMAIN commands : \/ made[commands[x]] \in crossed
                                  \/ /\ Loaded(made[commands[x]])
                                     /\ commands[x] = loadedPlugins[made[commands[x]]]

\* A plugin is cleaned up exactly when it is loaded no more, and at most once, unless two
\* tasks worked on its file: then the first of two may be replaced without.
CleanedOnce ==
    \A i \in DOMAIN made :
        /\ cleaned[i] <= 1
        /\ LET live == made[i] \in DOMAIN loadedPlugins /\ loadedPlugins[made[i]] = i
           IN /\ cleaned[i] = 1 => ~live
              /\ cleaned[i] = 0 => live \/ made[i] \in crossed

\* Every load ends.
LoadsEnd == \A t \in LoaderTasks : loading[t] # NoVersion ~> loading[t] = NoVersion

\* Plugins, their files and their commands agree at any time.
FilesInv == FilesTypeOK /\ CommandsFollowPlugins /\ CleanedOnce

=============================================================================
