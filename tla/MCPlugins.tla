------------------------------ MODULE MCPlugins ------------------------------
(***************************************************************************)
(* The plugins for TLC: the discovery's plugins, plugin files, the         *)
(* visualizers and the decorators of calls, one at a time; they share no   *)
(* state.                                                                  *)
(***************************************************************************)
EXTENDS PluginManager, PluginFiles, CallWrappers, VisualizerRegistry

CONSTANTS pa, pb, f1, f2

VARIABLE part

pluginsVars == <<part, pmVars, filesVars, wrapVars, visualizerVars>>

\* pa may be reloaded as a version that needs pb, which makes a cycle.
MCDeclares == (pa :> {{}, {pb}}) @@ (pb :> {{pa}})

\* f1 may be reloaded as a version with another command, which f2 offers, too.
MCCommandsOf == (f1 :> {{"scan"}, {"sweep"}}) @@ (f2 :> {{"list", "sweep"}})

Init ==
    /\ part \in {"manager", "files", "wrappers", "visualizers"}
    /\ PMInit /\ FilesInit /\ WrapInit /\ VisualizersInit
    /\ part # "wrappers" => wrapper = [c \in Wrapped |-> "cached"]
    /\ part # "visualizers" => entries = [n \in Visualizers |-> "fine"]

Next ==
    /\ UNCHANGED part
    /\ \/ part = "manager" /\ PMNext /\ UNCHANGED <<filesVars, wrapVars, visualizerVars>>
       \/ part = "files" /\ FilesNext /\ UNCHANGED <<pmVars, wrapVars, visualizerVars>>
       \/ part = "wrappers" /\ WrapNext /\ UNCHANGED <<pmVars, filesVars, visualizerVars>>
       \/ part = "visualizers" /\ VisualizersNext /\ UNCHANGED <<pmVars, filesVars, wrapVars>>

Spec == Init /\ [][Next]_pluginsVars /\ PMFairness /\ FilesFairness

\* What plugins may rely on over time: dependents are spared, a stop reaches everybody, nobody
\* leaves without a cleanup, and calls and loads end.
PluginPromises ==
    UnloadSparesDependents /\ StopReachesAll /\ OnlyUnloadedLeave /\ PluginCallsEnd /\ LoadsEnd

\* What is called and shown stays consistent: the decorators' books, and the visualizers'.  Parts
\* that do not move stay in their initial states.
CallsInv ==
    CASE part = "wrappers" -> WrapInv
      [] part = "visualizers" -> VisualizerInv
      [] OTHER -> TRUE

=============================================================================
