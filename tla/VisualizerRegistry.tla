--------------------------- MODULE VisualizerRegistry ---------------------------
(***************************************************************************)
(* What can be drawn: the plugins that the visualisation engine finds when *)
(* it is initialised, and the registry it puts them in, the only one of    *)
(* the process, where others register and unregister visualizers, too,     *)
(* each under a name, in a category and with aliases.                      *)
(***************************************************************************)
EXTENDS Naturals, Sequences, FiniteSets, SequencesExt

CONSTANTS
    Visualizers,    \* names, of plugins and others
    Aliases,
    Categories, NoCategory, NoVisualizer,
    MaxRegistrations    \* bound: changes of the registry and of entry points in a behaviour

ASSUME VisualizerAssumption == NoCategory \notin Categories /\ NoVisualizer \notin Visualizers /\ MaxRegistrations \in Nat

VARIABLES
    entries,        \* the environment: what loading each entry point gives
    discovered, described, loadErrors,  \* of the plugin manager
    engineReady,    \* the engine is initialised
    metadata,       \* what each registered name was registered with
    aliasOf,        \* the name each alias stands for
    inCategory,     \* the names in each category, in their order
    asked,          \* history: the name each alias was last asked for
    registrations

managerVars == <<entries, discovered, described, loadErrors, engineReady>>
registryVars == <<metadata, aliasOf, inCategory, asked>>
visualizerVars == <<managerVars, registryVars, registrations>>

\* A plugin without a docstring can be used, and fails while it is described.
EntryPoints == {"fine", "undocumented", "invalid", "broken"}

VisualizersInit ==
    /\ entries \in [Visualizers -> {"fine", "undocumented"}]
    /\ discovered = {} /\ described = {} /\ loadErrors = {} /\ engineReady = FALSE
    /\ metadata = <<>> /\ aliasOf = <<>>
    /\ inCategory = [c \in Categories |-> <<>>]
    /\ asked = [a \in Aliases |-> NoVisualizer]
    /\ registrations = 0

-----------------------------------------------------------------------------
(* The registry *)

Named(f, n, x) == [m \in DOMAIN f \cup {n} |-> IF m = n THEN x ELSE f[m]]
Without(f, names) == [m \in DOMAIN f \ names |-> f[m]]

\* A registration replaces an earlier one of its name, but leaves its category and its aliases.
Registered(m, n, c, as) == Named(m, n, [category |-> c, aliases |-> as])

Register(n, c, as) ==
    /\ metadata' = Registered(metadata, n, c, as)
    /\ inCategory' = IF c \in Categories /\ n \notin ToSet(inCategory[c])
                     THEN [inCategory EXCEPT ![c] = Append(@, n)] ELSE inCategory
    /\ aliasOf' = [a \in DOMAIN aliasOf \cup as |-> IF a \in as THEN n ELSE aliasOf[a]]
    /\ asked' = [a \in Aliases |-> IF a \in as THEN n ELSE asked[a]]

RegisterVisualizer(n, c, as) ==
    /\ registrations < MaxRegistrations /\ registrations' = registrations + 1
    /\ Register(n, c, as)
    /\ UNCHANGED managerVars

\* A name leaves the category and the aliases of its last registration; an alias that another name
\* has taken over stays with that.
Unregister(n) ==
    LET m == metadata[n] IN
    /\ registrations < MaxRegistrations /\ registrations' = registrations + 1
    /\ metadata' = Without(metadata, {n})
    /\ inCategory' = IF m.category \in Categories
                     THEN [inCategory EXCEPT ![m.category] = RemoveFirst(@, n)]
                     ELSE inCategory
    /\ aliasOf' = Without(aliasOf, {a \in m.aliases \cap DOMAIN aliasOf : aliasOf[a] = n})
    /\ UNCHANGED <<managerVars, asked>>

Clear ==
    /\ metadata # <<>>
    /\ metadata' = <<>> /\ aliasOf' = <<>> /\ inCategory' = [c \in Categories |-> <<>>]
    /\ UNCHANGED <<managerVars, asked, registrations>>

-----------------------------------------------------------------------------
(* The plugins.  The built-in ones are never found: the import of their modules fails. *)

Usable(n) == entries[n] \in {"fine", "undocumented"}

Discover ==
    /\ discovered' = {n \in Visualizers : Usable(n)}
    /\ described' = described \cup {n \in Visualizers : entries[n] = "fine"}
    /\ loadErrors' = loadErrors \cup {n \in Visualizers : entries[n] \in {"undocumented", "broken"}}
    /\ UNCHANGED entries

\* The engine's plugins are registered without a category, whatever was under their names.
InitializeEngine ==
    /\ ~engineReady /\ engineReady' = TRUE
    /\ Discover
    /\ metadata' = [n \in DOMAIN metadata \cup discovered' |->
                      IF n \in discovered' THEN [category |-> NoCategory, aliases |-> {}] ELSE metadata[n]]
    /\ UNCHANGED <<aliasOf, inCategory, asked, registrations>>

DiscoverAgain ==
    /\ engineReady
    /\ Discover
    /\ UNCHANGED <<engineReady, registryVars, registrations>>

\* A plugin that cannot be used after it was reloaded leaves the one that was there.
ReloadVisualizer(n) ==
    /\ n \in described
    /\ discovered' = IF Usable(n) THEN discovered \cup {n} ELSE discovered
    /\ UNCHANGED <<entries, described, loadErrors, engineReady, registryVars, registrations>>

EntryChanges(n) ==
    /\ registrations < MaxRegistrations /\ registrations' = registrations + 1
    /\ \E e \in EntryPoints \ {entries[n]} : entries' = [entries EXCEPT ![n] = e]
    /\ UNCHANGED <<discovered, described, loadErrors, engineReady, registryVars>>

VisualizersNext ==
    \/ \E n \in Visualizers, c \in Categories \cup {NoCategory}, as \in SUBSET Aliases :
           RegisterVisualizer(n, c, as)
    \/ \E n \in DOMAIN metadata : Unregister(n)
    \/ Clear \/ InitializeEngine \/ DiscoverAgain
    \/ \E n \in Visualizers : ReloadVisualizer(n) \/ EntryChanges(n)

-----------------------------------------------------------------------------
(* Properties *)

\* A visualizer is listed in the category it was last registered in, and nowhere twice.
ListedInCategory ==
    /\ \A n \in DOMAIN metadata :
           metadata[n].category \in Categories => n \in ToSet(inCategory[metadata[n].category])
    /\ \A c \in Categories : IsInjective(inCategory[c])

\* An alias finds the visualizer that asked for it last, as long as that has it, whatever others that
\* had it before do.
AliasFindsItsOwn ==
    \A n \in DOMAIN metadata : \A a \in metadata[n].aliases :
        asked[a] = n => a \in DOMAIN aliasOf /\ aliasOf[a] = n

\* Somebody who looks for a plugin that is offered finds its description or its error.
OfferedIsExplained == discovered \subseteq described \cup loadErrors

VisualizerInv == ListedInCategory /\ AliasFindsItsOwn /\ OfferedIsExplained

=============================================================================
