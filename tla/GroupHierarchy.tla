---------------------------- MODULE GroupHierarchy ----------------------------
(***************************************************************************)
(* Groups within groups: a session walks from a group up to its root while *)
(* others change the parents.                                              *)
(***************************************************************************)
EXTENDS Naturals, FiniteSets, Sequences

CONSTANTS Nodes, NoParent

ASSUME HierarchyAssumption == NoParent \notin Nodes

VARIABLES
    parent,          \* of each group, as it is stored
    path,            \* the groups of the walk so far
    deleted,         \* the groups that are marked as deleted
    held,            \* the parents of the groups the session has loaded
    moved            \* history: a parent has changed since the walk began

hierarchyVars == <<parent, deleted, path, held, moved>>

\* No group is above itself.  Nothing in the code refuses such a parent; those who set parents
\* are taken not to close a circle.
Acyclic(p) == \A S \in (SUBSET Nodes) \ {{}} : \E g \in S : p[g] \notin S

HierarchyInit ==
    /\ parent \in {p \in [Nodes -> Nodes \cup {NoParent}] : Acyclic(p)}
    /\ deleted = {} /\ path = <<>> /\ held = <<>> /\ moved = FALSE

SetParent(g, p) ==
    /\ parent[g] # p /\ Acyclic([parent EXCEPT ![g] = p])
    /\ parent' = [parent EXCEPT ![g] = p]
    /\ moved' = (path # <<>>)
    /\ UNCHANGED <<deleted, path, held>>

\* delete() of a group leaves its row, and those of the groups in it.
Delete(g) ==
    /\ g \notin deleted
    /\ deleted' = deleted \cup {g}
    /\ UNCHANGED <<parent, path, held, moved>>

\* get() in the walk's session: a group it holds already keeps the parent it was loaded with.
Loaded(g) == [h \in DOMAIN held \cup {g} |-> IF h \in DOMAIN held THEN held[h] ELSE parent[h]]

\* The parent of the group the walk has come to.
ParentOfLast == held[path[Len(path)]]

WalkBegins(g) ==
    /\ path = <<>> /\ g \notin deleted
    /\ path' = <<g>> /\ held' = Loaded(g) /\ moved' = FALSE
    /\ UNCHANGED <<parent, deleted>>

\* A walk of twice as many steps as there are groups goes round for good.
WalkGoesOn ==
    /\ path # <<>> /\ Len(path) <= 2 * Cardinality(Nodes)
    /\ ParentOfLast \notin deleted \cup {NoParent}
    /\ path' = Append(path, ParentOfLast) /\ held' = Loaded(ParentOfLast)
    /\ UNCHANGED <<parent, deleted, moved>>

\* At a root, or below a group that is deleted.
WalkEnds ==
    /\ path # <<>> /\ ParentOfLast \in deleted \cup {NoParent}
    /\ path' = <<>> /\ held' = <<>>
    /\ UNCHANGED <<parent, deleted, moved>>

HierarchyNext ==
    \/ \E g \in Nodes, p \in Nodes \cup {NoParent} : SetParent(g, p)
    \/ \E g \in Nodes : Delete(g) \/ WalkBegins(g)
    \/ WalkGoesOn \/ WalkEnds

\* A walk is not left half-way.
HierarchyFairness == WF_hierarchyVars(WalkGoesOn \/ WalkEnds)

-----------------------------------------------------------------------------
(* Properties *)

\* A walk ends unless a parent changes under it: then the parents it holds and those it loads
\* may make a circle, where the stored ones never do, and it goes round for good.
WalksEnd == (path # <<>>) ~> (path = <<>> \/ moved)

=============================================================================
