----------------------------- MODULE MCPersistence -----------------------------
(***************************************************************************)
(* The parts of the persistence layer for TLC, one at a time: the manager  *)
(* starts and stops a health checker (which DatabaseManager has as the set *)
(* of engines watched), and the others share no state.                     *)
(***************************************************************************)
EXTENDS HealthChecker, ConnectionPool, DatabaseManager, GroupHierarchy

VARIABLE part

persistenceVars == <<part, hcVars, poolVars, dbmVars, hierarchyVars>>

Init ==
    /\ part \in {"health", "pool", "manager", "hierarchy"}
    /\ HealthInit /\ PoolInit /\ ManagerInit /\ HierarchyInit
    /\ part # "hierarchy" => parent = [n \in Nodes |-> NoParent]

Next ==
    /\ UNCHANGED part
    /\ \/ part = "health" /\ HealthNext /\ UNCHANGED <<poolVars, dbmVars, hierarchyVars>>
       \/ part = "pool" /\ PoolNext /\ UNCHANGED <<hcVars, dbmVars, hierarchyVars>>
       \/ part = "manager" /\ ManagerNext /\ UNCHANGED <<hcVars, poolVars, hierarchyVars>>
       \/ part = "hierarchy" /\ HierarchyNext /\ UNCHANGED <<hcVars, poolVars, dbmVars>>

Spec ==
    /\ Init /\ [][Next]_persistenceVars
    /\ HealthFairness /\ PoolFairness /\ ManagerFairness /\ HierarchyFairness

\* What the connections come to: stopped loops end, a drained pool is idle, a pool comes to
\* rest, shutdowns end, and a walk up the groups ends.
PersistencePromises ==
    /\ StoppedLoopsEnd /\ DrainedIsIdle /\ PoolComesToRest /\ ShutdownsEnd
    /\ WalksEnd

=============================================================================
