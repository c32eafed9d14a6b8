------------------------------- MODULE MCStores -------------------------------
(***************************************************************************)
(* What is stored, shown and logged, for TLC: the device store, devices'   *)
(* rows, the queries for them and their health, the rows of alerts and of  *)
(* groups, the schema under its migrations, the checks of schemas and      *)
(* data, a table saved to a file, aggregates in memory, the store of       *)
(* secrets, the log and a dashboard, one at a time; they share no state.   *)
(***************************************************************************)
EXTENDS DeviceStore, Migrations, AlertRows, DeviceGroups, Dashboard,
        DeviceViews, DeviceQueries, DatabaseChecks,
        CoreServices, MemoryStore

CONSTANTS d1, d2, s1, s2, a1, a2

VARIABLE part

recordVars == <<migVars, tableVars, alertRowVars, groupVars>>
checkVars == <<deviceRowVars, queryVars, schemaVars, checkedVars, healthVars>>
coreVars == <<secretVars, logVars, memoryVars>>
storesVars == <<part, vars, recordVars, checkVars, dashVars, coreVars>>

\* Columns that differ in what one checker and the other look at, and in what both do.
PlainColumn == [type |-> "int", nullable |-> FALSE, default |-> "none", primary |-> FALSE]
TheShapes ==
    {PlainColumn, [PlainColumn EXCEPT !.primary = TRUE, !.default = "0"], [PlainColumn EXCEPT !.nullable = TRUE]}

\* The schemas differ in a table and in a column; Alembic's table is in neither.
TheSchemas == {{<<1, 1>>, <<2, 1>>}, {<<1, 1>>, <<1, 2>>}}
AlembicsColumn == <<0, 0>>

\* In the order in which loading asks for them.
TwoSecrets == <<1, 2>>

Init ==
    /\ StoreInit /\ MigrationsInit /\ TableInit /\ AlertRowsInit /\ GroupsInit /\ DashboardInit
    /\ DeviceRowsInit /\ QueriesInit /\ SchemasInit /\ DataInit /\ DeviceHealthInit
    /\ SecretsInit /\ LogInit /\ MemoryInit
    /\ part \in {"devices", "migrations", "table", "alert", "groups", "dashboard",
                "rows", "queries", "schemas", "data", "secrets", "log", "memory", "health"}
    /\ part # "migrations" => models = {<<1, 1>>, <<2, 1>>}
    /\ part # "groups" => online = {}
    /\ part # "health" => lifeStatus = "active"

\* Bound: tables that are created or dropped by themselves are followed for the first second.
DriftBound == drifted' => second' = 0

NextRecord ==
    \/ part = "migrations" /\ MigrationsNext /\ DriftBound /\ UNCHANGED <<tableVars, alertRowVars, groupVars>>
    \/ part = "table" /\ TableNext /\ UNCHANGED <<migVars, alertRowVars, groupVars>>
    \/ part = "alert" /\ AlertRowsNext /\ UNCHANGED <<migVars, tableVars, groupVars>>
    \/ part = "groups" /\ GroupsNext /\ UNCHANGED <<migVars, tableVars, alertRowVars>>

NextCheck ==
    \/ part = "rows" /\ DeviceRowsNext /\ UNCHANGED <<queryVars, schemaVars, checkedVars, healthVars>>
    \/ part = "queries" /\ QueriesNext /\ UNCHANGED <<deviceRowVars, schemaVars, checkedVars, healthVars>>
    \/ part = "schemas" /\ SchemasNext /\ UNCHANGED <<deviceRowVars, queryVars, checkedVars, healthVars>>
    \/ part = "data" /\ DataNext /\ UNCHANGED <<deviceRowVars, queryVars, schemaVars, healthVars>>
    \/ part = "health" /\ DeviceHealthNext /\ UNCHANGED <<deviceRowVars, queryVars, schemaVars, checkedVars>>

NextCore ==
    \/ part = "secrets" /\ SecretsNext /\ UNCHANGED <<logVars, memoryVars>>
    \/ part = "log" /\ LogNext /\ UNCHANGED <<secretVars, memoryVars>>
    \/ part = "memory" /\ MemoryNext /\ UNCHANGED <<secretVars, logVars>>

Next ==
    /\ UNCHANGED part
    /\ \/ part = "devices" /\ StoreNext /\ UNCHANGED <<recordVars, checkVars, dashVars, coreVars>>
       \/ part = "dashboard" /\ DashboardNext /\ UNCHANGED <<vars, recordVars, checkVars, coreVars>>
       \/ NextRecord /\ UNCHANGED <<vars, checkVars, dashVars, coreVars>>
       \/ NextCheck /\ UNCHANGED <<vars, recordVars, dashVars, coreVars>>
       \/ NextCore /\ UNCHANGED <<vars, recordVars, checkVars, dashVars>>

Spec == Init /\ [][Next]_storesVars

\* The parts are given the model values of serial numbers, of devices, and of sessions.
Symmetry == Permutations(AlertSessions) \cup Permutations(Devices) \cup Permutations(Serials)

\* What is stored stays consistent: the events of devices, also in memory, an alert's row, the
\* counts of groups, the schema with its revision, a table restored from a file, a device's
\* location and health, the pages of its list, what the checks say of schemas and data, the secrets,
\* and the log.  Parts that do not move stay in their initial states.
RecordsInv ==
    CASE part = "alert" -> AlertRowInv
      [] part = "devices" -> EventReadsInv
      [] part = "memory" -> MemoryInv
      [] part = "groups" -> GroupInv
      [] part = "migrations" -> SchemaFollowsRevision
      [] part = "table" -> RestoredAsSaved
      [] part = "rows" -> DeviceRowInv
      [] part = "queries" -> QueriesInv
      [] part = "schemas" -> SchemaInv
      [] part = "data" -> DataInv
      [] part = "health" -> HealthToldInv
      [] part = "secrets" -> SecretsInv
      [] part = "log" -> LogInv
      [] OTHER -> TRUE

=============================================================================
