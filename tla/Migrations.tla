------------------------------ MODULE Migrations ------------------------------
(***************************************************************************)
(* Migrations of the database's schema: the models, the scripts Alembic    *)
(* generates from them, and the operations of the migrator, which copies   *)
(* the database before it changes it.  Nothing here suspends between two   *)
(* steps: each operation is one step.  A schema is a set of pairs of a     *)
(* table and a column.  And one table by itself, saved to a file and       *)
(* restored from it: its columns and rows may change in between.           *)
(***************************************************************************)
EXTENDS Naturals, FiniteSets, Sequences, SequencesExt

CONSTANTS
    Schemas,         \* what the models may declare
    VersionColumn,   \* the column of Alembic's own table
    NoFile,
    MaxScripts, MaxSeconds

ASSUME MigrationAssumption ==
    /\ VersionColumn \notin UNION Schemas
    /\ MaxScripts \in Nat /\ MaxSeconds \in Nat

VARIABLES
    models,          \* Base.metadata
    schema,          \* of the database
    revision,        \* of the database: how many scripts have been applied
    scripts,         \* the revisions, as what they add and what they drop
    second,          \* the clock, to the precision of a copy's name
    copies,          \* the files that copy the database, by name
    drifted          \* history: the tables were created or dropped by themselves

migVars == <<models, schema, revision, scripts, second, copies, drifted>>

MigrationsInit ==
    /\ models \in Schemas /\ schema = {} /\ revision = 0 /\ scripts = <<>>
    /\ second = 0 /\ copies = [s \in 0 .. MaxSeconds |-> NoFile]
    /\ drifted = FALSE

-----------------------------------------------------------------------------
(* The models and the scripts *)

Tables(s) == {c[1] : c \in s}

ModelsChange(m) ==
    /\ m # models
    /\ models' = m
    /\ UNCHANGED <<schema, revision, scripts, second, copies, drifted>>

\* A revision from what the models and the database differ in, Alembic's table left out; the
\* database has to be up to date, and gets Alembic's table with the comparison.
GenerateMigration ==
    /\ Len(scripts) < MaxScripts /\ revision = Len(scripts)
    /\ LET s == schema \ {VersionColumn} IN
        scripts' = Append(scripts, [adds |-> models \ s, drops |-> s \ models])
    /\ schema' = schema \cup {VersionColumn}
    /\ UNCHANGED <<models, revision, second, copies, drifted>>

ScriptApplied(s, script) == (s \cup script.adds) \ script.drops
ScriptUndone(s, script) == (s \cup script.drops) \ script.adds

\* The schema at revision n: scripts are applied upwards, or undone downwards.
SchemaAt(n) ==
    IF n >= revision THEN FoldLeft(ScriptApplied, schema, SubSeq(scripts, revision + 1, n))
    ELSE FoldLeft(ScriptUndone, schema, Reverse(SubSeq(scripts, n + 1, revision)))

\* create_all and drop_all leave the revision alone.
CreateTables ==
    /\ schema' = schema \cup {c \in models : c[1] \notin Tables(schema)}
    /\ schema' # schema /\ drifted' = TRUE
    /\ UNCHANGED <<models, revision, scripts, second, copies>>

DropTables ==
    /\ schema' = {c \in schema : c[1] \notin Tables(models)}
    /\ schema' # schema /\ drifted' = TRUE
    /\ UNCHANGED <<models, revision, scripts, second, copies>>

-----------------------------------------------------------------------------
(* DatabaseMigrator *)

\* Mutant of Copied: the copy is made of what the operation leaves.
CopiedAfter(copied) == copies' = IF copied THEN [copies EXCEPT ![second] = schema'] ELSE copies

\* A copy is named after the second it is made in, and replaces one of the same name.
Copied(copied) == copies' = IF copied THEN [copies EXCEPT ![second] = schema] ELSE copies

\* migrate_to_latest when scripts are pending: the scripts may fail one by one, and a failure,
\* of a script or of the validation that follows, restores nothing.
MigrateToLatest(copied, upTo) ==
    /\ revision < Len(scripts) /\ upTo \in revision .. Len(scripts)
    /\ schema' = SchemaAt(upTo) /\ revision' = upTo
    /\ Copied(copied)
    /\ UNCHANGED <<models, scripts, second, drifted>>

\* rollback_to_revision: goes on without the copy it could not make, and may stop half-way too.
RollbackToRevision(copied, downTo) ==
    /\ revision > 0 /\ downTo \in 0 .. revision
    /\ schema' = SchemaAt(downTo) /\ revision' = downTo
    /\ Copied(copied)
    /\ UNCHANGED <<models, scripts, second, drifted>>

SecondPasses ==
    /\ second < MaxSeconds
    /\ second' = second + 1
    /\ UNCHANGED <<models, schema, revision, scripts, copies, drifted>>

MigrationsNext ==
    \/ \E m \in Schemas : ModelsChange(m)
    \/ GenerateMigration \/ CreateTables \/ DropTables \/ SecondPasses
    \/ \E copied \in BOOLEAN, n \in 0 .. MaxScripts :
           MigrateToLatest(copied, n) \/ RollbackToRevision(copied, n)

MigrationsSpec == MigrationsInit /\ [][MigrationsNext]_migVars

-----------------------------------------------------------------------------
(* Properties *)

\* The schema of the database is what the scripts up to its revision make of an empty one, after
\* any sequence of migrations, half-way failures and rollbacks, whatever the models became
\* meanwhile; creating and dropping tables by themselves is what breaks the tie.
SchemaFollowsRevision ==
    drifted \/ schema \ {VersionColumn} = FoldLeft(ScriptApplied, {}, SubSeq(scripts, 1, revision))

\* A copy holds the database as it was before the operation that made it, also when that
\* failed half-way, and is replaced only within its second.
CopiesAreOfBefore ==
    [][\A s \in DOMAIN copies : copies'[s] # copies[s] => s = second /\ copies'[s] = schema]_migVars

-----------------------------------------------------------------------------
(* A table and its file *)

CONSTANTS Columns, Data, NoTableFile

VARIABLES
    columns, tuples, \* of the table
    saved,           \* the file it was last saved to
    reported         \* whether the last step was a restoring that answered True

tableVars == <<columns, tuples, saved, reported>>

TableInit == columns = Columns /\ tuples = {} /\ saved = NoTableFile /\ reported = FALSE

\* A migration drops columns or adds them again.
AlterTable(c) ==
    /\ c # columns
    /\ columns' = c /\ reported' = FALSE
    /\ UNCHANGED <<tuples, saved>>

Write(d) ==
    /\ d # tuples
    /\ tuples' = d /\ reported' = FALSE
    /\ UNCHANGED <<columns, saved>>

\* backup_table_data: the columns and the rows of the table; an earlier file is replaced.
\* A writing that fails leaves a file nobody can read.
BackupTableData ==
    /\ saved' \in {[columns |-> columns, data |-> tuples], NoTableFile} /\ reported' = FALSE
    /\ UNCHANGED <<columns, tuples>>

\* In one transaction the rows of the table make way for those of the file.
Replaced == tuples' = saved.data

\* The table takes the file's rows unless it lacks a column of theirs; another error may occur.
MayInsert == saved.columns \subseteq columns

\* restore_table_data, which has nothing to do with a file without rows.
RestoreTableData ==
    /\ saved # NoTableFile
    /\ \/ saved.data = {} /\ tuples' = tuples /\ reported' = TRUE
       \/ saved.data # {} /\ MayInsert /\ Replaced /\ reported' = TRUE
       \/ saved.data # {} /\ tuples' = tuples /\ reported' = FALSE
    /\ UNCHANGED <<columns, saved>>

TableNext ==
    \/ \E c \in (SUBSET Columns) \ {{}} : AlterTable(c)
    \/ \E d \in SUBSET Data : Write(d)
    \/ BackupTableData \/ RestoreTableData

TableSpec == TableInit /\ [][TableNext]_tableVars

-----------------------------------------------------------------------------
(* Properties *)

\* A table whose restoring is reported holds the rows it had when it was saved, neither more nor
\* fewer, whatever happened to it in between; a file without rows, which does not empty the
\* table, is the exception.
RestoredAsSaved == reported /\ saved.data # {} => tuples = saved.data

=============================================================================
