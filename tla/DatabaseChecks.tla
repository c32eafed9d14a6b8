---------------------------- MODULE DatabaseChecks ----------------------------
(***************************************************************************)
(* What is said of a database.  Of its schema and the one its models       *)
(* declare: the comparison of MigrationUtils, the issues of                *)
(* SchemaValidator, and the two plans written from the comparison, one to  *)
(* upgrade the database and one to undo that; the plans are comments in a  *)
(* script, and somebody carries them out as they say.  Of its data: a      *)
(* table whose rows refer to another one by a key of two columns, the      *)
(* rules it is checked against, and the query for rows that refer to       *)
(* nothing.  Two things compare as equal in SQL only if neither is NULL.   *)
(* Schemas and data are checked apart, and share no variable.              *)
(***************************************************************************)
EXTENDS Naturals, FiniteSets

CONSTANTS
    SchemaTables, SchemaColumns,
    Shapes,         \* of a column: [type, nullable, default, primary]
    NoColumn

ASSUME SchemaAssumption ==
    /\ NoColumn \notin Shapes
    /\ \A x \in Shapes :
           x = [type |-> x.type, nullable |-> x.nullable, default |-> x.default, primary |-> x.primary]

VARIABLES
    actual,     \* the database: table -> column -> its shape or NoColumn
    declared    \* the models

schemaVars == <<actual, declared>>

NoTables == [t \in SchemaTables |-> [c \in SchemaColumns |-> NoColumn]]

SchemasInit == actual = NoTables /\ declared = NoTables

\* The database and the models are changed column by column.
AlterDatabase(t, c, s) ==
    /\ actual' = [actual EXCEPT ![t][c] = s] /\ actual' # actual
    /\ UNCHANGED declared

Redeclare(t, c, s) ==
    /\ declared' = [declared EXCEPT ![t][c] = s] /\ declared' # declared
    /\ UNCHANGED actual

SchemasNext ==
    \E t \in SchemaTables, c \in SchemaColumns, s \in Shapes \cup {NoColumn} :
        AlterDatabase(t, c, s) \/ Redeclare(t, c, s)

-----------------------------------------------------------------------------
(* The comparison *)

ColumnsOf(schema, t) == {c \in SchemaColumns : schema[t][c] # NoColumn}
TablesOf(schema) == {t \in SchemaTables : ColumnsOf(schema, t) # {}}
Common(a, b) == TablesOf(a) \cap TablesOf(b)
\* A column is named by its table and itself.
CommonColumns(a, b) == {k \in Common(a, b) \X SchemaColumns : k[2] \in ColumnsOf(a, k[1]) \cap ColumnsOf(b, k[1])}

Differ(x, y) == x.type # y.type \/ x.nullable # y.nullable \/ x.default # y.default

Compare(source, target) ==
    [missingTables |-> TablesOf(target) \ TablesOf(source),
     extraTables |-> TablesOf(source) \ TablesOf(target),
     missingColumns |-> {k \in Common(source, target) \X SchemaColumns :
                            k[2] \in ColumnsOf(target, k[1]) \ ColumnsOf(source, k[1])},
     extraColumns |-> {k \in Common(source, target) \X SchemaColumns :
                            k[2] \in ColumnsOf(source, k[1]) \ ColumnsOf(target, k[1])},
     changed |-> {k \in CommonColumns(source, target) : Differ(source[k[1]][k[2]], target[k[1]][k[2]])}]

NothingDiffers(d) == \A k \in DOMAIN d : d[k] = {}

-----------------------------------------------------------------------------
(* The plans: what exists anew is made as it is declared. *)

\* Columns that are extra or changed are not in the plan.
Upgraded(d, source, target) ==
    [t \in SchemaTables |->
        IF t \in d.missingTables THEN target[t]
        ELSE IF t \in d.extraTables THEN NoTables[t]
        ELSE [c \in SchemaColumns |-> IF <<t, c>> \in d.missingColumns THEN target[t][c] ELSE source[t][c]]]

Downgraded(d, source, now) ==
    [t \in SchemaTables |->
        IF t \in d.extraTables THEN source[t]
        ELSE IF t \in d.missingTables THEN NoTables[t]
        ELSE [c \in SchemaColumns |-> IF <<t, c>> \in d.missingColumns THEN NoColumn ELSE now[t][c]]]

-----------------------------------------------------------------------------
(* The validator *)

Mismatch(x, y) == x.type # y.type \/ x.nullable # y.nullable \/ x.primary # y.primary

\* Constraints, indexes and foreign keys are looked up, and not compared.
Issues(expected, current) ==
    LET tables == (TablesOf(expected) \ TablesOf(current)) \cup (TablesOf(current) \ TablesOf(expected))
        columns == {k \in Common(expected, current) \X SchemaColumns :
                       (k[2] \in ColumnsOf(expected, k[1])) # (k[2] \in ColumnsOf(current, k[1]))}
        shapes == {k \in CommonColumns(expected, current) :
                       Mismatch(expected[k[1]][k[2]], current[k[1]][k[2]])}
    IN  tables \cup columns \cup shapes

-----------------------------------------------------------------------------
(* Properties *)

\* Both checkers tell of every difference that a query could notice: where one of them is silent,
\* the schemas agree but for primary keys, which only the validator looks at, and defaults, which
\* only the comparison does.
SilenceIsAgreement ==
    LET like(x, y) == [x EXCEPT !.default = y.default, !.primary = y.primary]
        alike == /\ TablesOf(actual) = TablesOf(declared)
                 /\ \A t \in SchemaTables :
                        /\ ColumnsOf(actual, t) = ColumnsOf(declared, t)
                        /\ \A c \in ColumnsOf(actual, t) : like(actual[t][c], declared[t][c]) = declared[t][c]
    IN  /\ NothingDiffers(Compare(actual, declared)) => alike
        /\ Issues(declared, actual) = {} => alike

\* Comparing the other way round finds the same differences, the missing ones as extra.
ComparisonIsSymmetric ==
    LET d == Compare(actual, declared)  e == Compare(declared, actual) IN
    /\ d.missingTables = e.extraTables /\ d.missingColumns = e.extraColumns
    /\ d.extraTables = e.missingTables /\ d.extraColumns = e.missingColumns
    /\ d.changed = e.changed

\* Whoever carries out the plan to upgrade has every table and column the models need, and who
\* carries out the other one after it is back where he began.
PlansUndoEachOther ==
    LET d == Compare(actual, declared)
        up == Upgraded(d, actual, declared)
        left == Compare(up, declared)
    IN  /\ left.missingTables = {} /\ left.missingColumns = {} /\ left.extraTables = {}
        /\ left.extraColumns = d.extraColumns /\ left.changed = d.changed
        /\ Downgraded(d, actual, up) = actual

SchemaInv == SilenceIsAgreement /\ ComparisonIsSymmetric /\ PlansUndoEachOther

-----------------------------------------------------------------------------
(* Data *)

CONSTANTS
    RowIds, RowValues, NullValue,
    Least, Most     \* the bounds of the range rule

ASSUME DataAssumption ==
    RowValues \subseteq Nat /\ NullValue \notin RowValues /\ Least \in Nat /\ Most \in Nat

VARIABLES
    rowsOf,     \* the table: id -> its two columns, for the rows there are
    keysOf      \* the keys of the other one

checkedVars == <<rowsOf, keysOf>>

Cells == RowValues \cup {NullValue}

DataInit == rowsOf = [i \in {} |-> NullValue] /\ keysOf = {}

InsertRow(i, x, y) ==
    /\ i \notin DOMAIN rowsOf
    /\ rowsOf' = [j \in DOMAIN rowsOf \cup {i} |-> IF j = i THEN <<x, y>> ELSE rowsOf[j]]
    /\ UNCHANGED keysOf

\* Nothing keeps a key that is referred to from being deleted: SQLite enforces no foreign keys here.
InsertKey(x, y) == <<x, y>> \notin keysOf /\ keysOf' = keysOf \cup {<<x, y>>} /\ UNCHANGED rowsOf
DeleteKey(k) == k \in keysOf /\ keysOf' = keysOf \ {k} /\ UNCHANGED rowsOf

DataNext ==
    \/ \E i \in RowIds, x, y \in Cells : InsertRow(i, x, y)
    \/ \E x, y \in RowValues : InsertKey(x, y)
    \/ \E k \in keysOf : DeleteKey(k)

-----------------------------------------------------------------------------
(* The rules, on a column; a rule that cannot be applied is an issue itself. *)

Column(col) == {i \in DOMAIN rowsOf : rowsOf[i][col] # NullValue}

NotNullHolds(col) == \A i \in DOMAIN rowsOf : rowsOf[i][col] # NullValue

\* The groups of GROUP BY, of which NULL is one.
UniqueHolds(col) ==
    \A v \in Cells : Cardinality({i \in DOMAIN rowsOf : rowsOf[i][col] = v}) <= 1

\* NULL is neither less nor more.
RangeHolds(col) == \A i \in Column(col) : rowsOf[i][col] >= Least /\ rowsOf[i][col] <= Most

RuleHolds(rule, col) ==
    CASE rule = "not_null" -> NotNullHolds(col)
      [] rule = "unique" -> UniqueHolds(col)
      [] rule = "range" -> RangeHolds(col)

-----------------------------------------------------------------------------
(* check_referential_integrity *)

SqlEqual(x, y) == x # NullValue /\ y # NullValue /\ x = y

\* The rows of the LEFT JOIN that found no partner, unless their first column is NULL.
Joined(i, cols) == {k \in keysOf : \A c \in cols : SqlEqual(rowsOf[i][c], k[c])}
Orphans(cols) == {i \in DOMAIN rowsOf : Joined(i, cols) = {} /\ rowsOf[i][1] # NullValue}

-----------------------------------------------------------------------------
(* Properties *)

\* A key is broken, in SQL, if it has no NULL and refers to no row.
Broken(i, cols) ==
    /\ \A c \in cols : rowsOf[i][c] # NullValue
    /\ \A k \in keysOf : \E c \in cols : k[c] # rowsOf[i][c]

\* The query finds every row whose key is broken.  A key of one column that it reports is broken;
\* of two columns, it also reports keys whose second column is NULL, and never those whose first is.
OrphansAreFound ==
    /\ Orphans({1}) = {i \in DOMAIN rowsOf : Broken(i, {1})}
    /\ {i \in DOMAIN rowsOf : Broken(i, {1, 2})} \subseteq Orphans({1, 2})
    /\ \A i \in Orphans({1, 2}) : Broken(i, {1, 2}) \/ rowsOf[i][2] = NullValue

\* A column that passes can be given the constraint the rule stands for.
RulesAllowConstraints ==
    \A col \in {1, 2} :
        /\ RuleHolds("unique", col) => \A i, j \in Column(col) : rowsOf[i][col] = rowsOf[j][col] => i = j
        /\ RuleHolds("not_null", col) /\ RuleHolds("range", col) =>
               \A i \in DOMAIN rowsOf : rowsOf[i][col] \in Least .. Most

DataInv == OrphansAreFound /\ RulesAllowConstraints

=============================================================================
