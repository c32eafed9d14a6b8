----------------------------- MODULE DeviceQueries -----------------------------
(***************************************************************************)
(* The read side of the device repository: a client lists or searches      *)
(* devices page after page, each page a query of its own over the table as *)
(* it is by then, while devices are registered, renamed, activated,        *)
(* deactivated and deleted.  Names and the other keys are numbers in their *)
(* order; the database gives the rows as they were inserted.               *)
(*                                                                         *)
(* Besides, the events of a device of DeviceStore are read back by their   *)
(* version, while commands are handled.  Of all types of events only a     *)
(* registration can be made from what is stored; a result with any other   *)
(* event fails as a whole.                                                 *)
(***************************************************************************)
EXTENDS DeviceStore, SequencesExt

CONSTANTS
    ListedDevices, DeviceNames,
    Filters,        \* sets of statuses clients ask for
    PageSizes,      \* sizes of pages clients ask for
    MaxPageSize,    \* 1000 in QueryValidator
    MaxChanges,     \* bound: changes of the table in a behaviour
    ReadFails       \* what a read of events gives that fails

ASSUME QueryAssumption ==
    /\ DeviceNames \subseteq Nat /\ PageSizes \subseteq Nat
    /\ UNION Filters \subseteq {1, 2} /\ MaxPageSize \in Nat
    /\ ReadFails \notin Seq(Stored)

VARIABLES
    table,      \* devices, as they were inserted
    query,      \* the client's query, whose page goes up, and whether it has had its last answer
    listed,     \* the devices on the pages it was given
    steady,     \* history: those that matched the query since it began, and were not changed
    gone, come, \* history: how many devices have left a place in its order, and have come to one
    changes

queryVars == <<table, query, listed, steady, gone, come, changes>>

\* Statuses as sorted(): "active" comes before "inactive".
Statuses == {1, 2}
NoQuery == [page |-> 0, size |-> 0, by |-> "none", desc |-> FALSE, statuses |-> {}, done |-> TRUE]

QueriesInit ==
    /\ table = <<>> /\ query = NoQuery /\ listed = <<>>
    /\ steady = {} /\ gone = 0 /\ come = 0 /\ changes = 0

-----------------------------------------------------------------------------
(* One query *)

\* Members of S in the order of their keys, or from the last to the first; those with the same key
\* stay as they are.
Before(key, desc, i, j) == IF key[i] = key[j] THEN i < j ELSE IF desc THEN key[i] > key[j] ELSE key[i] < key[j]
Earlier(S, key, desc, i) == {j \in S : Before(key, desc, j, i)}
InOrder(S, key, desc) ==
    [n \in 1..Cardinality(S) |-> CHOOSE i \in S : Cardinality(Earlier(S, key, desc, i)) = n - 1]

\* An empty filter is none.
Satisfies(q, r) == q.statuses = {} \/ r.status \in q.statuses
Matching(q) == {i \in DOMAIN table : Satisfies(q, table[i])}

\* A field that can be asked for and is not sorted by leaves the rows as they are.
SortKey(q, r) == CASE q.by = "name" -> r.name [] q.by = "status" -> r.status [] OTHER -> 0

\* sorted() is stable, in reverse, too.
Sorted(q) == InOrder(Matching(q), [i \in DOMAIN table |-> SortKey(q, table[i])], q.desc)

ValidPage(q) == q.page >= 1 /\ q.size >= 1 /\ q.size <= MaxPageSize

PageOf(q, found) == SubSeq(found, (q.page - 1) * q.size + 1, IF q.page * q.size <= Len(found) THEN q.page * q.size ELSE Len(found))

HasNext(q, total) == q.page < (total + q.size - 1) \div q.size

-----------------------------------------------------------------------------
(* The client *)

BeginListing(by, desc, size, statuses) ==
    /\ query = NoQuery
    /\ query' = [page |-> 1, size |-> size, by |-> by, desc |-> desc, statuses |-> statuses, done |-> FALSE]
    /\ steady' = {table[i].id : i \in Matching(query')}
    /\ UNCHANGED <<table, listed, gone, come, changes>>

ReadPage ==
    LET found == Sorted(query)
        page == PageOf(query, found)
    IN
    /\ ~query.done /\ ValidPage(query)
    /\ listed' = listed \o [i \in DOMAIN page |-> table[page[i]].id]
    /\ query' = IF HasNext(query, Len(found)) THEN [query EXCEPT !.page = @ + 1]
                ELSE [query EXCEPT !.done = TRUE]
    /\ UNCHANGED <<table, steady, gone, come, changes>>

\* A page that is refused lists nothing.
PageRefused ==
    /\ ~query.done /\ ~ValidPage(query)
    /\ query' = NoQuery /\ steady' = {}
    /\ UNCHANGED <<table, listed, gone, come, changes>>

-----------------------------------------------------------------------------
(* Changes of the table *)

Matches(r) == ~query.done /\ Satisfies(query, r)
Count(b) == IF b THEN 1 ELSE 0

\* old and new: the rows a change takes away and adds.
Notes(d, old, new) ==
    /\ changes < MaxChanges /\ changes' = changes + 1
    /\ gone' = gone + Count(\E r \in old : Matches(r))
    /\ come' = come + Count(\E r \in new : Matches(r))
    /\ steady' = steady \ {d}
    /\ UNCHANGED <<query, listed>>

RegisterDevice(d, n) ==
    LET r == [id |-> d, name |-> n, status |-> 1] IN
    /\ \A i \in DOMAIN table : table[i].id # d
    /\ table' = Append(table, r)
    /\ Notes(d, {}, {r})

ChangeRow(i, r) ==
    /\ r # table[i]
    /\ table' = [table EXCEPT ![i] = r]
    /\ Notes(r.id, {table[i]}, {r})

DeleteDevice(i) ==
    /\ table' = RemoveAt(table, i)
    /\ Notes(table[i].id, {table[i]}, {})

QueriesNext ==
    \/ \E by \in {"name", "status", "model"}, desc \in BOOLEAN, size \in PageSizes, s \in Filters :
           BeginListing(by, desc, size, s)
    \/ ReadPage \/ PageRefused
    \/ \E d \in ListedDevices, n \in DeviceNames : RegisterDevice(d, n)
    \/ \E i \in DOMAIN table :
        \/ \E n \in DeviceNames : ChangeRow(i, [table[i] EXCEPT !.name = n])
        \/ \E s \in Statuses : ChangeRow(i, [table[i] EXCEPT !.status = s])
        \/ DeleteDevice(i)

-----------------------------------------------------------------------------
(* Events read back *)

Deserializable == {"registered"}

\* The rows after a version, in the order of their versions.
RowsAfter(d, version) ==
    LET later == {i \in DOMAIN events[d] : events[d][i].version > version}
        order == InOrder(later, [i \in DOMAIN events[d] |-> events[d][i].version], FALSE)
    IN  [n \in DOMAIN order |-> events[d][order[n]]]

GetEvents(d, version) ==
    LET found == RowsAfter(d, version)
    IN  IF \E i \in DOMAIN found : found[i].type \notin Deserializable THEN ReadFails ELSE found

-----------------------------------------------------------------------------
(* Properties *)

\* Pages that were read to the last one miss a device that was there all the time only if one that
\* stood before it has left its place, and each that left makes miss one at most.
MissedForRemovals ==
    query.done /\ query # NoQuery => Cardinality(steady \ ToSet(listed)) <= gone

\* A device is on two pages only if one has come to a place before it, and once for each of them.
TwiceForInsertions == Len(listed) - Cardinality(ToSet(listed)) <= come

QueriesInv == MissedForRemovals /\ TwiceForInsertions

\* Somebody who reads on from any version is given what was stored after it, in its order and each
\* event once, or is told that it cannot be read.
ReadsGoOn ==
    \A d \in Devices : \A v \in 0..Len(events[d]) :
        LET rest == SubSeq(events[d], v + 1, Len(events[d])) IN
        GetEvents(d, v) = IF \A i \in DOMAIN rest : rest[i].type = "registered" THEN rest ELSE ReadFails

\* Somebody who has loaded a device and reads on from its version finds nothing but the events of
\* the command that is being saved.
OnlyUnsavedIsNew ==
    \A d \in Devices : rows[d] # NoRow =>
        \A i \in DOMAIN RowsAfter(d, rows[d].version) :
            \E c \in Clients : dev[c] = d /\ cmd[c] = RowsAfter(d, rows[d].version)[i].cmd

EventReadsInv == ReadsGoOn /\ OnlyUnsavedIsNew

=============================================================================
