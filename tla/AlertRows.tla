------------------------------ MODULE AlertRows ------------------------------
(***************************************************************************)
(* One row of the alerts, worked on in several sessions.  A session keeps  *)
(* the object it loaded until it rolls back or closes (objects do not      *)
(* expire on commit, and a get() does not refresh one that is there), and  *)
(* writes the columns that differ from what it loaded.                     *)
(***************************************************************************)
EXTENDS Naturals, FiniteSets

CONSTANTS
    AlertSessions, NoObject,
    MaxMethods      \* calls of the alert's methods

Unended == {"open", "acknowledged", "in_progress"}
Ended == {"resolved", "closed"}
AlertRow ==
    [status : Unended \cup Ended \cup {"suppressed"}, count : Nat,
     acked : BOOLEAN, resolved : BOOLEAN, deleted : BOOLEAN]

ASSUME AlertRowAssumption == MaxMethods \in Nat /\ NoObject \notin AlertRow

VARIABLES
    row,        \* the committed row: a function of its columns
    object,     \* the session's object, or NoObject
    loaded,     \* the values the object's changes are told from
    written,    \* the columns flushed and not yet committed
    occurred,   \* history: occurrences recorded in the session and not committed
    recorded,   \* history: occurrences recorded and committed
    methods,    \* how many methods have been called
    raced       \* history: a session has written from an object that was out of date

alertRowVars == <<row, object, loaded, written, occurred, recorded, methods, raced>>

NewAlert == [status |-> "open", count |-> 1, acked |-> FALSE, resolved |-> FALSE, deleted |-> FALSE]

AlertRowsInit ==
    /\ row = NewAlert
    /\ object = [s \in AlertSessions |-> NoObject] /\ loaded = object
    /\ written = [s \in AlertSessions |-> <<>>]
    /\ occurred = [s \in AlertSessions |-> 0] /\ recorded = 0 /\ methods = 0 /\ raced = FALSE

\* Columns over those of a row.
Over(w, r) == [c \in DOMAIN w \cup DOMAIN r |-> IF c \in DOMAIN w THEN w[c] ELSE r[c]]

\* The row as a session's queries see it, and the columns it has changed.
View(s) == Over(written[s], row)
Changed(s) == {c \in DOMAIN row : object[s] # NoObject /\ object[s][c] # loaded[s][c]}
OutOfDate(s) == loaded[s] # View(s)

-----------------------------------------------------------------------------
(* BaseRepository and its session *)

\* get() of an alert the session does not hold; deleted ones are asked for explicitly.
LoadAlert(s, includeDeleted) ==
    /\ object[s] = NoObject
    /\ includeDeleted \/ ~View(s).deleted
    /\ object' = [object EXCEPT ![s] = View(s)]
    /\ loaded' = [loaded EXCEPT ![s] = View(s)]
    /\ UNCHANGED <<row, written, occurred, recorded, methods, raced>>

\* The row is locked by a session that has written it.
MayWrite(s) == \A t \in AlertSessions \ {s} : written[t] = <<>>

\* The columns the session has changed are written.
FlushAlert(s) ==
    /\ Changed(s) # {} /\ MayWrite(s)
    /\ written' = [written EXCEPT ![s] = Over([c \in Changed(s) |-> object[s][c]], @)]
    /\ loaded' = [loaded EXCEPT ![s] = object[s]]
    /\ raced' = (raced \/ OutOfDate(s))
    /\ UNCHANGED <<row, object, occurred, recorded, methods>>

\* update() of a column of no matter here: what is pending is flushed with it, and the object is
\* refreshed.
UpdateAlert(s) ==
    /\ object[s] # NoObject /\ ~View(s).deleted /\ MayWrite(s)
    /\ LET w == Over([c \in Changed(s) |-> object[s][c]], written[s]) IN
        /\ written' = [written EXCEPT ![s] = w]
        /\ object' = [object EXCEPT ![s] = Over(w, row)]
        /\ loaded' = [loaded EXCEPT ![s] = Over(w, row)]
    /\ raced' = (raced \/ (Changed(s) # {} /\ OutOfDate(s)))
    /\ UNCHANGED <<row, occurred, recorded, methods>>

CommitAlert(s) ==
    /\ Changed(s) = {} /\ written[s] # <<>>
    /\ row' = View(s)
    /\ written' = [written EXCEPT ![s] = <<>>]
    /\ recorded' = recorded + occurred[s]
    /\ occurred' = [occurred EXCEPT ![s] = 0]
    /\ UNCHANGED <<object, loaded, methods, raced>>

\* A call of the repository that fails rolls the session back, with what earlier calls had
\* written; a session that is closed does the same.
RollbackAlert(s) ==
    /\ object[s] # NoObject \/ written[s] # <<>>
    /\ object' = [object EXCEPT ![s] = NoObject]
    /\ loaded' = [loaded EXCEPT ![s] = NoObject]
    /\ written' = [written EXCEPT ![s] = <<>>]
    /\ occurred' = [occurred EXCEPT ![s] = 0]
    /\ UNCHANGED <<row, recorded, methods, raced>>

-----------------------------------------------------------------------------
(* The methods of the alert: what each makes of a row *)

Acknowledged(r) ==
    IF r.status = "open" THEN [r EXCEPT !.status = "acknowledged", !.acked = TRUE] ELSE r
Started(r) ==
    IF r.status \in {"open", "acknowledged"} THEN [r EXCEPT !.status = "in_progress"] ELSE r
Resolved(r) == [r EXCEPT !.status = "resolved", !.resolved = TRUE]
Closed(r) == IF r.status = "resolved" THEN [r EXCEPT !.status = "closed"] ELSE r
Suppressed(r) == [r EXCEPT !.status = "suppressed"]
Deleted(r) == [r EXCEPT !.deleted = TRUE]
Restored(r) == [r EXCEPT !.deleted = FALSE]

\* Mutant of Reopened: the alert is reopened with its resolution.
ReopenedResolved(r) == IF r.status \in Ended THEN [r EXCEPT !.status = "open"] ELSE r
Reopened(r) ==
    IF r.status \in Ended THEN [r EXCEPT !.status = "open", !.resolved = FALSE] ELSE r

Recurred(r) == [r EXCEPT !.count = @ + 1]

Methods(r) ==
    {Acknowledged(r), Started(r), Resolved(r), Closed(r), Suppressed(r), Deleted(r), Restored(r)}

CallMethod(s) ==
    /\ object[s] # NoObject /\ methods < MaxMethods
    /\ \E r \in Methods(object[s]) : r # object[s] /\ object' = [object EXCEPT ![s] = r]
    /\ methods' = methods + 1
    /\ UNCHANGED <<row, loaded, written, occurred, recorded, raced>>

RecordOccurrence(s) ==
    /\ object[s] # NoObject /\ methods < MaxMethods
    /\ object' = [object EXCEPT ![s] = Reopened(Recurred(@))]
    /\ occurred' = [occurred EXCEPT ![s] = @ + 1]
    /\ methods' = methods + 1
    /\ UNCHANGED <<row, loaded, written, recorded, raced>>

AlertRowsNext ==
    \E s \in AlertSessions :
        \/ \E all \in BOOLEAN : LoadAlert(s, all)
        \/ FlushAlert(s) \/ UpdateAlert(s) \/ CommitAlert(s) \/ RollbackAlert(s) \/ CallMethod(s) \/ RecordOccurrence(s)

-----------------------------------------------------------------------------
(* Properties *)

\* The stored count never tells of more occurrences than were recorded and committed, and of no
\* fewer unless a session wrote from an object another one had made out of date: rolled back
\* calls leave no trace in it.
OccurrencesCounted ==
    /\ row.count <= 1 + recorded
    /\ raced \/ row.count = 1 + recorded

\* The status of a stored alert agrees with its times: one that is resolved or closed says when it
\* was resolved, an open one does not, an acknowledged one says when.  Two sessions that
\* overlap can break this between them, each writing other columns.
StatusAgreesWithTimes ==
    raced \/
    /\ row.status \in Ended => row.resolved
    /\ row.status \in Unended => ~row.resolved
    /\ row.status = "acknowledged" => row.acked

AlertRowInv == OccurrencesCounted /\ StatusAgreesWithTimes

=============================================================================
