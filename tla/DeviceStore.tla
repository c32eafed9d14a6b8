------------------------------ MODULE DeviceStore ------------------------------
(***************************************************************************)
(* The write side of the device repository: the command handlers of        *)
(* repository/application/handlers.py, the device aggregate they change,   *)
(* SqlDeviceRepository.save, SqlEventStore.save_events and the unit of     *)
(* work around them, run by several processes over one database.           *)
(*                                                                         *)
(* Within a process nothing suspends, so a process handles one command at  *)
(* a time; the database orders the statements of different processes.  An  *)
(* action is one database statement with the local computation around it.  *)
(* save() uses two transactions: one of the event store, committed first,  *)
(* and one of its own for the row of the device.                           *)
(***************************************************************************)
EXTENDS Integers, Sequences, FiniteSets

CONSTANTS
    Clients,      \* processes that handle commands
    Devices,      \* device ids (UUIDs, made by registration)
    Serials,      \* serial numbers
    Kinds,        \* kinds of commands clients send
    Faults,       \* may a process crash or a statement of the database fail?
    NoRow,        \* a device without a row
    NoDevice,     \* what an idle client works on
    MaxCommands   \* bound: commands handled

AllKinds == {"register", "registerConfigured", "update", "touch",
             "activate", "deactivate", "configure"}

Row == [version : Nat, confVersion : Nat, status : {"active", "inactive"}, serial : Serials]

ASSUME StoreAssumption ==
    /\ Kinds \subseteq AllKinds
    /\ Faults \in BOOLEAN
    /\ MaxCommands \in Nat
    /\ NoDevice \notin Devices /\ NoRow \notin Row

VARIABLES
    rows,       \* table devices: id -> row or NoRow
    events,     \* table stored_events: id -> events in the order they were stored
    commands,   \* commands handled so far; each is known by its number, those that
                \* raise no event by 0
    pc,         \* where each client is
    dev,        \* the device of its command
    cmd,        \* the number of its command
    agg,        \* the entity inside its aggregate
    pending,    \* the uncommitted events of its aggregate
    existing,   \* the row its session loaded in save()
    seen,       \* stored events of the device when the aggregate was loaded
    acked,      \* commands that returned success
    refused     \* commands that failed with a concurrency conflict

clientVars == <<pc, dev, cmd, agg, pending, existing, seen>>
outcomeVars == <<acked, refused>>
vars == <<rows, events, commands, clientVars, outcomeVars>>

EventTypes == {"registered", "changed", "configured"}
Event == [type : EventTypes, cmd : Nat]
Stored == [type : EventTypes, cmd : Nat, version : Int]
Pc == {"idle", "loaded", "existing", "checked", "stored", "saved"}

StoreInit ==
    /\ rows = [d \in Devices |-> NoRow]
    /\ events = [d \in Devices |-> <<>>]
    /\ commands = 0
    /\ pc = [c \in Clients |-> "idle"]
    /\ dev = [c \in Clients |-> NoDevice]
    /\ cmd = [c \in Clients |-> 0]
    /\ agg = [c \in Clients |-> NoRow]
    /\ pending = [c \in Clients |-> <<>>]
    /\ existing = [c \in Clients |-> NoRow]
    /\ seen = [c \in Clients |-> 0]
    /\ acked = {} /\ refused = {}

-----------------------------------------------------------------------------
(* The aggregate: what a command does to the entity, and the events it raises *)

CanApply(kind, row) ==
    CASE kind = "deactivate" -> row.status # "inactive"
      [] kind = "activate" -> row.status # "active"
      [] OTHER -> TRUE

UpdateVersion(row) == [row EXCEPT !.version = @ + 1]

\* Mutant of Apply: deactivate() forgets _update_version().
ApplyWithoutVersion(kind, row) ==
    CASE kind = "update" -> UpdateVersion(row)
      [] kind = "activate" -> UpdateVersion([row EXCEPT !.status = "active"])
      [] kind = "deactivate" -> [row EXCEPT !.status = "inactive"]
      [] kind = "configure" -> [row EXCEPT !.confVersion = @ + 1]
      [] OTHER -> row

\* update_configuration counts in the configuration's own version; an
\* UpdateDeviceCommand without a name ("touch") changes nothing and raises no event.
Apply(kind, row) ==
    CASE kind = "update" -> UpdateVersion(row)
      [] kind = "activate" -> UpdateVersion([row EXCEPT !.status = "active"])
      [] kind = "deactivate" -> UpdateVersion([row EXCEPT !.status = "inactive"])
      [] kind = "configure" -> [row EXCEPT !.confVersion = @ + 1]
      [] OTHER -> row

EventsOf(kind) ==
    CASE kind = "touch" -> <<>>
      [] kind = "configure" -> <<"configured">>
      [] OTHER -> <<"changed">>

NewRow(s) == [version |-> 1, confVersion |-> 1, status |-> "active", serial |-> s]

\* A handler has its aggregate and is about to save it.
Begin(c, d, entity, types) ==
    /\ pc[c] = "idle"
    /\ commands < MaxCommands
    /\ commands' = commands + 1
    /\ pc' = [pc EXCEPT ![c] = "loaded"]
    /\ dev' = [dev EXCEPT ![c] = d]
    /\ cmd' = [cmd EXCEPT ![c] = IF types = <<>> THEN 0 ELSE commands']
    /\ agg' = [agg EXCEPT ![c] = entity]
    /\ pending' = [pending EXCEPT ![c] =
                     [i \in DOMAIN types |-> [type |-> types[i], cmd |-> commands']]]
    /\ seen' = [seen EXCEPT ![c] = Len(events[d])]
    /\ UNCHANGED <<rows, events, existing, outcomeVars>>

\* get_by_serial_number finds no row; the aggregate is created under a fresh id.
Register(c, d, s) ==
    /\ rows[d] = NoRow /\ events[d] = <<>>
    /\ \A o \in Clients : dev[o] # d
    /\ \A e \in Devices : rows[e] # NoRow => rows[e].serial # s
    /\ \/ "register" \in Kinds /\ Begin(c, d, NewRow(s), <<"registered">>)
       \/ /\ "registerConfigured" \in Kinds
          /\ Begin(c, d, Apply("configure", NewRow(s)), <<"registered", "configured">>)

\* The other handlers: get_by_id, the lifecycle check, one method of the aggregate.
Change(c, d, kind) ==
    /\ kind \in Kinds \ {"register", "registerConfigured"}
    /\ rows[d] # NoRow
    /\ CanApply(kind, rows[d])
    /\ Begin(c, d, Apply(kind, rows[d]), EventsOf(kind))

-----------------------------------------------------------------------------
(* SqlDeviceRepository.save and SqlEventStore.save_events *)

\* The session of save() reads the row; without events nothing is checked.
LoadExisting(c) ==
    /\ pc[c] = "loaded"
    /\ existing' = [existing EXCEPT ![c] = rows[dev[c]]]
    /\ pc' = [pc EXCEPT ![c] = IF pending[c] = <<>> THEN "stored" ELSE "existing"]
    /\ UNCHANGED <<rows, events, commands, dev, cmd, agg, pending, seen, outcomeVars>>

Expected(c) == agg[c].version - Len(pending[c])
IsCurrent(c) == Len(events[dev[c]]) = Expected(c)

\* The rows made of the events, aggregate_version counting on from base.
Numbered(es, base) ==
    [i \in DOMAIN es |-> [type |-> es[i].type, cmd |-> es[i].cmd, version |-> base + i]]

\* The event store counts the events of the aggregate.
CheckVersion(c) ==
    /\ pc[c] = "existing"
    /\ IsCurrent(c)
    /\ pc' = [pc EXCEPT ![c] = "checked"]
    /\ UNCHANGED <<rows, events, commands, dev, cmd, agg, pending, existing, seen, outcomeVars>>

\* Mutant of Leave: the client keeps its aggregate.
LeaveKeepsDevice(c) ==
    /\ pc' = [pc EXCEPT ![c] = "idle"]
    /\ UNCHANGED <<dev, cmd, agg, pending, existing, seen>>

\* The client's objects are gone once the handler returns.
Leave(c) ==
    /\ pc' = [pc EXCEPT ![c] = "idle"]
    /\ dev' = [dev EXCEPT ![c] = NoDevice]
    /\ cmd' = [cmd EXCEPT ![c] = 0]
    /\ agg' = [agg EXCEPT ![c] = NoRow]
    /\ pending' = [pending EXCEPT ![c] = <<>>]
    /\ existing' = [existing EXCEPT ![c] = NoRow]
    /\ seen' = [seen EXCEPT ![c] = 0]

\* Mutant of Conflict: found out after the insert, and not rolled back.
ConflictAfterInsert(c) ==
    /\ pc[c] = "existing"
    /\ ~IsCurrent(c)
    /\ events' = [events EXCEPT ![dev[c]] = @ \o Numbered(pending[c], Expected(c))]
    /\ refused' = refused \cup {cmd[c]}
    /\ Leave(c)
    /\ UNCHANGED <<rows, commands, acked>>

\* "Concurrency conflict: expected version ..., but current version is ..."
Conflict(c) ==
    /\ pc[c] = "existing"
    /\ ~IsCurrent(c)
    /\ refused' = refused \cup {cmd[c]}
    /\ Leave(c)
    /\ UNCHANGED <<rows, events, commands, acked>>

StoreEventsOverwriting(c) ==
    /\ pc[c] = "checked"
    /\ events' = [events EXCEPT ![dev[c]] = Numbered(pending[c], Expected(c))]
    /\ pending' = [pending EXCEPT ![c] = <<>>]
    /\ pc' = [pc EXCEPT ![c] = "stored"]
    /\ UNCHANGED <<rows, commands, dev, cmd, agg, existing, seen, outcomeVars>>

\* The events are inserted and committed; the aggregate forgets them.
StoreEvents(c) ==
    /\ pc[c] = "checked"
    /\ events' = [events EXCEPT ![dev[c]] = @ \o Numbered(pending[c], Expected(c))]
    /\ pending' = [pending EXCEPT ![c] = <<>>]
    /\ pc' = [pc EXCEPT ![c] = "stored"]
    /\ UNCHANGED <<rows, commands, dev, cmd, agg, existing, seen, outcomeVars>>

SerialTaken(c) ==
    \E d \in Devices \ {dev[c]} : rows[d] # NoRow /\ rows[d].serial = agg[c].serial

\* An UPDATE writes the columns that differ from the row the session loaded.
Written(old, new, row) ==
    [row EXCEPT !.version = IF new.version # old.version THEN new.version ELSE @,
                !.confVersion = IF new.confVersion # old.confVersion THEN new.confVersion ELSE @,
                !.status = IF new.status # old.status THEN new.status ELSE @]

\* Mutant of CommitRow: the row is committed first, the events are forgotten.
CommitRowOnly(c) ==
    /\ pc[c] = "checked"
    /\ ~SerialTaken(c)
    /\ rows' = [rows EXCEPT ![dev[c]] = agg[c]]
    /\ pending' = [pending EXCEPT ![c] = <<>>]
    /\ pc' = [pc EXCEPT ![c] = "saved"]
    /\ UNCHANGED <<events, commands, dev, cmd, agg, existing, seen, outcomeVars>>

\* session.commit(): the row of the device is inserted or updated.
CommitRow(c) ==
    /\ pc[c] = "stored"
    /\ IF existing[c] = NoRow
       THEN ~SerialTaken(c) /\ rows' = [rows EXCEPT ![dev[c]] = agg[c]]
       ELSE rows' = [rows EXCEPT ![dev[c]] = Written(existing[c], agg[c], @)]
    /\ pc' = [pc EXCEPT ![c] = "saved"]
    /\ UNCHANGED <<events, commands, dev, cmd, agg, pending, existing, seen, outcomeVars>>

\* The unique constraint on serial_number refuses the row.
RowRefused(c) ==
    /\ pc[c] = "stored"
    /\ existing[c] = NoRow /\ SerialTaken(c)
    /\ Leave(c)
    /\ UNCHANGED <<rows, events, commands, outcomeVars>>

\* The unit of work commits a session nothing was done in.  It publishes what the
\* aggregate still holds as uncommitted, which is nothing any more (see TypeOK);
\* the handler returns success.
CommitUnitOfWork(c) ==
    /\ pc[c] = "saved"
    /\ acked' = acked \cup {cmd[c]}
    /\ Leave(c)
    /\ UNCHANGED <<rows, events, commands, refused>>

\* The process dies, or the statement it waits for fails and is rolled back.
Fault(c) ==
    /\ Faults
    /\ pc[c] # "idle"
    /\ Leave(c)
    /\ UNCHANGED <<rows, events, commands, outcomeVars>>

-----------------------------------------------------------------------------
Save(c) ==
    \/ LoadExisting(c)
    \/ CheckVersion(c)
    \/ Conflict(c)
    \/ StoreEvents(c)
    \/ CommitRow(c)
    \/ RowRefused(c)
    \/ CommitUnitOfWork(c)

StoreNext ==
    \E c \in Clients :
        \/ \E d \in Devices : \/ \E s \in Serials : Register(c, d, s)
                              \/ \E kind \in Kinds : Change(c, d, kind)
        \/ Save(c)
        \/ Fault(c)

StoreSpec == StoreInit /\ [][StoreNext]_vars

-----------------------------------------------------------------------------
(* Properties *)

\* The shape of the state; a client works on a device exactly while it is busy,
\* finds its row as long as it has loaded one, and has no event left to store or
\* publish once its events are stored.
TypeOK ==
    /\ rows \in [Devices -> Row \cup {NoRow}]
    /\ events \in [Devices -> Seq(Stored)]
    /\ commands \in 0 .. MaxCommands
    /\ pc \in [Clients -> Pc]
    /\ dev \in [Clients -> Devices \cup {NoDevice}]
    /\ cmd \in [Clients -> 0 .. commands]
    /\ agg \in [Clients -> Row \cup {NoRow}]
    /\ \A c \in Clients : /\ dev[c] = NoDevice <=> pc[c] = "idle"
                          /\ agg[c] = NoRow <=> pc[c] = "idle"
                          /\ existing[c] # NoRow => dev[c] # NoDevice /\ rows[dev[c]] # NoRow
                          /\ pc[c] \in {"idle", "stored", "saved"} => pending[c] = <<>>
    /\ pending \in [Clients -> Seq(Event)]
    /\ existing \in [Clients -> Row \cup {NoRow}]
    /\ seen \in [Clients -> Nat]
    /\ acked \cup refused \subseteq 0 .. commands

\* Whatever races, conflicts and faults there are, the row of a device never
\* claims a version whose events are not stored: the events are committed first.
RowNeverAhead ==
    \A d \in Devices : rows[d] # NoRow => rows[d].version <= Len(events[d])

\* A command that returned success has its events in the store, under a device
\* that has a row: the history behind every acknowledged change is complete.
AckedIsStored ==
    \A n \in acked \ {0} : \E d \in Devices :
        rows[d] # NoRow /\ \E i \in DOMAIN events[d] : events[d][i].cmd = n

\* A command refused with a concurrency conflict leaves no event behind.
ConflictLeavesNothing ==
    \A n \in refused, d \in Devices : \A i \in DOMAIN events[d] : events[d][i].cmd # n

\* Stored events are never changed, reordered or removed.
EventsAppendOnly ==
    [][\A d \in Devices : /\ Len(events[d]) <= Len(events'[d])
                          /\ SubSeq(events'[d], 1, Len(events[d])) = events[d]]_vars

\* Between commands the row's version is the number of its events, so that the
\* next command on the device is not refused.
VersionMatchesEvents ==
    \A d \in Devices :
        rows[d] # NoRow /\ (\A c \in Clients : dev[c] = d => pc[c] \notin {"stored", "saved"})
            => rows[d].version = Len(events[d])

\* What the documentation calls version-based concurrency control: the events
\* of a device are numbered 1, 2, 3, ..., no two of them with the same version.
EventsNumbered ==
    \A d \in Devices : \A i \in DOMAIN events[d] : events[d][i].version = i

\* What the documentation calls optimistic locking: a command is refused only
\* if another one has changed the device since this one loaded it.
NoFalseConflict ==
    [][\A c \in Clients :
          refused' # refused /\ cmd[c] \in refused' \ refused
              => Len(events[dev[c]]) # seen[c]]_vars

\* The answers given hold: what was acknowledged is stored, what was refused is not.
AnswersHold == AckedIsStored /\ ConflictLeavesNothing

\* A client that is alone sees what the documentation says: rows and events agree on the
\* version, events are numbered without a gap, and no command is refused.
SingleClientUndisturbed == [](VersionMatchesEvents /\ EventsNumbered) /\ NoFalseConflict

=============================================================================
