------------------------------ MODULE MemoryStore ------------------------------
(***************************************************************************)
(* Device aggregates, and the unit of work, repository and event store     *)
(* that keep them in memory.  Nothing suspends, so an operation is a step. *)
(* The repository holds the aggregates themselves: what is done to one is  *)
(* seen by all who have it, committed or not.                              *)
(***************************************************************************)
EXTENDS Naturals, FiniteSets, Sequences, SequencesExt

CONSTANTS
    MemoryDevices,
    MaxHistory,     \* metrics an aggregate keeps: 100
    MaxRaised       \* bound: events raised by all devices

ASSUME MemoryAssumption == MaxHistory \in Nat /\ MaxRaised \in Nat

VARIABLES
    versionOf,      \* of each device, 0 before it is created
    uncommitted,    \* the events of its aggregate that are to be stored
    metricsOf,      \* the metrics its aggregate keeps
    kept,           \* the devices in the repository
    streams, global,    \* the event store: the events of each device, and of all
    tracked, isCommitted, \* of the unit of work
    raised,         \* how many events were raised; each is known by its number
    outstanding,    \* history: the events each device has raised since the store was cleared
    measured,       \* history: all metrics of each device
    odd             \* history: devices that were configured, or stored before the store was cleared

aggregateVars == <<versionOf, uncommitted, metricsOf, raised, outstanding, measured>>
memoryStoreVars == <<streams, global>>
unitVars == <<kept, tracked, isCommitted>>
memoryVars == <<aggregateVars, memoryStoreVars, unitVars, odd>>

MemoryInit ==
    /\ versionOf = [d \in MemoryDevices |-> 0]
    /\ uncommitted = [d \in MemoryDevices |-> <<>>]
    /\ metricsOf = [d \in MemoryDevices |-> <<>>]
    /\ kept = {} /\ tracked = <<>> /\ isCommitted = FALSE
    /\ streams = [d \in MemoryDevices |-> <<>>] /\ global = <<>>
    /\ raised = 0
    /\ outstanding = [d \in MemoryDevices |-> <<>>]
    /\ measured = [d \in MemoryDevices |-> <<>>]
    /\ odd = {}

-----------------------------------------------------------------------------
(* Aggregates *)

AddEvent(d) ==
    /\ raised < MaxRaised /\ raised' = raised + 1
    /\ uncommitted' = [uncommitted EXCEPT ![d] = Append(@, raised')]
    /\ outstanding' = [outstanding EXCEPT ![d] = Append(@, raised')]
    /\ UNCHANGED <<memoryStoreVars, unitVars>>

CreateDevice(d) ==
    /\ versionOf[d] = 0 /\ versionOf' = [versionOf EXCEPT ![d] = 1]
    /\ AddEvent(d)
    /\ UNCHANGED <<metricsOf, measured, odd>>

\* A new name or status.
UpdateDevice(d) ==
    /\ versionOf[d] > 0 /\ versionOf' = [versionOf EXCEPT ![d] = @ + 1]
    /\ AddEvent(d)
    /\ UNCHANGED <<metricsOf, measured, odd>>

\* A configuration has a version of its own.
ConfigureDevice(d) ==
    /\ versionOf[d] > 0
    /\ AddEvent(d)
    /\ odd' = odd \cup {d}
    /\ UNCHANGED <<versionOf, metricsOf, measured>>

Newest(s) == IF Len(s) > MaxHistory THEN SubSeq(s, Len(s) - MaxHistory + 1, Len(s)) ELSE s

RecordMetrics(d) ==
    /\ versionOf[d] > 0 /\ versionOf' = [versionOf EXCEPT ![d] = @ + 1]
    /\ AddEvent(d)
    /\ metricsOf' = [metricsOf EXCEPT ![d] = Newest(Append(@, raised'))]
    /\ measured' = [measured EXCEPT ![d] = Append(@, raised')]
    /\ UNCHANGED odd

-----------------------------------------------------------------------------
(* The repository *)

SaveDevice(d) ==
    /\ versionOf[d] > 0 /\ kept' = kept \cup {d}
    /\ UNCHANGED <<aggregateVars, memoryStoreVars, tracked, isCommitted, odd>>

DropDevice(d) ==
    /\ d \in kept /\ kept' = kept \ {d}
    /\ UNCHANGED <<aggregateVars, memoryStoreVars, tracked, isCommitted, odd>>

-----------------------------------------------------------------------------
(* The unit of work *)

Track(d) ==
    /\ versionOf[d] > 0 /\ d \notin ToSet(tracked)
    /\ tracked' = Append(tracked, d)
    /\ UNCHANGED <<aggregateVars, memoryStoreVars, kept, isCommitted, odd>>

\* The event store refuses events that do not follow those it has.
Refused(d) == uncommitted[d] # <<>> /\ Len(streams[d]) # versionOf[d] - Len(uncommitted[d])

\* How many devices come before the first one that is refused.
Accepted(ds) == Cardinality({i \in DOMAIN ds : \A j \in 1..i : ~Refused(ds[j])})

\* All events, with those of the first n devices stored one device after the other.
StoredThrough(ds, n) ==
    LET all[k \in 0..n] == IF k = 0 THEN global ELSE all[k - 1] \o uncommitted[ds[k]] IN all[n]

\* An aggregate forgets its events once they are stored, so that they are not stored twice.
Forgotten(done) == [d \in MemoryDevices |-> IF d \in done THEN <<>> ELSE uncommitted[d]]

\* A commit that fails is rolled back: what it has stored remains, and nothing is tracked any more.
Commit ==
    LET n == Accepted(tracked)
        done == {tracked[i] : i \in 1..n}
    IN
    /\ ~isCommitted
    /\ streams' = [d \in MemoryDevices |-> IF d \in done THEN streams[d] \o uncommitted[d] ELSE streams[d]]
    /\ global' = StoredThrough(tracked, n)
    /\ uncommitted' = Forgotten(done)
    /\ IF n = Len(tracked) THEN isCommitted' = TRUE /\ UNCHANGED tracked
       ELSE isCommitted' = FALSE /\ tracked' = <<>>
    /\ UNCHANGED <<versionOf, metricsOf, kept, raised, outstanding, measured, odd>>

\* A second commit raises before it has done anything.
CommitAgain == isCommitted /\ UNCHANGED memoryVars

\* Called, or by leaving the unit of work uncommitted or with an exception.
Rollback ==
    /\ tracked # <<>> /\ tracked' = <<>>
    /\ UNCHANGED <<aggregateVars, memoryStoreVars, kept, isCommitted, odd>>

\* Who still has an aggregate can go on with it.
ClearMemory ==
    /\ kept' = {} /\ tracked' = <<>>
    /\ streams' = [d \in MemoryDevices |-> <<>>] /\ global' = <<>>
    /\ outstanding' = uncommitted
    /\ odd' = odd \cup {d \in MemoryDevices : streams[d] # <<>>}
    /\ UNCHANGED <<versionOf, uncommitted, metricsOf, isCommitted, raised, measured>>

MemoryNext ==
    \/ \E d \in MemoryDevices :
        \/ CreateDevice(d) \/ UpdateDevice(d) \/ ConfigureDevice(d) \/ RecordMetrics(d)
        \/ SaveDevice(d) \/ DropDevice(d) \/ Track(d)
    \/ Commit \/ CommitAgain \/ Rollback \/ ClearMemory

MemorySpec == MemoryInit /\ [][MemoryNext]_memoryVars

-----------------------------------------------------------------------------
(* Properties *)

\* Whatever commits fail half-way, are rolled back or tried again, every event a device has raised
\* is stored once, in its order, or is still to be stored.
StoredOnce == \A d \in MemoryDevices : streams[d] \o uncommitted[d] = outstanding[d]

\* The stream of all events has those of each device in their order, each of them once, and no others.
StreamsAgree ==
    /\ \A i, j \in DOMAIN global : global[i] = global[j] => i = j
    /\ ToSet(global) = UNION {ToSet(streams[d]) : d \in MemoryDevices}
    /\ \A d \in MemoryDevices : \A i, j \in DOMAIN streams[d] : \A m, n \in DOMAIN global :
           i < j /\ global[m] = streams[d][i] /\ global[n] = streams[d][j] => m < n

\* The commit of a device is refused only if it was configured, or stored before the store was
\* cleared: its version counts the events it has raised.
NeverRefusedInVain == \A d \in MemoryDevices : Refused(d) => d \in odd

\* An aggregate keeps its latest metrics, as many as it may.
LatestMetrics ==
    \A d \in MemoryDevices :
        LET all == measured[d] IN
        /\ IsSuffix(metricsOf[d], all)
        /\ Len(metricsOf[d]) = IF Len(all) < MaxHistory THEN Len(all) ELSE MaxHistory

MemoryInv == StoredOnce /\ StreamsAgree /\ NeverRefusedInVain /\ LatestMetrics

=============================================================================
