----------------------------- MODULE DeviceGroups -----------------------------
(***************************************************************************)
(* Groups of devices, with the counts each keeps of its devices, changed   *)
(* in one session; and the statuses of the devices, which others change    *)
(* meanwhile.                                                              *)
(***************************************************************************)
EXTENDS Naturals, FiniteSets, Sequences

CONSTANTS GroupedDevices, Groups, NoGroup, MaxCount

ASSUME GroupAssumption == MaxCount \in Nat \ {0} /\ NoGroup \notin Groups /\ IsFiniteSet(GroupedDevices)

VARIABLES
    online,          \* the devices that are online
    seenOnline,      \* those of them the session has seen so
    group, counts,   \* the group of each device, and the counts, in the session
    committed,       \* both as they are stored
    readded,         \* history: in the session, a device was added that had a group
    strayed          \* history: a device of a group changed its status, or was seen with an old one

groupVars == <<online, seenOnline, group, counts, committed, readded, strayed>>
sessionVars == <<seenOnline, group, counts, committed, readded>>

GroupsInit ==
    /\ online \in SUBSET GroupedDevices /\ seenOnline = online
    /\ group = [d \in GroupedDevices |-> NoGroup]
    /\ counts = [g \in Groups |-> [devices |-> 0, active |-> 0]]
    /\ committed = [group |-> group, counts |-> counts, readded |-> FALSE] /\ readded = FALSE
    /\ strayed = FALSE

InSession == [group |-> group, counts |-> counts, readded |-> readded]

-----------------------------------------------------------------------------
(* GroupedDevices come and go *)

Stray(ds) ==
    strayed' = (strayed \/ \E d \in ds : group[d] # NoGroup \/ committed.group[d] # NoGroup)

\* update_heartbeat brings a device back that is offline.
Heartbeat(d) ==
    /\ d \notin online
    /\ online' = online \cup {d}
    /\ Stray({d}) /\ UNCHANGED sessionVars

\* mark_devices_offline, for devices found stale.
MarkDevicesOffline(ds) ==
    /\ ds # {} /\ ds \subseteq online
    /\ online' = online \ ds
    /\ Stray(ds) /\ UNCHANGED sessionVars

-----------------------------------------------------------------------------
(* The session that changes groups *)

Seen(d) == strayed' = (strayed \/ (d \in online) # (d \in seenOnline)) /\ UNCHANGED online

\* The session loads the device anew.
LoadDevice(d) ==
    /\ (d \in online) # (d \in seenOnline)
    /\ seenOnline' = IF d \in online THEN seenOnline \cup {d} ELSE seenOnline \ {d}
    /\ UNCHANGED <<online, group, counts, committed, readded, strayed>>

\* What the checks of the table, and the validators of the model, let through: each change
\* is flushed before the next.
Permitted(c) == \A g \in Groups : c[g].active <= c[g].devices

AddDevice(g, d) ==
    /\ Permitted(counts)
    /\ counts[g].devices < MaxCount
    /\ group' = [group EXCEPT ![d] = g]
    /\ counts' = [counts EXCEPT ![g] =
           [devices |-> @.devices + 1, active |-> @.active + IF d \in seenOnline THEN 1 ELSE 0]]
    /\ readded' = (readded \/ group[d] # NoGroup)
    /\ Seen(d) /\ UNCHANGED <<seenOnline, committed>>

Less(n) == IF n = 0 THEN 0 ELSE n - 1

MayRemove(g, d) == group[d] = g

\* A device counts as active by the status it has now, whatever it had when it was added.
RemoveDevice(g, d) ==
    /\ Permitted(counts) /\ MayRemove(g, d)
    /\ group' = [group EXCEPT ![d] = NoGroup]
    /\ counts' = [counts EXCEPT ![g] =
           [devices |-> Less(@.devices), active |-> IF d \in seenOnline THEN Less(@.active) ELSE @.active]]
    /\ Seen(d) /\ UNCHANGED <<seenOnline, committed, readded>>

CommitGroups ==
    /\ Permitted(counts) /\ committed # InSession
    /\ committed' = InSession
    /\ UNCHANGED <<online, seenOnline, group, counts, readded, strayed>>

\* A check of the table fails at the flush, or something else does: everything the session has
\* done goes.
RollbackGroups ==
    /\ committed # InSession
    /\ group' = committed.group /\ counts' = committed.counts /\ readded' = committed.readded
    /\ seenOnline' = online
    /\ UNCHANGED <<online, committed, strayed>>

GroupsNext ==
    \/ \E d \in GroupedDevices : Heartbeat(d) \/ LoadDevice(d)
    \/ \E ds \in SUBSET GroupedDevices : MarkDevicesOffline(ds)
    \/ \E g \in Groups, d \in GroupedDevices : AddDevice(g, d) \/ RemoveDevice(g, d)
    \/ CommitGroups \/ RollbackGroups

-----------------------------------------------------------------------------
(* Properties *)

Members(g) == {d \in GroupedDevices : committed.group[d] = g}

\* The stored count of a group covers the devices that belong to it, through moves between groups,
\* removals and rollbacks, and counts no other unless a device was added that had a group.
CountsCoverMembers ==
    \A g \in Groups :
        /\ committed.counts[g].devices >= Cardinality(Members(g))
        /\ committed.readded \/ committed.counts[g].devices = Cardinality(Members(g))

\* The stored count of active devices is that of the members online, as long as no device changed
\* its status while it belonged to a group: nothing follows such a change.
ActiveFollowsMembers ==
    strayed \/ committed.readded \/
    \A g \in Groups : committed.counts[g].active = Cardinality(Members(g) \cap online)

GroupInv == CountsCoverMembers /\ ActiveFollowsMembers

=============================================================================
