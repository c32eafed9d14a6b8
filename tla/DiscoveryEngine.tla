---------------------------- MODULE DiscoveryEngine ----------------------------
(***************************************************************************)
(* DiscoveryEngine and DeviceRegistry of discovery/core.py: concurrent     *)
(* calls of discover_all, each with one task per protocol, merging what    *)
(* the protocols find into one registry keyed by device id and by IP.      *)
(*                                                                         *)
(* A call suspends only while it awaits a protocol's task: the registry    *)
(* lock is never held across a suspension, so a call adds all the devices  *)
(* of a result in one step.  A caller may give up waiting (the scheduler's *)
(* wait_for): that cancels the task being awaited, and leaves the others   *)
(* running with nobody to collect them.                                    *)
(***************************************************************************)
EXTENDS Integers, Sequences, FiniteSets

CONSTANTS
    Callers,    \* the tasks that call discover_all, one call at a time
    Protocols,  \* the registered protocols
    Requests,   \* the lists of protocol names callers ask for
    Ips,        \* the addresses protocols find
    TTL,        \* config.discovery.cache_ttl
    Nobody,     \* no device id, no name
    MaxCalls,   \* bound: calls per caller
    MaxTime     \* bound: the clock stops here

\* Device.device_id is a fresh UUID for each object a protocol makes.
Ids == Callers \X (1 .. MaxCalls) \X Protocols \X Ips

IsRegistered(p) == p \in Protocols
Registered(request) == SelectSeq(request, IsRegistered)

ASSUME EngineAssumption ==
    /\ Nobody \notin Protocols /\ Nobody \notin Ids
    /\ \A request \in Requests : Registered(request) \in Seq(Protocols)
    /\ \A request \in Requests : \A k, l \in DOMAIN request :
          request[k] = request[l] => k = l
    /\ TTL \in Nat /\ MaxCalls \in Nat /\ MaxTime \in Nat

VARIABLES
    now,      \* the clock
    devices,  \* _devices: id -> [ip, seen, name, services]
    ipMap,    \* _ip_to_device: ip -> id or Nobody
    tasks,    \* per caller: the tasks its call has not collected, the awaited one first
    active,   \* per caller: a call is under way
    calls,    \* per caller: calls made
    orphans   \* per protocol: running tasks nobody awaits

callVars == <<tasks, active, calls, orphans>>
registryVars == <<devices, ipMap>>
vars == <<now, registryVars, callVars>>

Device == [ip : Ips, seen : 0 .. MaxTime,
           name : Protocols \cup {Nobody}, services : SUBSET Protocols]
TaskState == {"running", "done", "failed"}
Task == [protocol : Protocols, st : TaskState, found : SUBSET Ips,
         at : 0 .. MaxTime, named : BOOLEAN]

Init ==
    /\ now = 0
    /\ devices = [d \in {} |-> Nobody]
    /\ ipMap = [i \in Ips |-> Nobody]
    /\ tasks = [c \in Callers |-> <<>>]
    /\ active = [c \in Callers |-> FALSE]
    /\ calls = [c \in Callers |-> 0]
    /\ orphans = [p \in Protocols |-> 0]

Tick ==
    /\ now < MaxTime
    /\ now' = now + 1
    /\ UNCHANGED <<registryVars, callVars>>

-----------------------------------------------------------------------------
(* DeviceRegistry *)

Known(i) == ipMap[i] \in DOMAIN devices

\* Mutant of Merged: what is found last replaces what was known.
MergedReplacing(d, t) ==
    [d EXCEPT !.seen = now,
              !.name = IF t.named THEN t.protocol ELSE @,
              !.services = {t.protocol}]

\* add_device for a device at a known address: the registered one is touched and
\* completed; a name it has is kept, services are united.
Merged(d, t) ==
    [d EXCEPT !.seen = now,
              !.name = IF @ = Nobody /\ t.named THEN t.protocol ELSE @,
              !.services = @ \cup {t.protocol}]

NewDevice(i, t) ==
    [ip |-> i, seen |-> t.at, name |-> IF t.named THEN t.protocol ELSE Nobody,
     services |-> {t.protocol}]

\* The addresses a task found that the registry does not know, and the registered
\* devices it found again.
New(t) == {i \in t.found : ~Known(i)}
Again(t) == {ipMap[i] : i \in t.found \ New(t)}

\* add_device for every device of the result of task t of call n of caller c.
AddDevices(c, n, t) ==
    LET Id(i) == <<c, n, t.protocol, i>>
    IN /\ devices' = [d \in DOMAIN devices \cup {Id(i) : i \in New(t)} |->
                        IF d \in Again(t) THEN Merged(devices[d], t)
                        ELSE IF d \in DOMAIN devices THEN devices[d]
                        ELSE NewDevice(d[4], t)]
       /\ ipMap' = [i \in Ips |-> IF i \in New(t) THEN Id(i) ELSE ipMap[i]]

\* Mutant of Forget: the addresses are left in _ip_to_device.
ForgetDevicesOnly(gone) ==
    /\ devices' = [d \in DOMAIN devices \ gone |-> devices[d]]
    /\ UNCHANGED ipMap

Forget(gone) ==
    /\ devices' = [d \in DOMAIN devices \ gone |-> devices[d]]
    /\ ipMap' = [i \in Ips |->
                   IF i \in {devices[d].ip : d \in gone} THEN Nobody ELSE ipMap[i]]

RemoveDevice(d) ==
    /\ d \in DOMAIN devices
    /\ Forget({d})
    /\ UNCHANGED <<now, callVars>>

IsStale(d) == now - devices[d].seen > TTL

CleanupStaleDevices ==
    /\ \E d \in DOMAIN devices : IsStale(d)
    /\ Forget({d \in DOMAIN devices : IsStale(d)})
    /\ UNCHANGED <<now, callVars>>

-----------------------------------------------------------------------------
(* DiscoveryEngine.discover_all *)

\* One task for each requested name that is a registered protocol.
DiscoverAll(c, request) ==
    /\ ~active[c]
    /\ calls[c] < MaxCalls
    /\ LET known == Registered(request)
       IN tasks' = [tasks EXCEPT ![c] =
              [k \in 1 .. Len(known) |->
                 [protocol |-> known[k], st |-> "running", found |-> {},
                  at |-> now, named |-> FALSE]]]
    /\ active' = [active EXCEPT ![c] = TRUE]
    /\ calls' = [calls EXCEPT ![c] = @ + 1]
    /\ UNCHANGED <<now, registryVars, orphans>>

\* A protocol's discover() returns (a failure it catches itself is a result
\* without devices) or raises.
TaskReturns(c, k, found, named) ==
    /\ k \in DOMAIN tasks[c]
    /\ tasks[c][k].st = "running"
    /\ tasks' = [tasks EXCEPT ![c][k] =
                   [@ EXCEPT !.st = "done", !.found = found, !.at = now, !.named = named]]
    /\ UNCHANGED <<now, registryVars, active, calls, orphans>>

TaskRaises(c, k) ==
    /\ k \in DOMAIN tasks[c]
    /\ tasks[c][k].st = "running"
    /\ tasks' = [tasks EXCEPT ![c][k].st = "failed"]
    /\ UNCHANGED <<now, registryVars, active, calls, orphans>>

Awaits(c) == tasks[c] # <<>>
Awaited(c) == Head(tasks[c])
MoveOn(c) == tasks' = [tasks EXCEPT ![c] = Tail(@)]

\* The awaited task has a result: its devices go to the result (which only the
\* caller sees) and to the registry.
Collect(c) ==
    /\ Awaits(c)
    /\ Awaited(c).st = "done"
    /\ AddDevices(c, calls[c], Awaited(c))
    /\ MoveOn(c)
    /\ UNCHANGED <<now, active, calls, orphans>>

\* Mutant of Skip: the failed task stays the awaited one.
SkipStays(c) ==
    /\ Awaits(c)
    /\ Awaited(c).st = "failed"
    /\ UNCHANGED vars

\* The awaited task has raised: the failure is logged, the others go on.
Skip(c) ==
    /\ Awaits(c)
    /\ Awaited(c).st = "failed"
    /\ MoveOn(c)
    /\ UNCHANGED <<now, registryVars, active, calls, orphans>>

Return(c) ==
    /\ active[c] /\ ~Awaits(c)
    /\ active' = [active EXCEPT ![c] = FALSE]
    /\ UNCHANGED <<now, registryVars, tasks, calls, orphans>>

\* Mutant of Cancelled: the call's tasks stay its own.
CancelledKeepsTasks(c) ==
    /\ Awaits(c)
    /\ active' = [active EXCEPT ![c] = FALSE]
    /\ UNCHANGED <<now, registryVars, tasks, calls, orphans>>

\* The caller is cancelled while it waits: the awaited task is cancelled with
\* it, the tasks behind it run on, and results not collected yet are dropped.
Cancelled(c) ==
    /\ Awaits(c)
    /\ orphans' = [p \in Protocols |-> orphans[p]
          + Cardinality({k \in 2 .. Len(tasks[c]) :
                            tasks[c][k].protocol = p /\ tasks[c][k].st = "running"})]
    /\ active' = [active EXCEPT ![c] = FALSE]
    /\ tasks' = [tasks EXCEPT ![c] = <<>>]
    /\ UNCHANGED <<now, registryVars, calls>>

OrphanEnds(p) ==
    /\ orphans[p] > 0
    /\ orphans' = [orphans EXCEPT ![p] = @ - 1]
    /\ UNCHANGED <<now, registryVars, tasks, active, calls>>

-----------------------------------------------------------------------------
TaskEnds(c, k) ==
    \/ \E found \in SUBSET Ips, named \in BOOLEAN : TaskReturns(c, k, found, named)
    \/ TaskRaises(c, k)

Resumes(c) == Collect(c) \/ Skip(c) \/ Return(c)

Next ==
    \/ Tick
    \/ \E d \in DOMAIN devices : RemoveDevice(d)
    \/ CleanupStaleDevices
    \/ \E c \in Callers :
          \/ \E request \in Requests : DiscoverAll(c, request)
          \/ \E k \in DOMAIN tasks[c] : TaskEnds(c, k)
          \/ Resumes(c)
          \/ Cancelled(c)
    \/ \E p \in Protocols : OrphanEnds(p)

Spec == Init /\ [][Next]_vars

\* The event loop resumes a call whose awaited task is done, and protocols bound
\* their waits with timeouts of their own, so their tasks end.
FairSpec ==
    /\ Spec
    /\ \A c \in Callers : WF_vars(Resumes(c)) /\ WF_vars(\E k \in DOMAIN tasks[c] : TaskEnds(c, k))

-----------------------------------------------------------------------------
(* Properties *)

\* The shape of the state; tasks are awaited by a call under way only.
TypeOK ==
    /\ now \in 0 .. MaxTime
    /\ DOMAIN devices \subseteq Ids
    /\ \A d \in DOMAIN devices : devices[d] \in Device
    /\ ipMap \in [Ips -> Ids \cup {Nobody}]
    /\ tasks \in [Callers -> Seq(Task)]
    /\ \A c \in Callers : tasks[c] # <<>> => active[c] /\ calls[c] > 0
    /\ calls \in [Callers -> 0 .. MaxCalls]
    /\ active \in [Callers -> BOOLEAN]
    /\ orphans \in [Protocols -> Nat]

\* _devices and _ip_to_device stay inverse to each other, so that an address never
\* has two devices, whatever calls, removals and cleanups interleave.
RegistryConsistent ==
    /\ \A d \in DOMAIN devices : ipMap[devices[d].ip] = d
    /\ \A i \in Ips : ipMap[i] # Nobody => /\ ipMap[i] \in DOMAIN devices
                                           /\ devices[ipMap[i]].ip = i

\* Rediscovery only adds: while a device stays registered its address and its name,
\* once it has one, never change, and it loses no service and never grows older.
MergeKeepsKnowledge ==
    [][\A d \in DOMAIN devices \cap DOMAIN devices' :
          /\ devices'[d].ip = devices[d].ip
          /\ devices[d].name # Nobody => devices'[d].name = devices[d].name
          /\ devices[d].services \subseteq devices'[d].services
          /\ devices[d].seen <= devices'[d].seen]_vars

\* A call of discover_all ends, although any of its protocols may fail.
CallEnds == \A c \in Callers : active[c] ~> ~active[c]

=============================================================================
