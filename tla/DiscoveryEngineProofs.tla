------------------------- MODULE DiscoveryEngineProofs -------------------------
(* Theorems about DiscoveryEngine: the types, the registry, and what a merge keeps. *)
EXTENDS DiscoveryEngine, FiniteSetTheorems, TLAPS

-----------------------------------------------------------------------------
(* Types *)

\* The awaited task of a call is a task, and the tasks behind it form a sequence.
LEMMA TasksType ==
  ASSUME NEW ts \in Seq(Task), ts # <<>>
  PROVE  Head(ts) \in Task /\ Tail(ts) \in Seq(Task)
  OBVIOUS

\* What add_device makes of a device is a device.
LEMMA MergedType ==
  ASSUME NEW d \in Device, NEW t \in Task, now \in 0 .. MaxTime
  PROVE  Merged(d, t) \in Device
  BY DEF Merged, Device, Task

\* What add_device makes of an address it does not know is a device at that address.
LEMMA NewType ==
  ASSUME NEW i \in Ips, NEW t \in Task
  PROVE  NewDevice(i, t) \in Device /\ NewDevice(i, t).ip = i
  BY DEF NewDevice, Device, Task

\* The id of the device that task t of call n of caller c finds at address i.
Id(c, n, t, i) == <<c, n, t.protocol, i>>

\* AddDevices by cases: registered devices are kept or merged, new ones are made
\* for the addresses nobody knew, and those are mapped to them.
LEMMA Added ==
  ASSUME TypeOK, NEW c \in Callers, NEW n \in 1 .. MaxCalls, NEW t \in Task, AddDevices(c, n, t)
  PROVE  /\ New(t) \subseteq Ips
         /\ \A i \in New(t) : Id(c, n, t, i) \in Ids /\ Id(c, n, t, i)[4] = i
         /\ DOMAIN devices' = DOMAIN devices \cup {Id(c, n, t, i) : i \in New(t)}
         /\ \A d \in DOMAIN devices :
               devices'[d] = IF d \in Again(t) THEN Merged(devices[d], t) ELSE devices[d]
         /\ \A i \in New(t) : Id(c, n, t, i) \notin DOMAIN devices
                                 => devices'[Id(c, n, t, i)] = NewDevice(i, t)
         /\ ipMap' = [i \in Ips |-> IF i \in New(t) THEN Id(c, n, t, i) ELSE ipMap[i]]
  <1>1. devices' = [d \in DOMAIN devices \cup {Id(c, n, t, i) : i \in New(t)} |->
                      IF d \in Again(t) THEN Merged(devices[d], t)
                      ELSE IF d \in DOMAIN devices THEN devices[d]
                      ELSE NewDevice(d[4], t)]
    BY DEF AddDevices, Id
  <1>2. New(t) \subseteq Ips
    BY DEF New, Task
  <1>3. \A i \in New(t) : Id(c, n, t, i) \in Ids /\ Id(c, n, t, i)[4] = i
    BY <1>2 DEF Ids, Id, Task
  <1>4. Again(t) \subseteq DOMAIN devices
    BY DEF Again, New, Known
  <1>5. ipMap' = [i \in Ips |-> IF i \in New(t) THEN Id(c, n, t, i) ELSE ipMap[i]]
    BY DEF AddDevices, Id
  <1>6. \A i \in New(t) : Id(c, n, t, i) \notin DOMAIN devices
                             => devices'[Id(c, n, t, i)] = NewDevice(i, t)
    BY <1>1, <1>3, <1>4
  <1> QED
    BY <1>1, <1>2, <1>3, <1>5, <1>6

\* The initial state has the right types.
LEMMA TypeInit == Init => TypeOK
  BY EngineAssumption DEF Init, TypeOK

\* Adding the devices of a result keeps the types of the registry.
LEMMA TypeAdd ==
  ASSUME TypeOK, NEW c \in Callers, NEW n \in 1 .. MaxCalls, NEW t \in Task, AddDevices(c, n, t)
  PROVE  /\ DOMAIN devices' \subseteq Ids
         /\ \A d \in DOMAIN devices' : devices'[d] \in Device
         /\ ipMap' \in [Ips -> Ids \cup {Nobody}]
  <1>1. /\ New(t) \subseteq Ips
        /\ \A i \in New(t) : Id(c, n, t, i) \in Ids /\ Id(c, n, t, i)[4] = i
        /\ DOMAIN devices' = DOMAIN devices \cup {Id(c, n, t, i) : i \in New(t)}
        /\ \A d \in DOMAIN devices :
              devices'[d] = IF d \in Again(t) THEN Merged(devices[d], t) ELSE devices[d]
        /\ \A i \in New(t) : Id(c, n, t, i) \notin DOMAIN devices
                                => devices'[Id(c, n, t, i)] = NewDevice(i, t)
        /\ ipMap' = [i \in Ips |-> IF i \in New(t) THEN Id(c, n, t, i) ELSE ipMap[i]]
    BY Added, SMTT(30)
  <1>2. DOMAIN devices' \subseteq Ids
    BY <1>1 DEF TypeOK
  <1>3. ASSUME NEW d \in DOMAIN devices PROVE devices'[d] \in Device
    <2>1. devices[d] \in Device /\ now \in 0 .. MaxTime
      BY DEF TypeOK
    <2>2. Merged(devices[d], t) \in Device
      BY <2>1, MergedType
    <2> QED
      BY <1>1, <2>1, <2>2
  <1>4. \A i \in New(t) : Id(c, n, t, i) \notin DOMAIN devices => devices'[Id(c, n, t, i)] \in Device
    BY <1>1, NewType
  <1>5. ipMap' \in [Ips -> Ids \cup {Nobody}]
    BY <1>1 DEF TypeOK
  <1>6. ASSUME NEW d \in DOMAIN devices' PROVE devices'[d] \in Device
    <2>1. CASE d \in DOMAIN devices
      BY <1>3, <2>1
    <2>2. CASE d \notin DOMAIN devices
      <3>1. PICK i \in New(t) : d = Id(c, n, t, i)
        BY <1>1, <2>2
      <3> QED
        BY <1>4, <2>2, <3>1
    <2> QED
      BY <2>1, <2>2
  <1> QED
    BY <1>2, <1>5, <1>6

\* Every step keeps the types.
LEMMA TypeNext == TypeOK /\ [Next]_vars => TypeOK'
  <1> SUFFICES ASSUME TypeOK, [Next]_vars PROVE TypeOK'
    OBVIOUS
  <1> USE DEF TypeOK
  <1>0. MaxTime \in Nat /\ MaxCalls \in Nat
    BY EngineAssumption
  <1>1. CASE Tick
    BY <1>0, <1>1 DEF Tick, registryVars, callVars
  <1>2. ASSUME NEW gone \in SUBSET DOMAIN devices, Forget(gone), UNCHANGED <<now, callVars>>
        PROVE  TypeOK'
    BY <1>2 DEF Forget, callVars
  <1>3. CASE \E d \in DOMAIN devices : RemoveDevice(d)
    BY <1>2, <1>3 DEF RemoveDevice
  <1>4. CASE CleanupStaleDevices
    BY <1>2, <1>4 DEF CleanupStaleDevices
  <1>5. ASSUME NEW c \in Callers, NEW request \in Requests, DiscoverAll(c, request) PROVE TypeOK'
    <2>1. Registered(request) \in Seq(Protocols)
      BY EngineAssumption
    <2> DEFINE new == [k \in 1 .. Len(Registered(request)) |->
                         [protocol |-> Registered(request)[k], st |-> "running", found |-> {},
                          at |-> now, named |-> FALSE]]
    <2>2. new \in Seq(Task)
      BY <2>1 DEF Task, TaskState
    <2>3. tasks' = [tasks EXCEPT ![c] = new]
      BY <1>5 DEF DiscoverAll
    <2> HIDE DEF new
    <2>4. tasks' \in [Callers -> Seq(Task)]
      BY <2>2, <2>3
    <2>5. /\ active' = [active EXCEPT ![c] = TRUE]
          /\ calls' = [calls EXCEPT ![c] = @ + 1] /\ calls[c] < MaxCalls
          /\ UNCHANGED <<now, devices, ipMap, orphans>>
      BY <1>5 DEF DiscoverAll, registryVars
    <2>6. \A o \in Callers : tasks'[o] # <<>> => active'[o] /\ calls'[o] > 0
      BY <2>3, <2>5
    <2> QED
      BY <1>0, <2>4, <2>5, <2>6
  <1>6. ASSUME NEW c \in Callers, NEW k \in DOMAIN tasks[c], TaskEnds(c, k) PROVE TypeOK'
    <2>1. /\ tasks[c] # <<>> /\ tasks[c][k] \in Task
          /\ \A t \in Task : /\ [tasks[c] EXCEPT ![k] = t] \in Seq(Task)
                             /\ [tasks[c] EXCEPT ![k] = t] # <<>>
      OBVIOUS
    <2>2. ASSUME NEW found \in SUBSET Ips, NEW named \in BOOLEAN, TaskReturns(c, k, found, named)
          PROVE  TypeOK'
      <3> DEFINE t == [tasks[c][k] EXCEPT !.st = "done", !.found = found, !.at = now, !.named = named]
      <3>1. t \in Task
        BY <2>1 DEF Task, TaskState
      <3>2. tasks' = [tasks EXCEPT ![c] = [tasks[c] EXCEPT ![k] = t]]
        BY <2>2 DEF TaskReturns
      <3> HIDE DEF t
      <3> QED
        BY <2>1, <2>2, <3>1, <3>2 DEF TaskReturns, registryVars
    <2>3. CASE TaskRaises(c, k)
      <3> DEFINE t == [tasks[c][k] EXCEPT !.st = "failed"]
      <3>1. t \in Task
        BY <2>1 DEF Task, TaskState
      <3>2. tasks' = [tasks EXCEPT ![c] = [tasks[c] EXCEPT ![k] = t]]
        BY <2>3 DEF TaskRaises
      <3> HIDE DEF t
      <3>3. PICK s \in Seq(Task) : tasks' = [tasks EXCEPT ![c] = s]
        BY <2>1, <3>1, <3>2
      <3>4. UNCHANGED <<now, devices, ipMap, active, calls, orphans>>
        BY <2>3 DEF TaskRaises, registryVars
      <3>5. \A d \in Callers : tasks'[d] # <<>> => tasks[d] # <<>>
        BY <2>1, <3>3
      <3> QED
        BY <3>3, <3>4, <3>5
    <2> QED
      BY <1>6, <2>2, <2>3 DEF TaskEnds
  <1>7. ASSUME NEW c \in Callers, Collect(c) PROVE TypeOK'
    <2>1. Awaited(c) \in Task /\ Tail(tasks[c]) \in Seq(Task) /\ calls[c] \in 1 .. MaxCalls
      BY <1>7, TasksType DEF Collect, Awaits, Awaited
    <2>2. AddDevices(c, calls[c], Awaited(c)) /\ tasks' = [tasks EXCEPT ![c] = Tail(@)]
      BY <1>7 DEF Collect, MoveOn
    <2>3. /\ DOMAIN devices' \subseteq Ids
          /\ \A d \in DOMAIN devices' : devices'[d] \in Device
          /\ ipMap' \in [Ips -> Ids \cup {Nobody}]
      BY <2>1, <2>2, TypeAdd
    <2> QED
      BY <1>7, <2>1, <2>2, <2>3 DEF Collect, Awaits
  <1>8. ASSUME NEW c \in Callers, Skip(c) PROVE TypeOK'
    BY <1>8, TasksType DEF Skip, MoveOn, Awaits, registryVars
  <1>9. ASSUME NEW c \in Callers, Return(c) PROVE TypeOK'
    BY <1>9 DEF Return, Awaits, registryVars
  <1>10. ASSUME NEW c \in Callers, Cancelled(c) PROVE TypeOK'
    <2> DEFINE left(p) == {k \in 2 .. Len(tasks[c]) :
                             tasks[c][k].protocol = p /\ tasks[c][k].st = "running"}
    <2>1. \A p \in Protocols : Cardinality(left(p)) \in Nat
      <3>1. Len(tasks[c]) \in Nat
        OBVIOUS
      <3>2. IsFiniteSet(2 .. Len(tasks[c]))
        BY <3>1, FS_Interval
      <3> QED
        BY <3>2, FS_Subset, FS_CardinalityType
    <2>2. orphans' = [p \in Protocols |-> orphans[p] + Cardinality(left(p))]
      BY <1>10 DEF Cancelled
    <2> HIDE DEF left
    <2>3. orphans' \in [Protocols -> Nat]
      BY <2>1, <2>2
    <2> QED
      BY <1>10, <2>3 DEF Cancelled, registryVars
  <1>11. ASSUME NEW p \in Protocols, OrphanEnds(p) PROVE TypeOK'
    BY <1>11 DEF OrphanEnds, registryVars
  <1>12. CASE UNCHANGED vars
    BY <1>12 DEF vars, registryVars, callVars
  <1> QED
    BY <1>1, <1>3, <1>4, <1>5, <1>6, <1>7, <1>8, <1>9, <1>10, <1>11, <1>12 DEF Next, Resumes

\* Every variable keeps its type, for any callers, protocols, requests and addresses.
THEOREM TypeCorrect == Spec => []TypeOK
  BY TypeInit, TypeNext, PTL DEF Spec

-----------------------------------------------------------------------------
(* The registry *)

\* RegistryConsistent is inductive together with the fact that the id of a device
\* names the address it was found at: an id that is made again for an address
\* cannot be in the registry while the address is unknown.
RegistryInv ==
    /\ RegistryConsistent
    /\ \A d \in DOMAIN devices : devices[d].ip = d[4]

\* The empty registry is consistent.
LEMMA RegistryInit == Init => RegistryInv
  BY DEF Init, RegistryInv, RegistryConsistent

\* Removing devices together with their addresses leaves the maps inverse.
LEMMA RegistryForget ==
  ASSUME TypeOK, RegistryInv, NEW gone \in SUBSET DOMAIN devices, Forget(gone)
  PROVE  RegistryInv'
  <1>1. /\ DOMAIN devices' = DOMAIN devices \ gone
        /\ \A d \in DOMAIN devices \ gone : devices'[d] = devices[d] /\ devices[d].ip \in Ips
        /\ \A i \in Ips : ipMap'[i] =
              IF i \in {devices[d].ip : d \in gone} THEN Nobody ELSE ipMap[i]
    BY DEF Forget, TypeOK, Device
  <1>2. ASSUME NEW d \in DOMAIN devices' PROVE ipMap'[devices'[d].ip] = d
    <2>1. ipMap[devices[d].ip] = d /\ devices'[d] = devices[d] /\ d \notin gone
      BY <1>1, <1>2 DEF RegistryInv, RegistryConsistent
    <2>2. devices[d].ip \notin {devices[e].ip : e \in gone}
      BY <2>1 DEF RegistryInv, RegistryConsistent
    <2> QED
      BY <1>1, <2>1, <2>2
  <1>3. ASSUME NEW i \in Ips, ipMap'[i] # Nobody
        PROVE  ipMap'[i] \in DOMAIN devices' /\ devices'[ipMap'[i]].ip = i
    <2>1. ipMap'[i] = ipMap[i] /\ i \notin {devices[d].ip : d \in gone}
      BY <1>1, <1>3
    <2>2. ipMap[i] \in DOMAIN devices /\ devices[ipMap[i]].ip = i
      BY <1>3, <2>1 DEF RegistryInv, RegistryConsistent
    <2> QED
      BY <1>1, <2>1, <2>2
  <1> QED
    BY <1>1, <1>2, <1>3 DEF RegistryInv, RegistryConsistent

\* Adding the devices of a result keeps the maps inverse: an address is mapped
\* to a new device only if no device has it.
LEMMA RegistryAdd ==
  ASSUME TypeOK, RegistryInv,
         NEW c \in Callers, NEW n \in 1 .. MaxCalls, NEW t \in Task, AddDevices(c, n, t)
  PROVE  RegistryInv'
  <1>1. /\ New(t) \subseteq Ips
        /\ \A i \in New(t) : Id(c, n, t, i) \in Ids /\ Id(c, n, t, i)[4] = i
        /\ DOMAIN devices' = DOMAIN devices \cup {Id(c, n, t, i) : i \in New(t)}
        /\ \A d \in DOMAIN devices :
              devices'[d] = IF d \in Again(t) THEN Merged(devices[d], t) ELSE devices[d]
        /\ \A i \in New(t) : Id(c, n, t, i) \notin DOMAIN devices
                                => devices'[Id(c, n, t, i)] = NewDevice(i, t)
        /\ ipMap' = [i \in Ips |-> IF i \in New(t) THEN Id(c, n, t, i) ELSE ipMap[i]]
    BY Added
  <1>2. ASSUME NEW i \in Ips PROVE Known(i) <=> ipMap[i] # Nobody
    <2>1. Nobody \notin DOMAIN devices
      BY EngineAssumption DEF TypeOK
    <2> QED
      BY <2>1 DEF Known, RegistryInv, RegistryConsistent
  <1>3. \A i \in New(t) : ipMap[i] = Nobody
    BY <1>1, <1>2 DEF New
  <1>4. ASSUME NEW d \in DOMAIN devices
        PROVE  /\ devices[d].ip \in Ips \ New(t)
               /\ devices'[d].ip = devices[d].ip
    <2>1. devices[d].ip \in Ips /\ devices[d] \in Device
      BY DEF TypeOK, Device
    <2>2. ipMap[devices[d].ip] = d /\ d # Nobody
      BY EngineAssumption DEF TypeOK, RegistryInv, RegistryConsistent
    <2>3. Merged(devices[d], t).ip = devices[d].ip
      BY <2>1 DEF Merged, Device
    <2> QED
      BY <1>1, <1>3, <2>1, <2>2, <2>3
  <1>5. ASSUME NEW i \in New(t)
        PROVE  /\ Id(c, n, t, i) \notin DOMAIN devices
               /\ devices'[Id(c, n, t, i)].ip = i
    <2>1. Id(c, n, t, i) \notin DOMAIN devices
      BY <1>1, <1>4 DEF RegistryInv
    <2> QED
      BY <1>1, <2>1, NewType
  <1>6. ASSUME NEW d \in DOMAIN devices'
        PROVE  ipMap'[devices'[d].ip] = d /\ devices'[d].ip = d[4]
    <2>1. CASE d \in DOMAIN devices
      <3>1. ipMap[devices[d].ip] = d /\ devices[d].ip = d[4]
        BY <2>1 DEF RegistryInv, RegistryConsistent
      <3> QED
        BY <1>1, <1>4, <2>1, <3>1
    <2>2. CASE d \notin DOMAIN devices
      <3>1. PICK i \in New(t) : d = Id(c, n, t, i)
        BY <1>1, <1>6, <2>2
      <3> QED
        BY <1>1, <1>5, <3>1
    <2> QED
      BY <2>1, <2>2
  <1>7. ASSUME NEW i \in Ips, ipMap'[i] # Nobody
        PROVE  ipMap'[i] \in DOMAIN devices' /\ devices'[ipMap'[i]].ip = i
    <2>1. CASE i \in New(t)
      BY <1>1, <1>5, <2>1
    <2>2. CASE i \notin New(t)
      <3>1. ipMap'[i] = ipMap[i]
        BY <1>1, <2>2
      <3>2. ipMap[i] \in DOMAIN devices /\ devices[ipMap[i]].ip = i
        BY <1>7, <3>1 DEF RegistryInv, RegistryConsistent
      <3> QED
        BY <1>1, <1>4, <3>1, <3>2
    <2> QED
      BY <2>1, <2>2
  <1> QED
    BY <1>6, <1>7 DEF RegistryInv, RegistryConsistent

\* What a step does to the registry: it removes some devices, adds those of one
\* result, or leaves it alone.
LEMMA RegistrySteps ==
  ASSUME TypeOK, [Next]_vars
  PROVE  \/ (\E gone \in SUBSET DOMAIN devices : Forget(gone)) /\ UNCHANGED now
         \/ (\E c \in Callers : /\ calls[c] \in 1 .. MaxCalls /\ Awaited(c) \in Task
                                /\ Awaits(c)
                                /\ AddDevices(c, calls[c], Awaited(c))) /\ UNCHANGED now
         \/ UNCHANGED <<devices, ipMap>>
  <1>1. CASE \E c \in Callers : Collect(c)
    <2>1. PICK c \in Callers : Collect(c)
      BY <1>1
    <2>2. /\ tasks[c] \in Seq(Task) /\ tasks[c] # <<>>
          /\ calls[c] \in 0 .. MaxCalls /\ calls[c] > 0
      BY <2>1 DEF Collect, Awaits, TypeOK
    <2> QED
      BY <2>1, <2>2, TasksType DEF Collect, Awaited
  <1>2. CASE \E d \in DOMAIN devices : RemoveDevice(d)
    BY <1>2 DEF RemoveDevice
  <1>3. CASE CleanupStaleDevices
    <2>1. {d \in DOMAIN devices : IsStale(d)} \in SUBSET DOMAIN devices
      OBVIOUS
    <2> QED
      BY <1>3, <2>1 DEF CleanupStaleDevices
  <1>4. CASE Tick
    BY <1>4 DEF Tick, registryVars
  <1>5. CASE \E c \in Callers : \E request \in Requests : DiscoverAll(c, request)
    BY <1>5 DEF DiscoverAll, registryVars
  <1>6. CASE \E c \in Callers : \E k \in DOMAIN tasks[c] : TaskEnds(c, k)
    BY <1>6 DEF TaskEnds, TaskReturns, TaskRaises, registryVars
  <1>7. CASE \E c \in Callers : Skip(c) \/ Return(c) \/ Cancelled(c)
    BY <1>7 DEF Skip, Return, Cancelled, registryVars
  <1>8. CASE \E p \in Protocols : OrphanEnds(p)
    BY <1>8 DEF OrphanEnds, registryVars
  <1>9. CASE UNCHANGED vars
    BY <1>9 DEF vars, registryVars
  <1> QED
    BY <1>1, <1>2, <1>3, <1>4, <1>5, <1>6, <1>7, <1>8, <1>9 DEF Next, Resumes

\* Every step keeps the invariant of the registry.
LEMMA RegistryNext == TypeOK /\ RegistryInv /\ [Next]_vars => RegistryInv'
  <1> SUFFICES ASSUME TypeOK, RegistryInv, [Next]_vars PROVE RegistryInv'
    OBVIOUS
  <1>1. CASE UNCHANGED <<devices, ipMap>>
    BY <1>1 DEF RegistryInv, RegistryConsistent
  <1> QED
    BY <1>1, RegistrySteps, RegistryForget, RegistryAdd

\* _devices and _ip_to_device are inverse in every reachable state, however many
\* calls of discover_all, removals and cleanups interleave.
THEOREM RegistryIsConsistent == Spec => []RegistryConsistent
  <1>1. RegistryInv => RegistryConsistent
    BY DEF RegistryInv
  <1> QED
    BY <1>1, RegistryInit, RegistryNext, TypeCorrect, PTL DEF Spec

-----------------------------------------------------------------------------
(* Merging *)

\* No device was seen, and no result obtained, later than now.
NothingFromFuture ==
    /\ \A d \in DOMAIN devices : devices[d].seen <= now
    /\ \A c \in Callers : \A k \in DOMAIN tasks[c] : tasks[c][k].at <= now

\* What a merge does to a device: it stays where it is, keeps the name and the
\* services it has, and was seen now.
LEMMA MergeAdds ==
  ASSUME NEW d \in Device, NEW t \in Task
  PROVE  /\ Merged(d, t).ip = d.ip
         /\ d.name # Nobody => Merged(d, t).name = d.name
         /\ d.services \subseteq Merged(d, t).services
         /\ Merged(d, t).seen = now
  BY DEF Merged, Device

\* Initially there is nothing that could be from the future.
LEMMA FutureInit == Init => NothingFromFuture
  BY DEF Init, NothingFromFuture

\* Every step keeps it so: times are copied from the clock, which does not go back.
LEMMA FutureNext == TypeOK /\ NothingFromFuture /\ [Next]_vars => NothingFromFuture'
  <1> SUFFICES ASSUME TypeOK, NothingFromFuture, [Next]_vars PROVE NothingFromFuture'
    OBVIOUS
  <1> USE DEF NothingFromFuture
  <1>0. MaxTime \in Nat /\ MaxCalls \in Nat /\ now \in Nat
    BY EngineAssumption DEF TypeOK
  <1>1. CASE Tick
    <2>1. now <= now' /\ now' \in Nat /\ UNCHANGED <<devices, tasks>>
      BY <1>0, <1>1 DEF Tick, registryVars, callVars
    <2>2. \A d \in DOMAIN devices : devices[d].seen \in Nat
      BY EngineAssumption DEF TypeOK, Device
    <2>3. \A c \in Callers : \A k \in DOMAIN tasks[c] : tasks[c][k].at \in Nat
      <3>1. \A c \in Callers : \A k \in DOMAIN tasks[c] : tasks[c][k] \in Task
        BY DEF TypeOK
      <3> QED
        BY <3>1, EngineAssumption DEF Task
    <2> QED
      BY <1>0, <2>1, <2>2, <2>3
  <1>2. ASSUME NEW gone \in SUBSET DOMAIN devices, Forget(gone), UNCHANGED <<now, tasks>>
        PROVE  NothingFromFuture'
    BY <1>2 DEF Forget
  <1>3. CASE (\E d \in DOMAIN devices : RemoveDevice(d)) \/ CleanupStaleDevices
    BY <1>2, <1>3 DEF RemoveDevice, CleanupStaleDevices, callVars
  <1>4. ASSUME NEW c \in Callers, NEW request \in Requests, DiscoverAll(c, request)
        PROVE  NothingFromFuture'
    <2> DEFINE new == [k \in 1 .. Len(Registered(request)) |->
                         [protocol |-> Registered(request)[k], st |-> "running", found |-> {},
                          at |-> now, named |-> FALSE]]
    <2>1. tasks' = [tasks EXCEPT ![c] = new] /\ UNCHANGED <<now, devices>>
      BY <1>4 DEF DiscoverAll, registryVars
    <2>2. \A k \in DOMAIN new : new[k].at <= now
      BY <1>0
    <2> HIDE DEF new
    <2> QED
      BY <2>1, <2>2 DEF TypeOK
  <1>5. ASSUME NEW c \in Callers, NEW k \in DOMAIN tasks[c], TaskEnds(c, k)
        PROVE  NothingFromFuture'
    <2>1. tasks[c] \in Seq(Task) /\ tasks[c][k] \in Task
      BY DEF TypeOK
    <2>2. PICK t : /\ tasks' = [tasks EXCEPT ![c] = [tasks[c] EXCEPT ![k] = t]]
                   /\ t.at <= now
                   /\ UNCHANGED <<now, devices>>
      <3>1. CASE TaskRaises(c, k)
        <4>1. [tasks[c][k] EXCEPT !.st = "failed"].at <= now
          BY <2>1 DEF Task
        <4> QED
          BY <3>1, <4>1 DEF TaskRaises, registryVars
      <3>2. ASSUME NEW found \in SUBSET Ips, NEW named \in BOOLEAN, TaskReturns(c, k, found, named)
            PROVE  \E t : /\ tasks' = [tasks EXCEPT ![c] = [tasks[c] EXCEPT ![k] = t]]
                          /\ t.at <= now
                          /\ UNCHANGED <<now, devices>>
        <4> DEFINE t == [tasks[c][k] EXCEPT !.st = "done", !.found = found, !.at = now, !.named = named]
        <4>1. t.at = now
          BY <2>1 DEF Task
        <4>2. tasks' = [tasks EXCEPT ![c] = [tasks[c] EXCEPT ![k] = t]] /\ UNCHANGED <<now, devices>>
          BY <3>2 DEF TaskReturns, registryVars
        <4>3. t.at <= now
          BY <1>0, <4>1
        <4> HIDE DEF t
        <4> QED
          BY <4>2, <4>3
      <3> QED
        BY <1>5, <3>1, <3>2 DEF TaskEnds
    <2> QED
      BY <2>1, <2>2 DEF TypeOK
  <1>6. ASSUME NEW c \in Callers, tasks[c] # <<>>, MoveOn(c)
        PROVE  \A o \in Callers : \A k \in DOMAIN tasks'[o] : tasks'[o][k].at <= now
    <2>1. \A k \in DOMAIN Tail(tasks[c]) : Tail(tasks[c])[k].at <= now
      BY <1>6 DEF TypeOK
    <2> QED
      BY <1>6, <2>1 DEF MoveOn, TypeOK
  <1>7. ASSUME NEW c \in Callers, Collect(c) PROVE NothingFromFuture'
    <2>1. /\ tasks[c] \in Seq(Task) /\ tasks[c] # <<>>
          /\ calls[c] \in 1 .. MaxCalls /\ Awaited(c) = tasks[c][1] /\ 1 \in DOMAIN tasks[c]
          /\ UNCHANGED now
      BY <1>0, <1>7 DEF Collect, Awaits, Awaited, TypeOK
    <2>2. PICK n \in 1 .. MaxCalls, t \in Task : t.at <= now /\ AddDevices(c, n, t)
      BY <1>7, <2>1 DEF Collect
    <2> HIDE DEF NothingFromFuture
    <2>3. /\ DOMAIN devices' = DOMAIN devices \cup {Id(c, n, t, i) : i \in New(t)}
          /\ \A d \in DOMAIN devices :
                devices'[d] = IF d \in Again(t) THEN Merged(devices[d], t) ELSE devices[d]
          /\ \A i \in New(t) : Id(c, n, t, i) \notin DOMAIN devices
                                  => devices'[Id(c, n, t, i)] = NewDevice(i, t)
      BY <2>2, Added
    <2> USE DEF NothingFromFuture
    <2>4. \A i \in New(t) : NewDevice(i, t).seen <= now
      BY <2>2 DEF NewDevice
    <2>5. ASSUME NEW d \in DOMAIN devices PROVE devices'[d].seen <= now
      <3>1. devices[d] \in Device
        BY DEF TypeOK
      <3> QED
        BY <1>0, <2>2, <2>3, <3>1, MergeAdds
    <2>6. \A d \in DOMAIN devices' : devices'[d].seen <= now
      BY <2>3, <2>4, <2>5
    <2> QED
      BY <1>6, <1>7, <2>1, <2>6 DEF Collect
  <1>8. ASSUME NEW c \in Callers, Skip(c) PROVE NothingFromFuture'
    BY <1>6, <1>8 DEF Skip, Awaits, registryVars
  <1>9. CASE \E c \in Callers : Cancelled(c)
    BY <1>9 DEF Cancelled, registryVars, TypeOK
  <1>10. CASE \/ \E c \in Callers : Return(c)
              \/ \E p \in Protocols : OrphanEnds(p)
              \/ UNCHANGED vars
    BY <1>10 DEF Return, OrphanEnds, vars, registryVars, callVars
  <1> QED
    BY <1>1, <1>3, <1>4, <1>5, <1>7, <1>8, <1>9, <1>10 DEF Next, Resumes

\* Rediscovery never takes away what is known of a device that stays registered.
THEOREM MergeKeeps == Spec => MergeKeepsKnowledge
  <1> DEFINE Keeps(d) == /\ devices'[d].ip = devices[d].ip
                         /\ devices[d].name # Nobody => devices'[d].name = devices[d].name
                         /\ devices[d].services \subseteq devices'[d].services
                         /\ devices[d].seen <= devices'[d].seen
  <1>1. ASSUME TypeOK, NothingFromFuture, [Next]_vars
        PROVE  \A d \in DOMAIN devices \cap DOMAIN devices' : Keeps(d)
    <2>0. MaxTime \in Nat
      BY EngineAssumption
    <2>1. ASSUME NEW d \in DOMAIN devices PROVE devices[d] \in Device /\ devices[d].seen \in Nat
      BY <1>1, <2>0 DEF TypeOK, Device
    <2>2. ASSUME NEW d \in DOMAIN devices, devices'[d] = devices[d] PROVE Keeps(d)
      BY <2>1, <2>2
    <2>3. CASE UNCHANGED <<devices, ipMap>>
      BY <2>2, <2>3
    <2>4. CASE \E gone \in SUBSET DOMAIN devices : Forget(gone)
      BY <2>2, <2>4 DEF Forget
    <2>5. ASSUME NEW c \in Callers, calls[c] \in 1 .. MaxCalls, NEW t \in Task,
                 AddDevices(c, calls[c], t), NEW d \in DOMAIN devices
          PROVE  Keeps(d)
      <3>1. devices'[d] = IF d \in Again(t) THEN Merged(devices[d], t) ELSE devices[d]
        BY <2>5, Added, <1>1
      <3>2. CASE devices'[d] = Merged(devices[d], t)
        BY <1>1, <2>1, <3>2, MergeAdds DEF NothingFromFuture
      <3> QED
        BY <2>2, <3>1, <3>2
    <2> HIDE DEF Keeps
    <2> QED
      BY <1>1, <2>3, <2>4, <2>5, RegistrySteps
  <1>2. TypeOK /\ NothingFromFuture /\ [Next]_vars =>
          [\A d \in DOMAIN devices \cap DOMAIN devices' : Keeps(d)]_vars
    BY <1>1
  <1> QED
    BY <1>2, FutureInit, FutureNext, TypeCorrect, PTL DEF Spec, MergeKeepsKnowledge

=============================================================================
