------------------------ MODULE DiscoveryServicesProofs ------------------------
(***************************************************************************)
(* Proofs about the services of discovery: the cache, the network scan     *)
(* with its rate limiter, the event bus, and the protocols that collect    *)
(* answers.                                                                *)
(***************************************************************************)
EXTENDS DiscoveryCache, NetworkScan, EventBus, ProtocolDiscovery, RecursionTheorems,
        FiniteSetTheorems, SequenceTheorems, TLAPS

-----------------------------------------------------------------------------
(* The cache *)

Writing == {"setDevice", "setIp", "get", "deleteDevice", "deleteIp"}

\* What a client's call is on, by how far it is.
OpTypeOK(o) ==
    /\ o.at \in Writing \cup {"idle", "getDevice"}
    /\ o.ok \in BOOLEAN /\ o.alone \in BOOLEAN
    /\ o.at \notin {"idle"} => o.device \in Devices
    /\ o.at \in {"setDevice", "setIp", "deleteIp", "getDevice"} => o.address \in Addresses
    /\ o.at = "get" => o.address = None
    /\ o.address \in Addresses \cup {None}

OpRecord == [at : Writing \cup {"idle", "getDevice"}, device : Devices \cup {None},
             address : Addresses \cup {None}, ok : BOOLEAN, alone : BOOLEAN]

EntryTypeOK ==
    /\ backend \in {"redis", "memory"}
    /\ deviceAt \in [Devices -> Addresses \cup {None}]
    /\ idAt \in [Addresses -> Devices \cup {None}]
    /\ lookedUp \in [Clients -> Devices \cup {None}]
    /\ sure \subseteq Devices \X (Addresses \cup {None}) /\ ops \in 0 .. MaxOps
    /\ op \in [Clients -> OpRecord]
    /\ \A c \in Clients : OpTypeOK(op[c])
    /\ backend = "memory" => \A c, o \in Clients : op[c].at # "idle" /\ op[o].at # "idle" => c = o

\* A call that is alone meets no other that writes.
AloneIsAlone ==
    \A c, o \in Clients :
        c # o /\ op[c].at \in Writing /\ op[o].at \in Writing /\ op[c].alone
           => ~Touches(op[c].device, op[c].address, op[o].device, op[o].address)

\* No call in progress writes what is sure.
SureIsLeft ==
    \A s \in sure : \A c \in Clients :
        op[c].at \in Writing => ~Upsets(op[c].device, op[c].address, s)

\* What an undisturbed call has done so far still holds.
HalfDone ==
    \A c \in Clients : op[c].alone /\ op[c].ok =>
        /\ op[c].at = "setIp" => deviceAt[op[c].device] = op[c].address
        /\ op[c].at = "deleteIp" => deviceAt[op[c].device] = None

CacheIndInv == EntryTypeOK /\ AloneIsAlone /\ SureIsLeft /\ HalfDone /\ AckedHolds

\* Meeting is symmetric, and so is touching.
LEMMA TouchesBack ==
  ASSUME NEW d, NEW a, NEW e, NEW b
  PROVE  Touches(d, a, e, b) <=> Touches(e, b, d, a)
  BY DEF Touches, Meet

\* Disturbing calls only takes from them that they are alone.
LEMMA Disturbed ==
  ASSUME EntryTypeOK, NEW c, NEW d, NEW a, NEW o \in Clients
  PROVE  LET new == Disturb(c, d, a)[o] IN
         /\ Disturb(c, d, a) \in [Clients -> OpRecord]
         /\ new.at = op[o].at /\ new.device = op[o].device /\ new.address = op[o].address
         /\ new.ok = op[o].ok /\ (new.alone => op[o].alone) /\ OpTypeOK(new)
         /\ new.alone /\ o # c /\ op[o].at # "idle" => ~Touches(d, a, op[o].device, op[o].address)
  <1> DEFINE D == Disturb(c, d, a)
             hit(x) == x # c /\ op[x].at # "idle" /\ Touches(d, a, op[x].device, op[x].address)
  <1>1. ASSUME NEW x \in Clients
        PROVE  /\ op[x] \in OpRecord /\ [op[x] EXCEPT !.alone = FALSE] \in OpRecord
               /\ D[x] = IF hit(x) THEN [op[x] EXCEPT !.alone = FALSE] ELSE op[x]
    <2>1. op[x] \in OpRecord
      BY DEF EntryTypeOK
    <2>2. [op[x] EXCEPT !.alone = FALSE] \in OpRecord
      BY <2>1 DEF OpRecord
    <2>3. D[x] = IF hit(x) THEN [op[x] EXCEPT !.alone = FALSE] ELSE op[x]
      BY DEF Disturb
    <2> QED
      BY <2>1, <2>2, <2>3
  <1>2. D \in [Clients -> OpRecord]
    <2>1. \A x \in Clients : D[x] \in OpRecord
      BY <1>1
    <2> QED
      BY <2>1 DEF Disturb
  <1>3. /\ D[o].at = op[o].at /\ D[o].device = op[o].device /\ D[o].address = op[o].address
        /\ D[o].ok = op[o].ok /\ D[o].alone = (op[o].alone /\ ~hit(o))
    BY <1>1 DEF OpRecord
  <1>4. OpTypeOK(D[o])
    BY <1>1, <1>3 DEF EntryTypeOK, OpTypeOK, OpRecord
  <1> HIDE DEF D
  <1> QED
    BY <1>2, <1>3, <1>4 DEF D

LEMMA IdleCall ==
  Idle \in OpRecord /\ OpTypeOK(Idle) /\ Idle.at = "idle"
  BY DEF Idle, OpRecord, OpTypeOK, Writing

LEMMA CacheInitial == CacheInit => CacheIndInv
  <1> SUFFICES ASSUME CacheInit PROVE CacheIndInv
    OBVIOUS
  <1>1. \A c \in Clients : op[c] = Idle
    BY DEF CacheInit
  <1>2. EntryTypeOK
    BY <1>1, IdleCall, CacheAssumption DEF CacheInit, EntryTypeOK
  <1>3. AloneIsAlone /\ SureIsLeft /\ HalfDone /\ AckedHolds
    BY <1>1, IdleCall DEF AloneIsAlone, SureIsLeft, HalfDone, AckedHolds, CacheInit, Writing
  <1> QED
    BY <1>2, <1>3 DEF CacheIndInv

-----------------------------------------------------------------------------
(* Calls begin *)

LEMMA BeginKeeps ==
  ASSUME CacheIndInv, NEW c \in Clients, NEW at \in {"setDevice", "get"}, NEW d \in Devices,
         NEW a \in Addresses \cup {None}, (at = "get") <=> (a = None), Begin(c, at, d, a)
  PROVE  CacheIndInv'
  <1> DEFINE D == Disturb(c, d, a)
             together == \A o \in Clients \ {c} :
                           op[o].at # "idle" => ~Touches(d, a, op[o].device, op[o].address)
             new == [at |-> at, device |-> d, address |-> a, ok |-> TRUE, alone |-> together]
  <1>1. /\ op[c].at = "idle" /\ Turn(c) /\ ops < MaxOps /\ ops' = ops + 1
        /\ op' = [D EXCEPT ![c] = new]
        /\ sure' = {s \in sure : ~Upsets(d, a, s)}
        /\ UNCHANGED <<backend, deviceAt, idAt, lookedUp>>
    BY DEF Begin
  <1>2. together \in BOOLEAN
    OBVIOUS
  <1>3. /\ new.at = at /\ new.device = d /\ new.address = a /\ new.ok = TRUE
        /\ new.alone = together
    OBVIOUS
  <1> HIDE DEF together
  <1>4. new \in OpRecord
    BY <1>2 DEF OpRecord, Writing
  <1> HIDE DEF new
  <1>5. D \in [Clients -> OpRecord]
    BY Disturbed DEF CacheIndInv
  <1>6. /\ op'[c] = new /\ op' \in [Clients -> OpRecord]
        /\ \A o \in Clients \ {c} : op'[o] = D[o]
    BY <1>1, <1>4, <1>5
  <1>7. \A o \in Clients \ {c} :
            /\ op'[o].at = op[o].at /\ op'[o].device = op[o].device /\ op'[o].address = op[o].address
            /\ op'[o].ok = op[o].ok /\ (op'[o].alone => op[o].alone) /\ OpTypeOK(op'[o])
            /\ op'[o].alone /\ op[o].at # "idle" => ~Touches(d, a, op[o].device, op[o].address)
    BY <1>6, Disturbed DEF CacheIndInv
  <1> HIDE DEF D
  <1>8. EntryTypeOK'
    <2>1. OpTypeOK(op'[c])
      BY <1>2, <1>3, <1>6 DEF OpTypeOK, Writing
    <2>2. \A o \in Clients : OpTypeOK(op'[o])
      BY <1>7, <2>1
    <2>3. backend' = "memory" =>
             \A b, o \in Clients : op'[b].at # "idle" /\ op'[o].at # "idle" => b = o
      BY <1>1, <1>7 DEF Turn
    <2>4. \A o \in Clients : OpTypeOK(op[o])'
      BY <2>2 DEF OpTypeOK
    <2>5. ops' \in 0 .. MaxOps
      BY <1>1, CacheAssumption DEF CacheIndInv, EntryTypeOK
    <2> QED
      BY <1>1, <1>6, <2>3, <2>4, <2>5 DEF CacheIndInv, EntryTypeOK
  <1>9. AloneIsAlone'
    <2> SUFFICES ASSUME NEW x \in Clients, NEW o \in Clients, x # o,
                        op'[x].at \in Writing, op'[o].at \in Writing, op'[x].alone
                 PROVE  ~Touches(op'[x].device, op'[x].address, op'[o].device, op'[o].address)
      BY DEF AloneIsAlone
    <2>1. CASE x = c
      BY <1>3, <1>6, <1>7, <2>1 DEF together, Writing
    <2>2. CASE o = c
      <3>1. ~Touches(d, a, op[x].device, op[x].address)
        BY <1>7, <2>2 DEF Writing
      <3> QED
        BY <1>3, <1>6, <1>7, <2>2, <3>1, TouchesBack
    <2>3. CASE x # c /\ o # c
      BY <1>7, <2>3 DEF CacheIndInv, AloneIsAlone
    <2> QED
      BY <2>1, <2>2, <2>3
  <1>10. SureIsLeft'
    <2> SUFFICES ASSUME NEW s \in sure', NEW o \in Clients, op'[o].at \in Writing
                 PROVE  ~Upsets(op'[o].device, op'[o].address, s)
      BY DEF SureIsLeft
    <2>1. CASE o = c
      BY <1>1, <1>3, <1>6, <2>1
    <2>2. CASE o # c
      BY <1>1, <1>7, <2>2 DEF CacheIndInv, SureIsLeft
    <2> QED
      BY <2>1, <2>2
  <1>11. HalfDone'
    <2> SUFFICES ASSUME NEW o \in Clients, op'[o].alone, op'[o].ok
                 PROVE  /\ op'[o].at = "setIp" => deviceAt[op'[o].device] = op'[o].address
                        /\ op'[o].at = "deleteIp" => deviceAt[op'[o].device] = None
      BY <1>1 DEF HalfDone
    <2>1. CASE o = c
      BY <1>3, <1>6, <2>1
    <2>2. CASE o # c
      BY <1>7, <2>2 DEF CacheIndInv, HalfDone
    <2> QED
      BY <2>1, <2>2
  <1>12. AckedHolds'
    BY <1>1 DEF CacheIndInv, AckedHolds
  <1> QED
    BY <1>8, <1>9, <1>10, <1>11, <1>12 DEF CacheIndInv

-----------------------------------------------------------------------------
(* Calls go on, and end *)

\* A step of one call that changes neither what the others are on nor what is stored of it.
LEMMA StepKeeps ==
  ASSUME CacheIndInv, NEW c \in Clients, op[c].at # "idle",
         NEW o1 \in OpRecord, OpTypeOK(o1), op' = [op EXCEPT ![c] = o1],
         o1.at = "idle" \/ (o1.at \in Writing /\ op[c].at \in Writing
                            /\ o1.device = op[c].device /\ o1.alone = op[c].alone
                            /\ (o1.address = op[c].address \/ op[c].address = None)),
         UNCHANGED backend
  PROVE  /\ op' \in [Clients -> OpRecord] /\ (\A o \in Clients : OpTypeOK(op[o])')
         /\ backend' = "memory" =>
               \A b, o \in Clients : op'[b].at # "idle" /\ op'[o].at # "idle" => b = o
         /\ AloneIsAlone' /\ (sure' = sure => SureIsLeft')
         /\ op'[c] = o1 /\ \A o \in Clients \ {c} : op'[o] = op[o]
  <1>1. op \in [Clients -> OpRecord]
    BY DEF CacheIndInv, EntryTypeOK
  <1>2. op' \in [Clients -> OpRecord] /\ op'[c] = o1 /\ \A o \in Clients \ {c} : op'[o] = op[o]
    BY <1>1
  <1>3. \A o \in Clients : OpTypeOK(op[o])'
    <2>1. \A o \in Clients : OpTypeOK(op'[o])
      BY <1>2 DEF CacheIndInv, EntryTypeOK
    <2> QED
      BY <2>1 DEF OpTypeOK
  <1>4. backend' = "memory" => \A b, o \in Clients : op'[b].at # "idle" /\ op'[o].at # "idle" => b = o
    BY <1>2 DEF CacheIndInv, EntryTypeOK
  <1>5. ASSUME NEW d, NEW a, ~Touches(d, a, op[c].device, op[c].address), o1.at \in Writing
        PROVE  ~Touches(d, a, o1.device, o1.address)
    BY <1>5 DEF Touches, Meet, Writing
  <1>6. AloneIsAlone'
    <2> SUFFICES ASSUME NEW x \in Clients, NEW o \in Clients, x # o,
                        op'[x].at \in Writing, op'[o].at \in Writing, op'[x].alone
                 PROVE  ~Touches(op'[x].device, op'[x].address, op'[o].device, op'[o].address)
      BY DEF AloneIsAlone
    <2>1. op[x].at \in Writing /\ op[o].at \in Writing /\ op[x].alone
      BY <1>2 DEF Writing
    <2>2. ~Touches(op[x].device, op[x].address, op[o].device, op[o].address)
      BY <2>1 DEF CacheIndInv, AloneIsAlone
    <2>3. CASE x = c
      <3>1. ~Touches(op[o].device, op[o].address, op[c].device, op[c].address)
        BY <2>2, <2>3, TouchesBack
      <3>2. ~Touches(op[o].device, op[o].address, o1.device, o1.address)
        BY <1>2, <1>5, <2>3, <3>1
      <3> QED
        BY <1>2, <2>3, <3>2, TouchesBack
    <2>4. CASE o = c
      BY <1>2, <1>5, <2>2, <2>4
    <2>5. CASE x # c /\ o # c
      BY <1>2, <2>2, <2>5
    <2> QED
      BY <2>3, <2>4, <2>5
  <1>7. ASSUME sure' = sure PROVE SureIsLeft'
    <2> SUFFICES ASSUME NEW s \in sure, NEW o \in Clients, op'[o].at \in Writing
                 PROVE  ~Upsets(op'[o].device, op'[o].address, s)
      BY <1>7 DEF SureIsLeft
    <2>1. op[o].at \in Writing /\ ~Upsets(op[o].device, op[o].address, s)
      BY <1>2 DEF CacheIndInv, SureIsLeft, Writing
    <2> QED
      BY <1>2, <2>1 DEF Upsets, Touches, Meet, Writing
  <1> QED
    BY <1>2, <1>3, <1>4, <1>6, <1>7

\* What one call makes sure is left by the others, if it was alone.
LEMMA MadeSure ==
  ASSUME CacheIndInv, NEW c \in Clients, op[c].at \in Writing, op[c].alone,
         op' = [op EXCEPT ![c] = Idle], NEW a \in {op[c].address, None},
         sure' = sure \cup {<<op[c].device, a>>}
  PROVE  SureIsLeft'
  <1>1. op'[c] = Idle /\ \A o \in Clients \ {c} : op'[o] = op[o]
    BY DEF CacheIndInv, EntryTypeOK
  <1> SUFFICES ASSUME NEW s \in sure', NEW o \in Clients, op'[o].at \in Writing
               PROVE  ~Upsets(op'[o].device, op'[o].address, s)
    BY DEF SureIsLeft
  <1>2. o # c /\ op'[o] = op[o]
    BY <1>1, IdleCall DEF Writing
  <1>3. CASE s \in sure
    BY <1>2, <1>3 DEF CacheIndInv, SureIsLeft
  <1>4. CASE s = <<op[c].device, a>>
    <2>1. ~Touches(op[o].device, op[o].address, op[c].device, op[c].address)
      BY <1>2, TouchesBack DEF CacheIndInv, AloneIsAlone
    <2>2. s[1] = op[c].device /\ s[2] = a
      BY <1>4
    <2> QED
      BY <1>2, <2>1, <2>2 DEF Upsets, Touches, Meet
  <1> QED
    BY <1>3, <1>4

LEMMA OpOf ==
  ASSUME EntryTypeOK, NEW c \in Clients
  PROVE  op[c] \in OpRecord /\ OpTypeOK(op[c]) /\ (op[c].at \in Writing => op[c].device \in Devices)
  BY DEF EntryTypeOK, OpTypeOK, Writing

LEMMA OutcomesType ==
  \A o \in Outcomes : o[1] \in BOOLEAN /\ o[2] \in BOOLEAN /\ (o[1] => o[2])
  <1> SUFFICES ASSUME NEW o \in Outcomes PROVE o[1] \in BOOLEAN /\ o[2] \in BOOLEAN /\ (o[1] => o[2])
    OBVIOUS
  <1>1. o = <<TRUE, TRUE>> \/ o = <<FALSE, FALSE>> \/ o = <<FALSE, TRUE>>
    BY DEF Outcomes
  <1>2. CASE o = <<TRUE, TRUE>>
    BY <1>2
  <1>3. CASE o = <<FALSE, FALSE>>
    BY <1>3
  <1>4. CASE o = <<FALSE, TRUE>>
    BY <1>4
  <1> QED
    BY <1>1, <1>2, <1>3, <1>4

LEMMA SetDeviceKeeps ==
  ASSUME CacheIndInv, NEW c \in Clients, SetDevice(c)
  PROVE  CacheIndInv'
  <1> DEFINE d == op[c].device  a == op[c].address
  <1>1. PICK o \in Outcomes :
          /\ deviceAt' = IF o[2] THEN [deviceAt EXCEPT ![d] = a] ELSE deviceAt
          /\ op' = [op EXCEPT ![c].at = "setIp", ![c].ok = o[1]]
    BY DEF SetDevice
  <1>2. op[c].at = "setDevice" /\ UNCHANGED <<backend, idAt, ops, lookedUp, sure>>
    BY DEF SetDevice
  <1> DEFINE o1 == [op[c] EXCEPT !.at = "setIp", !.ok = o[1]]
  <1>3. op[c] \in OpRecord /\ OpTypeOK(op[c]) /\ d \in Devices /\ a \in Addresses
    BY <1>2, OpOf DEF CacheIndInv, OpTypeOK
  <1>4. o[1] \in BOOLEAN /\ (o[1] => o[2])
    BY OutcomesType
  <1>5. /\ o1.at = "setIp" /\ o1.ok = o[1] /\ o1.device = d /\ o1.address = a
        /\ o1.alone = op[c].alone /\ o1 \in OpRecord
    BY <1>3, <1>4 DEF OpRecord, Writing
  <1>6. op' = [op EXCEPT ![c] = o1]
    BY <1>1 DEF CacheIndInv, EntryTypeOK
  <1> HIDE DEF o1
  <1>7. OpTypeOK(o1)
    BY <1>3, <1>4, <1>5 DEF OpTypeOK, Writing
  <1>8. op[c].at \in Writing /\ o1.at \in Writing
    BY <1>2, <1>5 DEF Writing
  <1>9. /\ op' \in [Clients -> OpRecord] /\ (\A x \in Clients : OpTypeOK(op[x])')
        /\ backend' = "memory" =>
              \A b, x \in Clients : op'[b].at # "idle" /\ op'[x].at # "idle" => b = x
        /\ AloneIsAlone' /\ (sure' = sure => SureIsLeft')
        /\ op'[c] = o1 /\ \A x \in Clients \ {c} : op'[x] = op[x]
    BY <1>2, <1>5, <1>6, <1>7, <1>8, StepKeeps
  <1>10. deviceAt \in [Devices -> Addresses \cup {None}]
    BY DEF CacheIndInv, EntryTypeOK
  <1>11. /\ deviceAt' \in [Devices -> Addresses \cup {None}]
         /\ \A e \in Devices \ {d} : deviceAt'[e] = deviceAt[e]
         /\ o[1] => deviceAt'[d] = a
    BY <1>1, <1>3, <1>4, <1>10
  <1>12. EntryTypeOK'
    BY <1>2, <1>9, <1>11 DEF CacheIndInv, EntryTypeOK
  <1>13. HalfDone'
    <2> SUFFICES ASSUME NEW x \in Clients, op'[x].alone, op'[x].ok
                 PROVE  /\ op'[x].at = "setIp" => deviceAt'[op'[x].device] = op'[x].address
                        /\ op'[x].at = "deleteIp" => deviceAt'[op'[x].device] = None
      BY DEF HalfDone
    <2>1. CASE x = c
      BY <1>5, <1>9, <1>11, <2>1
    <2>2. CASE x # c /\ op[x].at \in {"setIp", "deleteIp"}
      <3>1. op'[x] = op[x] /\ op[x].at \in Writing /\ op[x].device \in Devices
        BY <1>9, <2>2, OpOf DEF Writing, CacheIndInv
      <3>2. op[x].device # d
        BY <1>8, <2>2, <3>1 DEF CacheIndInv, AloneIsAlone, Touches, Meet
      <3> QED
        BY <1>11, <3>1, <3>2 DEF CacheIndInv, HalfDone
    <2> QED
      BY <1>9, <2>1, <2>2
  <1>14. AckedHolds'
    <2> SUFFICES ASSUME NEW s \in sure
                 PROVE  IF s[2] = None THEN deviceAt'[s[1]] = None
                        ELSE deviceAt'[s[1]] = s[2] /\ idAt[s[2]] = s[1]
      BY <1>2 DEF AckedHolds
    <2>1. s[1] \in Devices /\ s[1] # d
      BY <1>8 DEF CacheIndInv, EntryTypeOK, SureIsLeft, Upsets, Touches, Meet
    <2> QED
      BY <1>11, <2>1 DEF CacheIndInv, AckedHolds
  <1> QED
    BY <1>2, <1>9, <1>12, <1>13, <1>14 DEF CacheIndInv

LEMMA SetIpKeeps ==
  ASSUME CacheIndInv, NEW c \in Clients, SetIp(c)
  PROVE  CacheIndInv'
  <1> DEFINE d == op[c].device  a == op[c].address
  <1>1. PICK o \in Outcomes :
          /\ idAt' = IF o[2] THEN [idAt EXCEPT ![a] = d] ELSE idAt
          /\ sure' = IF Both(op[c].ok, o[1]) /\ op[c].alone THEN sure \cup {<<d, a>>} ELSE sure
    BY DEF SetIp
  <1>2. op[c].at = "setIp" /\ op' = [op EXCEPT ![c] = Idle] /\ UNCHANGED <<backend, deviceAt, ops, lookedUp>>
    BY DEF SetIp
  <1>3. op[c] \in OpRecord /\ d \in Devices /\ a \in Addresses /\ a # None /\ op[c].at \in Writing
    BY <1>2, OpOf, CacheAssumption DEF CacheIndInv, OpTypeOK, Writing
  <1>4. o[1] => o[2]
    BY OutcomesType
  <1>5. /\ op' \in [Clients -> OpRecord] /\ (\A x \in Clients : OpTypeOK(op[x])')
        /\ backend' = "memory" =>
              \A b, x \in Clients : op'[b].at # "idle" /\ op'[x].at # "idle" => b = x
        /\ AloneIsAlone' /\ (sure' = sure => SureIsLeft')
        /\ op'[c] = Idle /\ \A x \in Clients \ {c} : op'[x] = op[x]
    BY <1>2, IdleCall, StepKeeps
  <1>6. idAt \in [Addresses -> Devices \cup {None}]
    BY DEF CacheIndInv, EntryTypeOK
  <1>7. /\ idAt' \in [Addresses -> Devices \cup {None}]
        /\ \A b \in Addresses \ {a} : idAt'[b] = idAt[b]
        /\ o[1] => idAt'[a] = d
    BY <1>1, <1>3, <1>4, <1>6
  <1>8. SureIsLeft'
    BY <1>1, <1>2, <1>3, <1>5, MadeSure
  <1>9. sure' \subseteq Devices \X (Addresses \cup {None})
    BY <1>1, <1>3 DEF CacheIndInv, EntryTypeOK
  <1>10. EntryTypeOK'
    BY <1>2, <1>5, <1>7, <1>9 DEF CacheIndInv, EntryTypeOK
  <1>11. HalfDone'
    BY <1>2, <1>5, IdleCall DEF CacheIndInv, HalfDone
  <1>12. AckedHolds'
    <2> SUFFICES ASSUME NEW s \in sure'
                 PROVE  IF s[2] = None THEN deviceAt[s[1]] = None
                        ELSE deviceAt[s[1]] = s[2] /\ idAt'[s[2]] = s[1]
      BY <1>2 DEF AckedHolds
    <2>1. CASE s \in sure
      <3>1. s[2] \in Addresses \cup {None} /\ s[2] # a
        BY <1>3, <2>1 DEF CacheIndInv, EntryTypeOK, SureIsLeft, Upsets, Touches, Meet
      <3> QED
        BY <1>7, <2>1, <3>1 DEF CacheIndInv, AckedHolds
    <2>2. CASE s \notin sure
      <3>1. s = <<d, a>> /\ op[c].ok /\ o[1] /\ op[c].alone
        BY <1>1, <2>2 DEF Both
      <3>2. deviceAt[d] = a /\ idAt'[a] = d
        BY <1>2, <1>7, <3>1 DEF CacheIndInv, HalfDone
      <3> QED
        BY <1>3, <3>1, <3>2
    <2> QED
      BY <2>1, <2>2
  <1> QED
    BY <1>5, <1>8, <1>10, <1>11, <1>12 DEF CacheIndInv

LEMMA GetToRemoveKeeps ==
  ASSUME CacheIndInv, NEW c \in Clients, GetToRemove(c)
  PROVE  CacheIndInv'
  <1> DEFINE d == op[c].device
  <1>1. PICK a \in {deviceAt[d]} \cup (IF backend = "redis" THEN {None} ELSE {}) :
          op' = [op EXCEPT ![c].at = "deleteDevice", ![c].address = a]
    BY DEF GetToRemove
  <1>2. op[c].at = "get" /\ UNCHANGED <<backend, deviceAt, idAt, ops, lookedUp, sure>>
    BY DEF GetToRemove
  <1>3. /\ op[c] \in OpRecord /\ OpTypeOK(op[c]) /\ d \in Devices /\ op[c].address = None
        /\ op[c].at \in Writing
    BY <1>2, OpOf DEF CacheIndInv, OpTypeOK, Writing
  <1>4. a \in Addresses \cup {None}
    BY <1>1, <1>3 DEF CacheIndInv, EntryTypeOK
  <1> DEFINE o1 == [op[c] EXCEPT !.at = "deleteDevice", !.address = a]
  <1>5. /\ o1.at = "deleteDevice" /\ o1.ok = op[c].ok /\ o1.device = d /\ o1.address = a
        /\ o1.alone = op[c].alone /\ o1 \in OpRecord
    BY <1>3, <1>4 DEF OpRecord, Writing
  <1>6. op' = [op EXCEPT ![c] = o1]
    BY <1>1 DEF CacheIndInv, EntryTypeOK
  <1> HIDE DEF o1
  <1>7. OpTypeOK(o1) /\ o1.at \in Writing
    BY <1>3, <1>4, <1>5 DEF OpTypeOK, Writing
  <1>8. /\ op' \in [Clients -> OpRecord] /\ (\A x \in Clients : OpTypeOK(op[x])')
        /\ backend' = "memory" =>
              \A b, x \in Clients : op'[b].at # "idle" /\ op'[x].at # "idle" => b = x
        /\ AloneIsAlone' /\ (sure' = sure => SureIsLeft')
        /\ op'[c] = o1 /\ \A x \in Clients \ {c} : op'[x] = op[x]
    BY <1>2, <1>3, <1>5, <1>6, <1>7, StepKeeps
  <1>9. EntryTypeOK'
    BY <1>2, <1>8 DEF CacheIndInv, EntryTypeOK
  <1>10. HalfDone' /\ AckedHolds'
    BY <1>2, <1>5, <1>8 DEF CacheIndInv, HalfDone, AckedHolds
  <1> QED
    BY <1>2, <1>8, <1>9, <1>10 DEF CacheIndInv

LEMMA DeleteDeviceKeeps ==
  ASSUME CacheIndInv, NEW c \in Clients, DeleteDevice(c)
  PROVE  CacheIndInv'
  <1> DEFINE d == op[c].device  was == deviceAt[d] # None
  <1>1. PICK o \in Outcomes :
          /\ deviceAt' = IF o[2] THEN [deviceAt EXCEPT ![d] = None] ELSE deviceAt
          /\ IF op[c].address = None
             THEN op' = [op EXCEPT ![c] = Idle] /\ Removed(c, o[1] /\ was)
             ELSE /\ op' = [op EXCEPT ![c].at = "deleteIp", ![c].ok = o[1] /\ was]
                  /\ UNCHANGED sure
    BY DEF DeleteDevice
  <1>2. op[c].at = "deleteDevice" /\ UNCHANGED <<backend, idAt, ops, lookedUp>>
    BY DEF DeleteDevice
  <1>3. op[c] \in OpRecord /\ OpTypeOK(op[c]) /\ d \in Devices /\ op[c].at \in Writing
    BY <1>2, OpOf DEF CacheIndInv, Writing
  <1>4. o[1] \in BOOLEAN /\ (o[1] => o[2]) /\ was \in BOOLEAN
    BY OutcomesType
  <1>5. deviceAt \in [Devices -> Addresses \cup {None}]
    BY DEF CacheIndInv, EntryTypeOK
  <1>6. /\ deviceAt' \in [Devices -> Addresses \cup {None}]
        /\ \A e \in Devices \ {d} : deviceAt'[e] = deviceAt[e]
        /\ o[1] => deviceAt'[d] = None
        /\ deviceAt[d] = None => deviceAt'[d] = None
    BY <1>1, <1>3, <1>4, <1>5
  <1> HIDE DEF was
  <1> DEFINE o1 == IF op[c].address = None THEN Idle
                   ELSE [op[c] EXCEPT !.at = "deleteIp", !.ok = o[1] /\ was]
  <1>7. /\ op' = [op EXCEPT ![c] = o1] /\ o1 \in OpRecord /\ OpTypeOK(o1)
        /\ \/ o1 = Idle
           \/ /\ o1.at = "deleteIp" /\ o1.ok = (o[1] /\ was) /\ o1.device = d
              /\ o1.alone = op[c].alone /\ o1.address = op[c].address
    <2>1. CASE op[c].address = None
      BY <1>1, <2>1, IdleCall
    <2>2. CASE op[c].address # None
      <3> DEFINE new == [op[c] EXCEPT !.at = "deleteIp", !.ok = o[1] /\ was]
      <3>1. /\ new.at = "deleteIp" /\ new.ok = (o[1] /\ was) /\ new.device = d
            /\ new.alone = op[c].alone /\ new.address = op[c].address /\ new \in OpRecord
        BY <1>3, <1>4 DEF OpRecord, Writing
      <3>2. op' = [op EXCEPT ![c] = new]
        BY <1>1, <2>2 DEF CacheIndInv, EntryTypeOK
      <3>3. o1 = new
        BY <2>2
      <3> HIDE DEF new, o1
      <3>4. OpTypeOK(new)
        BY <1>3, <1>4, <2>2, <3>1 DEF OpTypeOK, Writing
      <3> QED
        BY <3>1, <3>2, <3>3, <3>4
    <2> QED
      BY <2>1, <2>2
  <1> HIDE DEF o1
  <1>8. /\ op' \in [Clients -> OpRecord] /\ (\A x \in Clients : OpTypeOK(op[x])')
        /\ backend' = "memory" =>
              \A b, x \in Clients : op'[b].at # "idle" /\ op'[x].at # "idle" => b = x
        /\ AloneIsAlone' /\ (sure' = sure => SureIsLeft')
        /\ op'[c] = o1 /\ \A x \in Clients \ {c} : op'[x] = op[x]
    <2>1. o1.at = "idle" \/ (o1.at \in Writing /\ op[c].at \in Writing
              /\ o1.device = op[c].device /\ o1.alone = op[c].alone /\ o1.address = op[c].address)
      BY <1>3, <1>7, IdleCall DEF Writing
    <2> QED
      BY <1>2, <1>7, <2>1, StepKeeps
  <1>9. \/ sure' = sure
        \/ /\ sure' = sure \cup {<<d, None>>} /\ op' = [op EXCEPT ![c] = Idle] /\ op[c].alone
           /\ o[1]
    BY <1>1, Zenon DEF Removed
  <1>10. SureIsLeft'
    BY <1>3, <1>8, <1>9, MadeSure
  <1>11. EntryTypeOK'
    <2>1. sure' \subseteq Devices \X (Addresses \cup {None})
      BY <1>3, <1>9 DEF CacheIndInv, EntryTypeOK
    <2> QED
      BY <1>2, <1>6, <1>8, <2>1 DEF CacheIndInv, EntryTypeOK
  <1>12. HalfDone'
    <2> SUFFICES ASSUME NEW x \in Clients, op'[x].alone, op'[x].ok
                 PROVE  /\ op'[x].at = "setIp" => deviceAt'[op'[x].device] = op'[x].address
                        /\ op'[x].at = "deleteIp" => deviceAt'[op'[x].device] = None
      BY DEF HalfDone
    <2>1. CASE x = c
      BY <1>6, <1>7, <1>8, <2>1, IdleCall
    <2>2. CASE x # c /\ op[x].at \in {"setIp", "deleteIp"}
      <3>1. op'[x] = op[x] /\ op[x].at \in Writing /\ op[x].device \in Devices
        BY <1>8, <2>2, OpOf DEF Writing, CacheIndInv
      <3>2. op[x].device # d
        BY <1>3, <2>2, <3>1, <1>8 DEF CacheIndInv, AloneIsAlone, Touches, Meet
      <3> QED
        BY <1>6, <3>1, <3>2 DEF CacheIndInv, HalfDone
    <2> QED
      BY <1>8, <2>1, <2>2
  <1>13. AckedHolds'
    <2> SUFFICES ASSUME NEW s \in sure'
                 PROVE  IF s[2] = None THEN deviceAt'[s[1]] = None
                        ELSE deviceAt'[s[1]] = s[2] /\ idAt[s[2]] = s[1]
      BY <1>2 DEF AckedHolds
    <2>1. CASE s \in sure
      <3>1. s[1] \in Devices /\ s[1] # d
        BY <1>3, <2>1 DEF CacheIndInv, EntryTypeOK, SureIsLeft, Upsets, Touches, Meet
      <3> QED
        BY <1>6, <2>1, <3>1 DEF CacheIndInv, AckedHolds
    <2>2. CASE s \notin sure
      <3>1. s = <<d, None>> /\ o[1]
        BY <1>9, <2>2
      <3> QED
        BY <1>6, <3>1
    <2> QED
      BY <2>1, <2>2
  <1> QED
    BY <1>8, <1>10, <1>11, <1>12, <1>13 DEF CacheIndInv

LEMMA DeleteIpKeeps ==
  ASSUME CacheIndInv, NEW c \in Clients, DeleteIp(c)
  PROVE  CacheIndInv'
  <1> DEFINE d == op[c].device  a == op[c].address
  <1>1. PICK o \in Outcomes :
          /\ Removed(c, Both(op[c].ok, o[1] /\ idAt[a] # None))
          /\ idAt' = IF o[2] THEN [idAt EXCEPT ![a] = None] ELSE idAt
    BY DEF DeleteIp
  <1>2. op[c].at = "deleteIp" /\ op' = [op EXCEPT ![c] = Idle] /\ UNCHANGED <<backend, deviceAt, ops, lookedUp>>
    BY DEF DeleteIp
  <1>3. op[c] \in OpRecord /\ d \in Devices /\ a \in Addresses /\ op[c].at \in Writing
    BY <1>2, OpOf DEF CacheIndInv, OpTypeOK, Writing
  <1>4. /\ op' \in [Clients -> OpRecord] /\ (\A x \in Clients : OpTypeOK(op[x])')
        /\ backend' = "memory" =>
              \A b, x \in Clients : op'[b].at # "idle" /\ op'[x].at # "idle" => b = x
        /\ AloneIsAlone' /\ (sure' = sure => SureIsLeft')
        /\ op'[c] = Idle /\ \A x \in Clients \ {c} : op'[x] = op[x]
    BY <1>2, IdleCall, StepKeeps
  <1>5. /\ idAt' \in [Addresses -> Devices \cup {None}]
        /\ \A b \in Addresses \ {a} : idAt'[b] = idAt[b]
    BY <1>1, <1>3 DEF CacheIndInv, EntryTypeOK
  <1>6. sure' = sure \/ (sure' = sure \cup {<<d, None>>} /\ op[c].alone /\ op[c].ok)
    BY <1>1, Zenon DEF Removed, Both
  <1>7. SureIsLeft'
    BY <1>2, <1>3, <1>4, <1>6, MadeSure
  <1>8. EntryTypeOK'
    <2>1. sure' \subseteq Devices \X (Addresses \cup {None})
      BY <1>3, <1>6 DEF CacheIndInv, EntryTypeOK
    <2> QED
      BY <1>2, <1>4, <1>5, <2>1 DEF CacheIndInv, EntryTypeOK
  <1>9. HalfDone'
    BY <1>2, <1>4, IdleCall DEF CacheIndInv, HalfDone
  <1>10. AckedHolds'
    <2> SUFFICES ASSUME NEW s \in sure'
                 PROVE  IF s[2] = None THEN deviceAt[s[1]] = None
                        ELSE deviceAt[s[1]] = s[2] /\ idAt'[s[2]] = s[1]
      BY <1>2 DEF AckedHolds
    <2>1. CASE s \in sure
      <3>1. s[2] \in Addresses \cup {None} /\ (s[2] # None => s[2] # a)
        BY <1>3, <2>1 DEF CacheIndInv, EntryTypeOK, SureIsLeft, Upsets, Touches, Meet
      <3> QED
        BY <1>5, <2>1, <3>1 DEF CacheIndInv, AckedHolds
    <2>2. CASE s \notin sure
      <3>1. s = <<d, None>> /\ op[c].alone /\ op[c].ok
        BY <1>6, <2>2
      <3>2. deviceAt[d] = None
        BY <1>2, <3>1 DEF CacheIndInv, HalfDone
      <3> QED
        BY <3>1, <3>2
    <2> QED
      BY <2>1, <2>2
  <1> QED
    BY <1>4, <1>7, <1>8, <1>9, <1>10 DEF CacheIndInv

\* Looking up changes nothing that is stored, and is no writing.
LEMMA LookUpKeeps ==
  ASSUME CacheIndInv, NEW c \in Clients, (\E a \in Addresses : GetByIp(c, a)) \/ GetFound(c)
  PROVE  CacheIndInv'
  <1>1. UNCHANGED <<backend, deviceAt, idAt, sure>>
    BY DEF GetByIp, GetFound
  <1> DEFINE Fits(o1) == /\ o1 \in OpRecord /\ OpTypeOK(o1) /\ o1.at \notin Writing
                         /\ op' \in {op, [op EXCEPT ![c] = o1]}
                         /\ o1.at # "idle" => Turn(c)
  <1>2. \E new : Fits(new)
    <2>1. ASSUME NEW a \in Addresses, GetByIp(c, a) PROVE \E new : Fits(new)
      <3>1. PICK id \in {idAt[a]} \cup (IF backend = "redis" THEN {None} ELSE {}) :
              IF id = None THEN UNCHANGED op
              ELSE op' = [op EXCEPT ![c] = [Idle EXCEPT !.at = "getDevice", !.device = id, !.address = a]]
        BY <2>1 DEF GetByIp
      <3>2. Turn(c)
        BY <2>1 DEF GetByIp
      <3>3. CASE id = None
        <4>1. Fits(Idle)
          BY <3>1, <3>3, IdleCall DEF Writing
        <4> QED
          BY <4>1
      <3>4. CASE id # None
        <4> DEFINE new == [Idle EXCEPT !.at = "getDevice", !.device = id, !.address = a]
        <4>1. id \in Devices
          BY <3>1, <3>4 DEF CacheIndInv, EntryTypeOK
        <4>2. /\ new \in OpRecord
              /\ new.at = "getDevice" /\ new.device = id /\ new.address = a /\ new.ok = TRUE
              /\ new.alone = TRUE
          BY <4>1 DEF OpRecord, Idle
        <4>3. op' = [op EXCEPT ![c] = new]
          BY <3>1, <3>4
        <4> HIDE DEF new
        <4>4. Fits(new)
          BY <3>2, <4>1, <4>2, <4>3 DEF OpTypeOK, Writing
        <4> QED
          BY <4>4
      <3> QED
        BY <3>3, <3>4
    <2>2. ASSUME GetFound(c) PROVE \E new : Fits(new)
      <3>1. Fits(Idle)
        BY <2>2, IdleCall DEF GetFound, Writing
      <3> QED
        BY <3>1
    <2> QED
      BY <2>1, <2>2
  <1>3. PICK new : Fits(new)
    BY <1>2
  <1>4. op' \in [Clients -> OpRecord] /\ \A o \in Clients : op'[o] = op[o] \/ (o = c /\ op'[o] = new)
    BY <1>3 DEF CacheIndInv, EntryTypeOK
  <1>5. \A o \in Clients : op'[o].at \in Writing => op'[o] = op[o]
    BY <1>3, <1>4
  <1>6. EntryTypeOK'
    <2>1. \A o \in Clients : OpTypeOK(op'[o])
      BY <1>3, <1>4 DEF CacheIndInv, EntryTypeOK
    <2>2. \A o \in Clients : OpTypeOK(op[o])'
      BY <2>1 DEF OpTypeOK
    <2>3. backend' = "memory" => \A b, o \in Clients : op'[b].at # "idle" /\ op'[o].at # "idle" => b = o
      <3>1. \A b \in Clients \ {c} : op'[b] = op[b]
        BY <1>4
      <3> QED
        BY <1>1, <1>3, <1>4, <3>1 DEF CacheIndInv, EntryTypeOK, Turn
    <2>4. ops' \in 0 .. MaxOps
      <3>1. ops \in 0 .. MaxOps /\ (ops' = ops \/ (ops < MaxOps /\ ops' = ops + 1))
        BY DEF GetByIp, GetFound, CacheIndInv, EntryTypeOK
      <3> QED
        BY <3>1, CacheAssumption
    <2>5. lookedUp' \in [Clients -> Devices \cup {None}]
      <3>1. ASSUME GetFound(c) PROVE lookedUp' \in [Clients -> Devices \cup {None}]
        <4>1. op[c].device \in Devices
          BY <3>1 DEF GetFound, CacheIndInv, EntryTypeOK, OpTypeOK
        <4> QED
          BY <3>1, <4>1 DEF GetFound, CacheIndInv, EntryTypeOK
      <3>2. ASSUME NEW a \in Addresses, GetByIp(c, a) PROVE lookedUp' \in [Clients -> Devices \cup {None}]
        BY <3>2 DEF GetByIp, CacheIndInv, EntryTypeOK
      <3> QED
        BY <3>1, <3>2
    <2> QED
      BY <1>1, <1>4, <2>2, <2>3, <2>4, <2>5 DEF CacheIndInv, EntryTypeOK
  <1>7. AloneIsAlone' /\ SureIsLeft' /\ AckedHolds'
    BY <1>1, <1>5 DEF CacheIndInv, AloneIsAlone, SureIsLeft, AckedHolds
  <1>8. HalfDone'
    BY <1>1, <1>5 DEF CacheIndInv, HalfDone, Writing
  <1> QED
    BY <1>6, <1>7, <1>8 DEF CacheIndInv

\* Entries go while calls are disturbed: those on a device or an address, or all.
LEMMA ForgetKeeps ==
  ASSUME CacheIndInv, NEW c \in Clients \cup {None}, NEW d, NEW a, op' = Disturb(c, d, a),
         c \in Clients => op[c].at = "idle",
         deviceAt' \in [Devices -> Addresses \cup {None}],
         idAt' \in [Addresses -> Devices \cup {None}],
         \A e \in Devices : deviceAt'[e] \in {deviceAt[e], None}
                            /\ (deviceAt'[e] # deviceAt[e] => Meet(d, e)),
         \A s \in sure' : /\ s \in sure
                          /\ s[2] # None => deviceAt'[s[1]] = deviceAt[s[1]] /\ idAt'[s[2]] = idAt[s[2]],
         sure' \subseteq sure,
         ops' \in 0 .. MaxOps, UNCHANGED <<backend, lookedUp>>
  PROVE  CacheIndInv'
  <1>1. \A o \in Clients :
            /\ op'[o].at = op[o].at /\ op'[o].device = op[o].device /\ op'[o].address = op[o].address
            /\ op'[o].ok = op[o].ok /\ (op'[o].alone => op[o].alone) /\ OpTypeOK(op'[o])
            /\ op'[o].alone /\ op[o].at # "idle" => ~Touches(d, a, op[o].device, op[o].address)
            /\ op' \in [Clients -> OpRecord]
    BY Disturbed DEF CacheIndInv
  <1>2. EntryTypeOK'
    <2>1. \A o \in Clients : OpTypeOK(op[o])'
      BY <1>1 DEF OpTypeOK
    <2>2. op' \in [Clients -> OpRecord]
      BY <1>1 DEF Disturb
    <2>3. backend' = "memory" => \A b, o \in Clients : op'[b].at # "idle" /\ op'[o].at # "idle" => b = o
      BY <1>1 DEF CacheIndInv, EntryTypeOK
    <2> QED
      BY <2>1, <2>2, <2>3 DEF CacheIndInv, EntryTypeOK
  <1>3. AloneIsAlone'
    BY <1>1 DEF CacheIndInv, AloneIsAlone
  <1>4. SureIsLeft'
    BY <1>1 DEF CacheIndInv, SureIsLeft
  <1>5. HalfDone'
    <2> SUFFICES ASSUME NEW x \in Clients, op'[x].alone, op'[x].ok, op'[x].at \in {"setIp", "deleteIp"}
                 PROVE  /\ op'[x].at = "setIp" => deviceAt'[op'[x].device] = op'[x].address
                        /\ op'[x].at = "deleteIp" => deviceAt'[op'[x].device] = None
      BY DEF HalfDone
    <2>1. op[x].device \in Devices /\ ~Meet(d, op[x].device)
      BY <1>1 DEF Touches, CacheIndInv, EntryTypeOK, OpTypeOK
    <2> QED
      BY <1>1, <2>1 DEF CacheIndInv, HalfDone
  <1>6. AckedHolds'
    <2> SUFFICES ASSUME NEW s \in sure'
                 PROVE  IF s[2] = None THEN deviceAt'[s[1]] = None
                        ELSE deviceAt'[s[1]] = s[2] /\ idAt'[s[2]] = s[1]
      BY DEF AckedHolds
    <2>1. s[1] \in Devices /\ s \in sure
      BY DEF CacheIndInv, EntryTypeOK
    <2> QED
      BY <2>1 DEF CacheIndInv, AckedHolds
  <1> QED
    BY <1>2, <1>3, <1>4, <1>5, <1>6 DEF CacheIndInv

LEMMA ClearKeeps ==
  ASSUME CacheIndInv, NEW c \in Clients, ClearAll(c)
  PROVE  CacheIndInv'
  <1>1. /\ op[c].at = "idle" /\ ops < MaxOps /\ ops' = ops + 1
        /\ sure' = {} /\ op' = Disturb(c, None, None) /\ UNCHANGED <<backend, lookedUp>>
    BY DEF ClearAll
  <1>2. PICK o \in Outcomes :
          /\ deviceAt' = IF o[2] THEN [d \in Devices |-> None] ELSE deviceAt
          /\ idAt' = IF o[2] THEN [a \in Addresses |-> None] ELSE idAt
    BY DEF ClearAll
  <1>3. ops' \in 0 .. MaxOps
    BY <1>1, CacheAssumption DEF CacheIndInv, EntryTypeOK
  <1>4. /\ deviceAt' \in [Devices -> Addresses \cup {None}]
        /\ idAt' \in [Addresses -> Devices \cup {None}]
        /\ \A e \in Devices : deviceAt'[e] \in {deviceAt[e], None} /\ Meet(None, e)
    BY <1>2 DEF CacheIndInv, EntryTypeOK, Meet
  <1> QED
    BY <1>1, <1>3, <1>4, ForgetKeeps

LEMMA ExpiryKeeps ==
  ASSUME CacheIndInv, (\E d \in Devices : ExpireDevice(d)) \/ (\E a \in Addresses : ExpireIp(a))
  PROVE  CacheIndInv'
  <1>1. ASSUME NEW d \in Devices, ExpireDevice(d) PROVE CacheIndInv'
    <2>1. /\ deviceAt' = [deviceAt EXCEPT ![d] = None]
          /\ sure' = {s \in sure : s[1] # d \/ s[2] = None} /\ op' = Disturb(None, d, d)
          /\ UNCHANGED <<backend, idAt, ops, lookedUp>>
      BY <1>1 DEF ExpireDevice
    <2>2. /\ deviceAt' \in [Devices -> Addresses \cup {None}]
          /\ idAt' \in [Addresses -> Devices \cup {None}]
          /\ ops' \in 0 .. MaxOps
          /\ \A e \in Devices : deviceAt'[e] \in {deviceAt[e], None}
                                /\ (deviceAt'[e] # deviceAt[e] => Meet(d, e))
      BY <2>1 DEF CacheIndInv, EntryTypeOK, Meet
    <2>3. \A s \in sure' : s \in sure /\ s[1] \in Devices /\ (s[1] # d \/ s[2] = None)
      BY <2>1 DEF CacheIndInv, EntryTypeOK
    <2>4. \A s \in sure' : s[2] # None => deviceAt'[s[1]] = deviceAt[s[1]] /\ idAt'[s[2]] = idAt[s[2]]
      BY <2>1, <2>3 DEF CacheIndInv, EntryTypeOK
    <2> QED
      BY <2>1, <2>2, <2>3, <2>4, ForgetKeeps, CacheAssumption
  <1>2. ASSUME NEW a \in Addresses, ExpireIp(a) PROVE CacheIndInv'
    <2>1. /\ idAt' = [idAt EXCEPT ![a] = None]
          /\ sure' = {s \in sure : s[2] # a} /\ op' = Disturb(None, a, a)
          /\ UNCHANGED <<backend, deviceAt, ops, lookedUp>>
      BY <1>2 DEF ExpireIp
    <2>2. /\ deviceAt' \in [Devices -> Addresses \cup {None}]
          /\ idAt' \in [Addresses -> Devices \cup {None}]
          /\ ops' \in 0 .. MaxOps
          /\ \A e \in Devices : deviceAt'[e] = deviceAt[e]
      BY <2>1 DEF CacheIndInv, EntryTypeOK
    <2>3. \A s \in sure' : s \in sure /\ s[2] \in Addresses \cup {None} /\ s[2] # a
      BY <2>1 DEF CacheIndInv, EntryTypeOK
    <2>4. \A s \in sure' : s[2] # None => deviceAt'[s[1]] = deviceAt[s[1]] /\ idAt'[s[2]] = idAt[s[2]]
      BY <2>1, <2>3 DEF CacheIndInv, EntryTypeOK
    <2> QED
      BY <2>1, <2>2, <2>3, <2>4, ForgetKeeps, CacheAssumption
  <1> QED
    BY <1>1, <1>2

-----------------------------------------------------------------------------

LEMMA CacheNextKeeps == CacheIndInv /\ [CacheNext]_cacheVars => CacheIndInv'
  <1> SUFFICES ASSUME CacheIndInv, [CacheNext]_cacheVars PROVE CacheIndInv'
    OBVIOUS
  <1>1. ASSUME NEW c \in Clients, NEW d \in Devices, RemoveDevice(c, d) PROVE CacheIndInv'
    BY <1>1, BeginKeeps DEF RemoveDevice
  <1>2. ASSUME NEW c \in Clients, NEW d \in Devices, NEW a \in Addresses, CacheDevice(c, d, a)
        PROVE  CacheIndInv'
    BY <1>2, BeginKeeps, CacheAssumption DEF CacheDevice
  <1>3. ASSUME NEW c \in Clients, CacheStep(c) PROVE CacheIndInv'
    BY <1>3, SetDeviceKeeps, SetIpKeeps, GetToRemoveKeeps, DeleteDeviceKeeps, DeleteIpKeeps, LookUpKeeps
    DEF CacheStep
  <1>4. CASE UNCHANGED cacheVars
    <2>1. \A o \in Clients : OpTypeOK(op[o])' <=> OpTypeOK(op[o])
      BY <1>4 DEF cacheVars, OpTypeOK
    <2>2. EntryTypeOK'
      BY <1>4, <2>1 DEF cacheVars, CacheIndInv, EntryTypeOK
    <2>3. AloneIsAlone' /\ SureIsLeft' /\ HalfDone' /\ AckedHolds'
      BY <1>4 DEF cacheVars, CacheIndInv, AloneIsAlone, SureIsLeft, HalfDone, AckedHolds
    <2> QED
      BY <2>2, <2>3 DEF CacheIndInv
  <1> QED
    BY <1>1, <1>2, <1>3, <1>4, LookUpKeeps, ClearKeeps, ExpiryKeeps DEF CacheNext

\* What a call of the cache reports as done is so, also when calls overlapped, failed half-way,
\* or took effect though they failed; and in memory one call runs at a time.
THEOREM CacheAnswersHold == CacheSpec => []CacheInv
  <1>1. CacheIndInv => CacheInv
    <2> SUFFICES ASSUME CacheIndInv PROVE CacheInv
      OBVIOUS
    <2>1. ASSUME backend = "memory" PROVE Cardinality({c \in Clients : op[c].at # "idle"}) <= 1
      <3> DEFINE busy == {c \in Clients : op[c].at # "idle"}
      <3>1. \A b, o \in busy : b = o
        BY <2>1 DEF CacheIndInv, EntryTypeOK
      <3>2. CASE busy = {}
        BY <3>2, FS_EmptySet
      <3>3. CASE \E b : b \in busy
        <4>1. PICK b : busy = {b}
          BY <3>1, <3>3
        <4> QED
          BY <4>1, FS_Singleton
      <3> QED
        BY <3>2, <3>3
    <2>2. CacheTypeOK
      BY <2>1 DEF CacheIndInv, EntryTypeOK, CacheTypeOK
    <2> QED
      BY <2>2 DEF CacheIndInv, CacheInv
  <1> QED
    BY CacheInitial, CacheNextKeeps, <1>1, PTL DEF CacheSpec

\* A look-up by address tells of a device only while it is cached.
THEOREM LookUpsAreCached == CacheSpec => FoundIsCached
  <1>1. EntryTypeOK /\ [CacheNext]_cacheVars
        => [\A c \in Clients : lookedUp'[c] # lookedUp[c] /\ lookedUp'[c] # None
              => deviceAt[lookedUp'[c]] # None]_cacheVars
    <2> SUFFICES ASSUME EntryTypeOK, CacheNext, NEW c \in Clients,
                        lookedUp'[c] # lookedUp[c], lookedUp'[c] # None
                 PROVE  deviceAt[lookedUp'[c]] # None
      OBVIOUS
    <2>1. lookedUp \in [Clients -> Devices \cup {None}]
      BY DEF EntryTypeOK
    <2>2. ASSUME NEW o \in Clients, NEW a \in Addresses, GetByIp(o, a) PROVE FALSE
      BY <2>1, <2>2 DEF GetByIp
    <2>3. ASSUME NEW o \in Clients, GetFound(o) PROVE deviceAt[lookedUp'[c]] # None
      BY <2>1, <2>3 DEF GetFound
    <2> QED
      BY <2>2, <2>3 DEF CacheNext, CacheStep, RemoveDevice, CacheDevice, Begin, SetDevice, SetIp,
                        GetToRemove, DeleteDevice, DeleteIp, ClearAll, ExpireDevice, ExpireIp
  <1>2. CacheSpec => []EntryTypeOK
    <2>1. CacheIndInv => EntryTypeOK
      BY DEF CacheIndInv
    <2> QED
      BY CacheInitial, CacheNextKeeps, <2>1, PTL DEF CacheSpec
  <1> QED
    BY <1>1, <1>2, PTL DEF CacheSpec, FoundIsCached

-----------------------------------------------------------------------------
(* The network scan and its limiter *)

Passed == {"backoff", "connect", "open"}
AtHost == {"host"}
Held == {"global", "host", "backoff", "connect"}
PcStates == Sleeping \cup {"queued", "connect", "open", "closed"}

\* The requests for a host that are in some states.
In(at, states, h) == {r \in Of(h) : at[r] \in states}

ScanTypes ==
    /\ LimiterTypeOK
    /\ host \in [Hosts -> {"idle", "queued", "ping", "scan", "done"}]
    /\ DOMAIN result \subseteq Hosts /\ dead \subseteq Hosts /\ missed \subseteq Requests
    /\ success \in BOOLEAN /\ scanning \in BOOLEAN /\ scans \in 0 .. MaxScans

\* A bucket that has not been made has given nothing.
FreshBuckets == \A b \in Buckets \ DOMAIN tokens : taken[b] = 0

\* Requests that wait for a token of their host have taken a global one.
GlobalFirst == \A h \in Hosts : taken[h] + Cardinality(In(pc, AtHost, h)) <= taken[Global]

HostTokens == \A h \in Hosts : Cardinality(In(pc, Passed, h)) <= taken[h]

PortsBounded == \A h \in Hosts : Cardinality(In(pc, Held, h)) <= MaxPorts

Listens(r) == <<HostOf[r], PortOf(r)>> \in Listening

\* What is known of a port when its request has ended.
PortsKnown ==
    \A r \in Requests :
        /\ pc[r] = "open" => Listens(r)
        /\ pc[r] = "closed" /\ Listens(r) => r \in missed
        /\ r \in missed => pc[r] = "closed"

\* How far a host is, its requests, and its device.
HostFollows ==
    \A h \in Hosts :
        /\ host[h] \in {"idle", "queued", "ping"} \/ (host[h] = "done" /\ h \in dead) =>
              /\ h \notin DOMAIN result
              /\ \A r \in Of(h) : pc[r] = "queued"
        /\ host[h] # "done" => h \notin dead /\ h \notin DOMAIN result
        /\ host[h] = "done" /\ h \notin dead =>
              /\ \A r \in Of(h) : pc[r] \in Ended
              /\ h \in DOMAIN result <=> OpenPorts(h) # {}
              /\ h \in DOMAIN result => /\ result[h].ports = At(OpenPorts(h))
                                        /\ result[h].services \subseteq At(OpenPorts(h))

ScanInv ==
    /\ ScanTypes /\ FreshBuckets /\ NeverOverRate
    /\ GlobalFirst /\ HostTokens /\ PortsBounded
    /\ PortsKnown /\ HostFollows

LEMMA Products ==
  /\ \A r \in Nat, t, a \in Int : r * (t - a) + a * r = r * t
  /\ \A r \in Nat, x, y \in Int : x <= y => r * x <= r * y
  /\ \A u \in Nat, n \in Int : (n + 1) * u = n * u + u
  /\ \A u, n \in Nat : n * u \in Nat
  <1>1. \A r \in Nat, t, a \in Int : r * (t - a) + a * r = r * t
    OBVIOUS
  <1>2. \A r \in Nat, x, y \in Int : x <= y => r * x <= r * y
    OBVIOUS
  <1>3. \A u \in Nat, n \in Int : (n + 1) * u = n * u + u
    OBVIOUS
  <1>4. \A u, n \in Nat : n * u \in Nat
    OBVIOUS
  <1> QED
    BY <1>1, <1>2, <1>3, <1>4

LEMMA Divisions ==
  /\ \A n \in Nat, d \in Nat \ {0} : n \div d \in Nat
  /\ \A n \in Nat : (n * 4) \div 5 \in 0 .. n
  OBVIOUS

LEMMA SmallerType ==
  \A a, b \in Int : Smaller(a, b) \in {a, b} /\ Smaller(a, b) <= a /\ Smaller(a, b) <= b
  BY DEF Smaller

LEMMA BucketTypes ==
  \A b \in Buckets : Capacity(b) \in Nat /\ Rate(b) \in Nat \ {0}
  <1> SUFFICES ASSUME NEW b \in Buckets PROVE Capacity(b) \in Nat /\ Rate(b) \in Nat \ {0}
    OBVIOUS
  <1>1. Rate(b) \in Nat \ {0} /\ Unit \in Nat \ {0}
    BY LimiterAssumption DEF Rate
  <1>2. (2 * Rate(b)) \div Unit \in Nat
    BY <1>1, Divisions
  <1> QED
    BY <1>1, <1>2, Products DEF Capacity

\* What a bucket holds when it is asked.
LEMMA RefilledType ==
  ASSUME LimiterTypeOK, NEW b \in Buckets
  PROVE  /\ Refilled(b) \in 0 .. Capacity(b)
         /\ b \in DOMAIN tokens => Refilled(b) <= tokens[b] + age[b] * Rate(b)
  <1>1. Capacity(b) \in Nat /\ Rate(b) \in Nat
    BY BucketTypes
  <1>2. CASE b \in DOMAIN tokens
    <2>1. tokens[b] \in 0 .. Capacity(b) /\ age[b] \in Nat
      BY <1>2 DEF LimiterTypeOK
    <2>2. age[b] * Rate(b) \in Nat
      BY <1>1, <2>1, Products
    <2> DEFINE n == tokens[b] + age[b] * Rate(b)
    <2>3. n \in Nat
      BY <1>1, <2>1, <2>2
    <2> HIDE DEF n
    <2>4. Refilled(b) = Smaller(Capacity(b), n)
      BY <1>2 DEF Refilled, n
    <2>5. Smaller(Capacity(b), n) \in 0 .. Capacity(b) /\ Smaller(Capacity(b), n) <= n
      BY <1>1, <2>3, SmallerType
    <2> QED
      BY <2>4, <2>5 DEF n
  <1>3. CASE b \notin DOMAIN tokens
    BY <1>1, <1>3 DEF Refilled
  <1> QED
    BY <1>2, <1>3

\* Buckets that are asked give a token if they have one, and never more than time has added.
LEMMA ConsumeKeeps ==
  ASSUME LimiterTypeOK, FreshBuckets, NeverOverRate, NEW buckets \in SUBSET Buckets,
         Consume(buckets), now' = now
  PROVE  /\ DOMAIN tokens' = DOMAIN tokens \cup buckets /\ DOMAIN age' = DOMAIN tokens'
         /\ \A b \in DOMAIN tokens' : tokens'[b] \in 0 .. Capacity(b) /\ age'[b] \in 0 .. 2
         /\ taken' \in [Buckets -> Nat]
         /\ \A b \in Buckets : taken'[b] = taken[b] + (IF b \in buckets /\ Has(b) THEN 1 ELSE 0)
         /\ FreshBuckets' /\ NeverOverRate'
  <1> DEFINE gives(b) == b \in buckets /\ Has(b)
  <1>1. /\ tokens' = [b \in DOMAIN tokens \cup buckets |->
                         IF b \in buckets THEN Refilled(b) - (IF Has(b) THEN Unit ELSE 0) ELSE tokens[b]]
        /\ age' = [b \in DOMAIN tokens \cup buckets |-> IF b \in buckets THEN 0 ELSE age[b]]
        /\ taken' = [b \in Buckets |-> IF gives(b) THEN taken[b] + 1 ELSE taken[b]]
    BY DEF Consume
  <1>2. /\ DOMAIN tokens \subseteq Buckets /\ DOMAIN age = DOMAIN tokens /\ taken \in [Buckets -> Nat]
        /\ \A b \in DOMAIN tokens : tokens[b] \in 0 .. Capacity(b) /\ age[b] \in 0 .. 2
        /\ now \in Nat
    BY LimiterAssumption DEF LimiterTypeOK
  <1>3. Unit \in Nat \ {0}
    BY LimiterAssumption
  <1>4. \A b \in Buckets : Refilled(b) \in 0 .. Capacity(b) /\ (Has(b) => Refilled(b) >= Unit)
    BY RefilledType DEF Has
  <1>5. \A b \in Buckets : taken'[b] = IF gives(b) THEN taken[b] + 1 ELSE taken[b]
    BY <1>1
  <1>6. \A b \in DOMAIN tokens' : tokens'[b] \in 0 .. Capacity(b) /\ age'[b] \in 0 .. 2
    <2> SUFFICES ASSUME NEW b \in DOMAIN tokens \cup buckets
                 PROVE  tokens'[b] \in 0 .. Capacity(b) /\ age'[b] \in 0 .. 2
      BY <1>1
    <2>1. CASE b \in buckets
      <3>1. tokens'[b] = Refilled(b) - (IF Has(b) THEN Unit ELSE 0) /\ age'[b] = 0
        BY <1>1, <2>1
      <3>2. Capacity(b) \in Nat
        BY <2>1, BucketTypes
      <3> QED
        BY <1>3, <1>4, <2>1, <3>1, <3>2
    <2>2. CASE b \notin buckets
      BY <1>1, <1>2, <2>2
    <2> QED
      BY <2>1, <2>2
  <1>7. taken' \in [Buckets -> Nat] /\ FreshBuckets'
    BY <1>1, <1>2 DEF FreshBuckets
  <1>8. NeverOverRate'
    <2> SUFFICES ASSUME now < MaxTime, NEW b \in DOMAIN tokens \cup buckets
                 PROVE  taken'[b] * Unit + tokens'[b] <= Capacity(b) + Rate(b) * (now - age'[b])
      BY <1>1 DEF NeverOverRate
    <2>1. /\ b \in Buckets /\ Capacity(b) \in Nat /\ Rate(b) \in Nat /\ taken[b] \in Nat
      BY <1>2, BucketTypes
    <2>2. CASE b \notin buckets
      <3>1. tokens'[b] = tokens[b] /\ age'[b] = age[b] /\ taken'[b] = taken[b] /\ b \in DOMAIN tokens
        BY <1>1, <1>5, <2>1, <2>2
      <3> QED
        BY <3>1 DEF NeverOverRate
    <2>3. CASE b \in buckets
      <3> DEFINE u == IF Has(b) THEN Unit ELSE 0
      <3>1. tokens'[b] = Refilled(b) - u /\ age'[b] = 0
        BY <1>1, <2>3
      <3>2. u \in Nat /\ taken'[b] * Unit = taken[b] * Unit + u /\ taken[b] * Unit \in Nat
        BY <1>3, <1>5, <2>1, <2>3, Products
      <3>3. Refilled(b) \in Nat
        BY <1>4, <2>1
      <3> HIDE DEF u
      <3>4. taken'[b] * Unit + tokens'[b] = taken[b] * Unit + Refilled(b)
        BY <3>1, <3>2, <3>3
      <3>5. taken[b] * Unit + Refilled(b) <= Capacity(b) + Rate(b) * now
        <4>1. CASE b \in DOMAIN tokens
          <5>1. taken[b] * Unit + tokens[b] <= Capacity(b) + Rate(b) * (now - age[b])
            BY <4>1 DEF NeverOverRate
          <5>2. Refilled(b) <= tokens[b] + age[b] * Rate(b)
            BY <2>1, <4>1, RefilledType
          <5>3. Rate(b) * (now - age[b]) + age[b] * Rate(b) = Rate(b) * now
            BY <1>2, <2>1, <4>1, Products
          <5>4. /\ age[b] * Rate(b) \in Int /\ Rate(b) * (now - age[b]) \in Int /\ Rate(b) * now \in Int
                /\ tokens[b] \in Int
            BY <1>2, <2>1, <4>1
          <5> QED
            BY <2>1, <3>2, <3>3, <5>1, <5>2, <5>3, <5>4
        <4>2. CASE b \notin DOMAIN tokens
          <5>1. taken[b] = 0 /\ Refilled(b) = Capacity(b)
            BY <2>1, <4>2 DEF FreshBuckets, Refilled
          <5>2. Rate(b) * now \in Nat /\ taken[b] * Unit = 0
            BY <1>2, <1>3, <2>1, <5>1
          <5> QED
            BY <2>1, <5>1, <5>2
        <4> QED
          BY <4>1, <4>2
      <3>6. Rate(b) * (now - age'[b]) = Rate(b) * now
        BY <1>2, <2>1, <3>1
      <3> QED
        BY <3>4, <3>5, <3>6
    <2> QED
      BY <2>2, <2>3
  <1>9. \A b \in Buckets : taken'[b] = taken[b] + (IF b \in buckets /\ Has(b) THEN 1 ELSE 0)
    <2> SUFFICES ASSUME NEW b \in Buckets
                 PROVE  taken'[b] = taken[b] + (IF gives(b) THEN 1 ELSE 0)
      OBVIOUS
    <2>1. taken[b] \in Nat /\ taken'[b] = IF gives(b) THEN taken[b] + 1 ELSE taken[b]
      BY <1>2, <1>5
    <2> HIDE DEF gives
    <2> QED
      BY <2>1
  <1>10. DOMAIN tokens' = DOMAIN tokens \cup buckets /\ DOMAIN age' = DOMAIN tokens'
    BY <1>1
  <1> QED
    BY <1>6, <1>7, <1>8, <1>9, <1>10

\* Delays stay below their bound.
LEMMA RaisedType ==
  ASSUME LimiterTypeOK, NEW h \in Hosts
  PROVE  /\ DOMAIN Raised(h) \subseteq Hosts /\ \A i \in DOMAIN Raised(h) : Raised(h)[i] \in 0 .. MaxBackoff
         /\ DOMAIN Eased(h) \subseteq Hosts /\ \A i \in DOMAIN Eased(h) : Eased(h)[i] \in 0 .. MaxBackoff
  <1>1. /\ DOMAIN backoff \subseteq Hosts /\ MaxBackoff \in Nat /\ FirstBackoff \in Nat
        /\ \A i \in DOMAIN backoff : backoff[i] \in 0 .. MaxBackoff
    BY LimiterAssumption DEF LimiterTypeOK
  <1>2. DOMAIN Raised(h) \subseteq Hosts /\ \A i \in DOMAIN Raised(h) : Raised(h)[i] \in 0 .. MaxBackoff
    <2> DEFINE current == IF h \in DOMAIN backoff THEN backoff[h] ELSE FirstBackoff
               more == Smaller(MaxBackoff, (current * 3) \div 2)
    <2>1. current \in Nat
      BY <1>1
    <2>2. (current * 3) \div 2 \in Nat
      BY <2>1
    <2>3. more \in 0 .. MaxBackoff
      BY <1>1, <2>2, SmallerType
    <2>4. Raised(h) = [i \in DOMAIN backoff \cup {h} |-> IF i = h THEN more ELSE backoff[i]]
      BY DEF Raised
    <2> HIDE DEF more
    <2> QED
      BY <1>1, <2>3, <2>4
  <1>3. DOMAIN Eased(h) \subseteq Hosts /\ \A i \in DOMAIN Eased(h) : Eased(h)[i] \in 0 .. MaxBackoff
    <2>1. CASE h \in DOMAIN backoff
      <3> DEFINE less == (backoff[h] * 4) \div 5
      <3>1. less \in 0 .. MaxBackoff
        <4>1. backoff[h] \in Nat /\ backoff[h] <= MaxBackoff
          BY <1>1, <2>1
        <4>2. less \in 0 .. backoff[h]
          BY <4>1, Divisions
        <4> QED
          BY <1>1, <4>1, <4>2
      <3>2. Eased(h) = [backoff EXCEPT ![h] = less]
        BY <2>1 DEF Eased
      <3> HIDE DEF less
      <3> QED
        BY <1>1, <3>1, <3>2
    <2>2. CASE h \notin DOMAIN backoff
      BY <1>1, <2>2 DEF Eased
    <2> QED
      BY <2>1, <2>2
  <1> QED
    BY <1>2, <1>3

LEMMA RequestsOfHosts ==
  ASSUME NEW h \in Hosts
  PROVE  /\ IsFiniteSet(Of(h)) /\ Of(h) \subseteq Requests
         /\ \A r \in Requests : HostOf[r] \in Hosts /\ (r \in Of(h) <=> HostOf[r] = h)
         /\ \A r \in Of(h) : r = <<h, r[2]>> /\ r[2] \in DOMAIN PortList
         /\ \A i \in DOMAIN PortList : <<h, i>> \in Of(h)
  <1>1. /\ \A r \in Requests : HostOf[r] \in Hosts /\ (r \in Of(h) <=> HostOf[r] = h)
        /\ \A r \in Requests : HostOf[r] = r[1] /\ r = <<r[1], r[2]>> /\ r[2] \in DOMAIN PortList
        /\ Of(h) \subseteq Requests
    BY LimiterAssumption, ScanAssumption DEF Of
  <1>2. \A i \in DOMAIN PortList : <<h, i>> \in Requests /\ HostOf[<<h, i>>] = h
    BY ScanAssumption
  <1>3. IsFiniteSet(Of(h))
    <2> DEFINE n == Len(PortList)
    <2>1. n \in Nat /\ DOMAIN PortList = 1 .. n
      BY ScanAssumption, LenProperties
    <2> DEFINE f == [r \in Of(h) |-> r[2]]
    <2>2. f \in Injection(Of(h), 1 .. n)
      <3>1. f \in [Of(h) -> 1 .. n]
        BY <1>1, <2>1
      <3>2. \A q, r \in Of(h) : f[q] = f[r] => q = r
        BY <1>1
      <3> QED
        BY <3>1, <3>2 DEF Injection, IsInjective
    <2>3. IsFiniteSet(1 .. n)
      BY <2>1, FS_Interval
    <2> QED
      BY <2>2, <2>3, FS_Injection
  <1> QED
    BY <1>1, <1>2, <1>3 DEF Of

\* When one request goes from a state to another, it is counted with those in its state.
Counted(n, m, before, after) ==
    /\ n \in Nat /\ m \in Nat
    /\ (before <=> after) => m = n
    /\ ~before /\ after => m = n + 1
    /\ before /\ ~after => m = n - 1

LEMMA CountRequests ==
  ASSUME NEW r \in Requests, NEW x, NEW at \in [Requests -> PcStates],
         NEW states, NEW h \in Hosts
  PROVE  Counted(Cardinality(In(at, states, h)), Cardinality(In([at EXCEPT ![r] = x], states, h)),
                 HostOf[r] = h /\ at[r] \in states, HostOf[r] = h /\ x \in states)
  <1> DEFINE next == [at EXCEPT ![r] = x]
  <1> DEFINE I == In(at, states, h)  J == In(next, states, h)
  <1>1. IsFiniteSet(Of(h)) /\ Of(h) \subseteq Requests /\ (r \in Of(h) <=> HostOf[r] = h)
    BY RequestsOfHosts
  <1>2. IsFiniteSet(I) /\ IsFiniteSet(J)
    BY <1>1, FS_Subset DEF In
  <1>3. Cardinality(I) \in Nat /\ Cardinality(J) \in Nat
    BY <1>2, FS_CardinalityType
  <1>4. \A q \in Of(h) : next[q] = IF q = r THEN x ELSE at[q]
    BY <1>1
  <1>5. (HostOf[r] = h /\ at[r] \in states <=> HostOf[r] = h /\ x \in states) => J = I
    BY <1>1, <1>4 DEF In
  <1>6. ASSUME HostOf[r] = h, at[r] \notin states, x \in states
        PROVE  Cardinality(J) = Cardinality(I) + 1
    <2>1. J = I \cup {r} /\ r \notin I
      BY <1>1, <1>4, <1>6 DEF In
    <2> QED
      BY <1>2, <2>1, FS_AddElement
  <1>7. ASSUME HostOf[r] = h, at[r] \in states, x \notin states
        PROVE  Cardinality(J) = Cardinality(I) - 1
    <2>1. J = I \ {r} /\ r \in I
      BY <1>1, <1>4, <1>7 DEF In
    <2> QED
      BY <1>2, <2>1, FS_RemoveElement
  <1> QED
    BY <1>3, <1>5, <1>6, <1>7, Zenon DEF Counted

LEMMA NoRequests ==
  ASSUME NEW at, NEW states, NEW h \in Hosts, \A r \in Requests : at[r] \notin states
  PROVE  Cardinality(In(at, states, h)) = 0
  <1>1. In(at, states, h) = {}
    BY DEF In, Of
  <1> QED
    BY <1>1, FS_EmptySet

\* What a request asks for before it goes on.
LEMMA AskedBuckets ==
  ASSUME NEW r \in Requests
  PROVE  /\ Asks(r) \subseteq Buckets /\ HostOf[r] \in Hosts /\ HostOf[r] # Global
         /\ Global \in Buckets /\ HostOf[r] \in Buckets
         /\ pc[r] = "host" => Asks(r) = {HostOf[r]}
         /\ pc[r] # "host" => Global \in Asks(r) /\ (HostOf[r] \in Asks(r) <=> Has(Global))
  BY LimiterAssumption DEF Asks, Buckets

\* A request for tokens: what it takes, and where it goes.
LEMMA Acquired ==
  ASSUME LimiterTypeOK, NEW r \in Requests, Acquire(r), pc[r] \in {"queued", "global", "host"}
  PROVE  /\ Consume(Asks(r)) /\ now' = now
         /\ \E x \in {"backoff", "connect", "global", "host", "closed"} :
               /\ pc' = [pc EXCEPT ![r] = x]
               /\ x \in {"backoff", "connect"} =>
                     HostOf[r] \in Asks(r) /\ Has(HostOf[r]) /\ (pc[r] # "host" => Has(Global))
               /\ x = "host" => /\ HostOf[r] \in Asks(r) /\ ~Has(HostOf[r])
                                /\ (pc[r] # "host" => Has(Global))
         /\ DOMAIN backoff' \subseteq Hosts
         /\ \A h \in DOMAIN backoff' : backoff'[h] \in 0 .. MaxBackoff
         /\ waited' \in [Requests -> 0 .. Timeout] /\ sleep' \in [Requests -> Nat]
  <1>1. /\ Asks(r) \subseteq Buckets /\ HostOf[r] \in Hosts /\ HostOf[r] # Global
        /\ pc[r] = "host" => Asks(r) = {HostOf[r]}
        /\ pc[r] # "host" => Global \in Asks(r) /\ (HostOf[r] \in Asks(r) <=> Has(Global))
    BY AskedBuckets
  <1>2. /\ Timeout \in Nat /\ Unit \in Nat \ {0} /\ MaxBackoff \in Nat /\ FirstBackoff \in Nat
    BY LimiterAssumption
  <1>3. /\ DOMAIN backoff \subseteq Hosts /\ \A h \in DOMAIN backoff : backoff[h] \in 0 .. MaxBackoff
        /\ waited \in [Requests -> 0 .. Timeout] /\ sleep \in [Requests -> Nat]
    BY DEF LimiterTypeOK
  <1>4. CASE Granted(r)
    <2> DEFINE h == HostOf[r]  delay == IF h \in DOMAIN backoff THEN backoff[h] ELSE 0
    <2>1. /\ Missing(r) = {} /\ Consume(Asks(r))
          /\ pc' = [pc EXCEPT ![r] = IF delay > 0 THEN "backoff" ELSE "connect"]
          /\ sleep' = [sleep EXCEPT ![r] = (delay + Unit - 1) \div Unit]
          /\ waited' = [waited EXCEPT ![r] = 0] /\ UNCHANGED <<now, backoff>>
      BY <1>4 DEF Granted
    <2>2. delay \in Nat
      BY <1>3
    <2>3. \A b \in Asks(r) : Has(b)
      BY <2>1 DEF Missing
    <2>4. (delay + Unit - 1) \div Unit \in Nat
      <3>1. delay + Unit - 1 \in Nat
        BY <1>2, <2>2
      <3> QED
        BY <1>2, <3>1, Divisions
    <2> HIDE DEF delay
    <2>5. sleep' \in [Requests -> Nat] /\ waited' \in [Requests -> 0 .. Timeout]
      BY <1>2, <1>3, <2>1, <2>4
    <2> QED
      BY <1>1, <1>3, <2>1, <2>3, <2>5
  <1>5. CASE Waits(r)
    <2>1. PICK b \in Missing(r) :
            /\ Consume(Asks(r)) /\ pc' = [pc EXCEPT ![r] = Phase(b)]
            /\ waited' = [waited EXCEPT ![r] = Waited(r, b)] /\ sleep' = [sleep EXCEPT ![r] = 1]
            /\ UNCHANGED <<now, backoff>>
      BY <1>5 DEF Waits
    <2>2. b \in Asks(r) /\ ~Has(b)
      BY DEF Missing
    <2>3. Waited(r, b) \in 0 .. Timeout
      BY <1>2, <1>3 DEF Waited
    <2>4. waited' \in [Requests -> 0 .. Timeout] /\ sleep' \in [Requests -> Nat]
      BY <1>3, <2>1, <2>3
    <2>5. b \in {Global, HostOf[r]}
      BY <2>2 DEF Asks
    <2>6. Phase(b) = IF b = Global THEN "global" ELSE "host"
      BY DEF Phase
    <2> QED
      BY <1>1, <1>3, <2>1, <2>2, <2>4, <2>5, <2>6
  <1>6. CASE Refused(r)
    <2>1. /\ Consume(Asks(r)) /\ pc' = [pc EXCEPT ![r] = "closed"] /\ backoff' = Raised(HostOf[r])
          /\ waited' = [waited EXCEPT ![r] = 0] /\ UNCHANGED <<now, sleep>>
      BY <1>6 DEF Refused
    <2>2. waited' \in [Requests -> 0 .. Timeout]
      BY <1>2, <1>3, <2>1
    <2>3. DOMAIN backoff' \subseteq Hosts /\ \A h \in DOMAIN backoff' : backoff'[h] \in 0 .. MaxBackoff
      BY <1>1, <2>1, RaisedType
    <2> QED
      BY <1>3, <2>1, <2>2, <2>3
  <1> QED
    BY <1>4, <1>5, <1>6 DEF Acquire

-----------------------------------------------------------------------------
(* Steps of requests *)

LEMMA ActiveHost ==
  ASSUME ScanInv, NEW r \in Requests, pc[r] \in Held
  PROVE  host[HostOf[r]] = "scan"
  <1>1. HostOf[r] \in Hosts /\ r \in Of(HostOf[r])
    BY RequestsOfHosts, LimiterAssumption
  <1>2. pc[r] \notin Ended \cup {"queued"}
    BY DEF Held, Ended
  <1> QED
    BY <1>1, <1>2 DEF ScanInv, ScanTypes, HostFollows

LEMMA PlacesStay ==
  ASSUME NEW h \in Hosts, \A r \in Of(h) : pc'[r] = pc[r]
  PROVE  OpenPorts(h)' = OpenPorts(h)
  BY RequestsOfHosts DEF OpenPorts

\* One request of a host that is being scanned goes on: what is known of ports and hosts.
LEMMA RequestKeeps ==
  ASSUME ScanInv, NEW r \in Requests, NEW x \in PcStates, pc' = [pc EXCEPT ![r] = x],
         host[HostOf[r]] = "scan", pc[r] \notin Ended,
         UNCHANGED <<host, result, dead>>,
         (x = "closed" /\ Loses(r)) \/ (x # "closed" /\ missed' = missed),
         x = "open" => Listens(r)
  PROVE  PortsKnown' /\ HostFollows' /\ missed' \subseteq Requests
  <1>1. pc \in [Requests -> PcStates] /\ missed \subseteq Requests
    BY DEF ScanInv, ScanTypes, LimiterTypeOK, PcStates
  <1>2. \A q \in Requests : pc'[q] = IF q = r THEN x ELSE pc[q]
    BY <1>1
  <1>3. missed' \subseteq Requests
    BY <1>1 DEF Loses
  <1>4. PortsKnown'
    <2>1. \A q \in Requests : Listens(q)' <=> Listens(q)
      BY DEF Listens, PortOf
    <2>2. missed' = missed \/ (x = "closed" /\ Listens(r) /\ missed' = missed \cup {r})
      BY DEF Loses, Listens
    <2>3. x = "closed" /\ Listens(r) => r \in missed'
      BY DEF Loses, Listens
    <2>4. r \notin missed
      BY DEF ScanInv, PortsKnown, Ended
    <2> SUFFICES ASSUME NEW q \in Requests
                 PROVE  /\ pc'[q] = "open" => Listens(q)
                        /\ pc'[q] = "closed" /\ Listens(q) => q \in missed'
                        /\ q \in missed' => pc'[q] = "closed"
      BY <2>1 DEF PortsKnown
    <2>5. CASE q = r
      BY <1>2, <2>2, <2>3, <2>4, <2>5
    <2>6. CASE q # r
      BY <1>2, <2>2, <2>6 DEF ScanInv, PortsKnown
    <2> QED
      BY <2>5, <2>6
  <1>5. HostFollows'
    <2>1. \A h \in Hosts : h # HostOf[r] =>
             (\A q \in Of(h) : pc'[q] = pc[q]) /\ OpenPorts(h)' = OpenPorts(h)
      BY <1>2, RequestsOfHosts, PlacesStay
    <2>2. \A places : At(places)' = At(places)
      BY DEF At
    <2>3. \A h \in Hosts : Of(h)' = Of(h)
      BY DEF Of
    <2> QED
      BY <2>1, <2>2, <2>3 DEF ScanInv, HostFollows
  <1> QED
    BY <1>3, <1>4, <1>5

LEMMA HoldsHeld ==
  ASSUME LimiterTypeOK, NEW h \in Hosts
  PROVE  {q \in Of(h) : Holds(q)} = In(pc, Held, h)
  <1>1. \A q \in Of(h) : Holds(q) <=> pc[q] \in Held
    BY DEF Of, Holds, Held, Ended, LimiterTypeOK, Sleeping
  <1> QED
    BY <1>1 DEF In

\* The tokens behind requests when tokens are taken, and when they are not.
TakesFor(r, x, g, k) ==
    /\ g \in {0, 1} /\ k \in {0, 1}
    /\ pc' = [pc EXCEPT ![r] = x] /\ pc[r] \notin Passed
    /\ taken' \in [Buckets -> Nat]
    /\ taken'[Global] = taken[Global] + g
    /\ \A h \in Hosts : taken'[h] = taken[h] + (IF h = HostOf[r] THEN k ELSE 0)
    /\ x \in Passed <=> (k = 1 /\ x # "host")
    /\ k = 1 => g = 1 \/ pc[r] = "host"
    /\ x = "host" => k = 0 /\ (pc[r] = "host" \/ g = 1)

LEMMA TokensTaken ==
  ASSUME ScanInv, NEW r \in Requests, NEW x, NEW g, NEW k, TakesFor(r, x, g, k)
  PROVE  GlobalFirst' /\ HostTokens'
  <1> USE DEF TakesFor
  <1>1. pc \in [Requests -> PcStates] /\ taken \in [Buckets -> Nat]
    BY DEF ScanInv, ScanTypes, LimiterTypeOK, PcStates
  <1>2. \A h \in Hosts : taken[h] \in Nat /\ taken[Global] \in Nat
    BY <1>1 DEF Buckets
  <1>3. HostTokens'
    <2> SUFFICES ASSUME NEW h \in Hosts PROVE Cardinality(In(pc', Passed, h)) <= taken'[h]
      BY DEF HostTokens
    <2> DEFINE n == Cardinality(In(pc, Passed, h))  m == Cardinality(In(pc', Passed, h))
    <2>1. Counted(n, m, HostOf[r] = h /\ pc[r] \in Passed, HostOf[r] = h /\ x \in Passed)
      BY <1>1, CountRequests
    <2>2. n <= taken[h]
      BY DEF ScanInv, HostTokens
    <2> HIDE DEF n, m
    <2>3. m <= taken'[h]
      BY <1>2, <2>1, <2>2 DEF Counted
    <2> QED
      BY <2>3 DEF m
  <1>4. GlobalFirst'
    <2> SUFFICES ASSUME NEW h \in Hosts
                 PROVE  taken'[h] + Cardinality(In(pc', AtHost, h)) <= taken'[Global]
      BY DEF GlobalFirst
    <2> DEFINE n == Cardinality(In(pc, AtHost, h))  m == Cardinality(In(pc', AtHost, h))
    <2>1. Counted(n, m, HostOf[r] = h /\ pc[r] \in AtHost, HostOf[r] = h /\ x \in AtHost)
      BY <1>1, CountRequests
    <2>2. taken[h] + n <= taken[Global]
      BY DEF ScanInv, GlobalFirst
    <2> HIDE DEF n, m
    <2>6. taken'[h] + m <= taken'[Global]
      <3>1. CASE HostOf[r] # h
        BY <1>2, <2>1, <2>2, <3>1 DEF Counted
      <3>2. CASE HostOf[r] = h /\ x = "host"
        BY <1>2, <2>1, <2>2, <3>2 DEF Counted, AtHost
      <3>3. CASE HostOf[r] = h /\ x # "host"
        BY <1>2, <2>1, <2>2, <3>3 DEF Counted, AtHost
      <3> QED
        BY <3>1, <3>2, <3>3
    <2> QED
      BY <2>6 DEF m
  <1> QED
    BY <1>3, <1>4

LEMMA PortsStayBounded ==
  ASSUME ScanInv, NEW r \in Requests, NEW x, pc' = [pc EXCEPT ![r] = x],
         \/ x \notin Held \/ pc[r] \in Held
         \/ Cardinality(In(pc, Held, HostOf[r])) < MaxPorts
  PROVE  PortsBounded'
  <1> SUFFICES ASSUME NEW h \in Hosts PROVE Cardinality(In(pc', Held, h)) <= MaxPorts
    BY DEF PortsBounded
  <1> DEFINE n == Cardinality(In(pc, Held, h))  m == Cardinality(In(pc', Held, h))
  <1>1. pc \in [Requests -> PcStates] /\ MaxPorts \in Nat
    BY ScanAssumption DEF ScanInv, ScanTypes, LimiterTypeOK, PcStates
  <1>2. Counted(n, m, HostOf[r] = h /\ pc[r] \in Held, HostOf[r] = h /\ x \in Held)
    BY <1>1, CountRequests
  <1>3. n <= MaxPorts
    BY DEF ScanInv, PortsBounded
  <1>4. HostOf[r] = h => \/ x \notin Held \/ pc[r] \in Held \/ n < MaxPorts
    OBVIOUS
  <1> HIDE DEF n, m
  <1>5. m <= MaxPorts
    BY <1>1, <1>2, <1>3, <1>4 DEF Counted
  <1> QED
    BY <1>5 DEF m

LEMMA AcquireKeeps ==
  ASSUME ScanInv, NEW r \in Requests, AcquireForPort(r)
  PROVE  ScanInv'
  <1>1. /\ MayAcquire(r) /\ Acquire(r)
        /\ UNCHANGED <<host, result, success, scanning, scans, dead>>
    BY DEF AcquireForPort, Acquire
  <1>2. /\ host[HostOf[r]] = "scan" /\ pc[r] \in {"queued", "global", "host"}
        /\ pc[r] = "queued" => Cardinality({q \in Of(HostOf[r]) : Holds(q)}) < MaxPorts
    BY <1>1 DEF MayAcquire
  <1>3. LimiterTypeOK
    BY DEF ScanInv, ScanTypes
  <1>4. /\ Consume(Asks(r)) /\ now' = now
        /\ DOMAIN backoff' \subseteq Hosts
        /\ \A h \in DOMAIN backoff' : backoff'[h] \in 0 .. MaxBackoff
        /\ waited' \in [Requests -> 0 .. Timeout] /\ sleep' \in [Requests -> Nat]
    BY <1>1, <1>2, <1>3, Acquired
  <1>5. PICK x \in {"backoff", "connect", "global", "host", "closed"} :
          /\ pc' = [pc EXCEPT ![r] = x]
          /\ x \in {"backoff", "connect"} =>
                HostOf[r] \in Asks(r) /\ Has(HostOf[r]) /\ (pc[r] # "host" => Has(Global))
          /\ x = "host" => /\ HostOf[r] \in Asks(r) /\ ~Has(HostOf[r])
                           /\ (pc[r] # "host" => Has(Global))
    BY <1>1, <1>2, <1>3, Acquired
  <1>6. x \in PcStates
    BY DEF PcStates, Sleeping
  <1>7. /\ Asks(r) \subseteq Buckets /\ HostOf[r] \in Hosts /\ HostOf[r] # Global
        /\ Global \in Buckets
        /\ pc[r] = "host" => Asks(r) = {HostOf[r]}
        /\ pc[r] # "host" => Global \in Asks(r) /\ (HostOf[r] \in Asks(r) <=> Has(Global))
        /\ \A h \in Hosts : h \in Buckets /\ (h \in Asks(r) => h = HostOf[r])
    BY AskedBuckets, LimiterAssumption DEF Asks, Buckets
  <1>8. /\ DOMAIN tokens' = DOMAIN tokens \cup Asks(r) /\ DOMAIN age' = DOMAIN tokens'
        /\ \A b \in DOMAIN tokens' : tokens'[b] \in 0 .. Capacity(b) /\ age'[b] \in 0 .. 2
        /\ taken' \in [Buckets -> Nat]
        /\ \A b \in Buckets : taken'[b] = taken[b] + (IF b \in Asks(r) /\ Has(b) THEN 1 ELSE 0)
        /\ FreshBuckets' /\ NeverOverRate'
    BY <1>3, <1>4, <1>7, ConsumeKeeps DEF ScanInv
  <1>9. pc' \in [Requests -> PcStates]
    BY <1>3, <1>5, <1>6 DEF LimiterTypeOK, PcStates
  <1>10. (x = "closed" /\ Loses(r)) \/ (x # "closed" /\ missed' = missed)
    <2>1. CASE Refused(r) /\ Loses(r)
      <3>1. pc' = [pc EXCEPT ![r] = "closed"]
        BY <2>1 DEF Refused
      <3>2. x = "closed"
        BY <1>3, <1>5, <3>1 DEF LimiterTypeOK
      <3> QED
        BY <2>1, <3>2
    <2>2. CASE (Granted(r) \/ Waits(r)) /\ UNCHANGED missed
      <3>1. \E y \in {"backoff", "connect", "global", "host"} : pc' = [pc EXCEPT ![r] = y]
        BY <2>2 DEF Granted, Waits, Phase
      <3>2. x # "closed"
        BY <1>3, <1>5, <3>1 DEF LimiterTypeOK
      <3> QED
        BY <2>2, <3>2
    <2> QED
      BY <2>1, <2>2 DEF AcquireForPort
  <1>11. PortsKnown' /\ HostFollows' /\ missed' \subseteq Requests
    BY <1>1, <1>2, <1>5, <1>6, <1>10, RequestKeeps DEF Ended
  <1>12. PortsBounded'
    <2>1. pc[r] = "queued" => Cardinality(In(pc, Held, HostOf[r])) < MaxPorts
      BY <1>2, <1>3, <1>7, HoldsHeld
    <2> QED
      BY <1>2, <1>5, <2>1, PortsStayBounded DEF Held
  <1>13. GlobalFirst' /\ HostTokens'
    <2> DEFINE g == IF Global \in Asks(r) /\ Has(Global) THEN 1 ELSE 0
               k == IF HostOf[r] \in Asks(r) /\ Has(HostOf[r]) THEN 1 ELSE 0
    <2>1. g \in {0, 1} /\ k \in {0, 1}
      OBVIOUS
    <2>2. taken'[Global] = taken[Global] + g
      BY <1>7, <1>8
    <2>3. \A h \in Hosts : taken'[h] = taken[h] + (IF h = HostOf[r] THEN k ELSE 0)
      <3> SUFFICES ASSUME NEW h \in Hosts
                   PROVE  taken'[h] = taken[h] + (IF h = HostOf[r] THEN k ELSE 0)
        OBVIOUS
      <3>1. taken'[h] = taken[h] + (IF h \in Asks(r) /\ Has(h) THEN 1 ELSE 0)
        BY <1>7, <1>8
      <3>2. CASE h = HostOf[r]
        BY <3>1, <3>2
      <3>3. CASE h # HostOf[r]
        BY <1>7, <3>1, <3>3
      <3> QED
        BY <3>2, <3>3
    <2>4. (k = 1 <=> HostOf[r] \in Asks(r) /\ Has(HostOf[r])) /\ (g = 1 <=> Global \in Asks(r) /\ Has(Global))
      OBVIOUS
    <2> HIDE DEF g, k
    <2>5. x \in Passed <=> (k = 1 /\ x # "host")
      <3>1. x \in Passed => k = 1 /\ x # "host"
        BY <1>5, <2>4 DEF Passed
      <3>2. ASSUME k = 1, x # "host" PROVE x \in Passed
        <4>1. HostOf[r] \in Asks(r) /\ Has(HostOf[r])
          BY <2>4, <3>2
        <4>2. \A b \in Asks(r) : Has(b)
          <5>1. \A b \in Asks(r) : b = HostOf[r] \/ b = Global
            BY DEF Asks
          <5>2. Global \in Asks(r) => Has(Global)
            BY <1>7, <4>1
          <5> QED
            BY <4>1, <5>1, <5>2
        <4>3. Missing(r) = {}
          BY <4>2 DEF Missing
        <4>4. Granted(r)
          BY <1>1, <4>3 DEF Acquire, Waits, Refused
        <4>5. \E y \in {"backoff", "connect"} : pc' = [pc EXCEPT ![r] = y]
          BY <4>4 DEF Granted
        <4>6. x \in {"backoff", "connect"}
          BY <1>3, <1>5, <4>5 DEF LimiterTypeOK
        <4> QED
          BY <4>6 DEF Passed
      <3> QED
        BY <3>1, <3>2
    <2>6. k = 1 => g = 1 \/ pc[r] = "host"
      BY <1>7, <2>4
    <2>7. x = "host" => k = 0 /\ (pc[r] = "host" \/ g = 1)
      BY <1>5, <1>7, <2>1, <2>4
    <2>8. pc[r] \notin Passed
      BY <1>2 DEF Passed
    <2> QED
      <3>1. TakesFor(r, x, g, k)
        BY <1>5, <1>8, <2>1, <2>2, <2>3, <2>5, <2>6, <2>7, <2>8, Zenon DEF TakesFor
      <3> QED
        BY <3>1, TokensTaken
  <1>14. ScanTypes'
    <2>1. LimiterTypeOK'
      <3>1. now' \in 0 .. MaxTime /\ DOMAIN tokens' \subseteq Buckets /\ Global \in DOMAIN tokens'
        BY <1>3, <1>4, <1>7, <1>8 DEF LimiterTypeOK
      <3>2. \A b \in DOMAIN tokens' : tokens'[b] \in 0 .. Capacity(b) /\ age'[b] \in 0 .. 2
        BY <1>8
      <3>3. pc' \in [Requests -> Sleeping \cup {"queued", "connect", "open", "closed"}]
        BY <1>9 DEF PcStates
      <3> QED
        BY <1>4, <1>8, <3>1, <3>2, <3>3 DEF LimiterTypeOK
    <2> QED
      BY <1>1, <1>11, <2>1 DEF ScanInv, ScanTypes
  <1> QED
    BY <1>8, <1>11, <1>12, <1>13, <1>14 DEF ScanInv

\* A request that has its tokens goes on, or ends.
LEMMA ConnectionKeeps ==
  ASSUME ScanInv, NEW r \in Requests, ResumePort(r) \/ Connected(r) \/ NotConnected(r)
  PROVE  ScanInv'
  <1>1. LimiterTypeOK
    BY DEF ScanInv, ScanTypes
  <1>2. UNCHANGED <<tokens, age, waited, sleep, taken, now, host, result, success, scanning, scans, dead>>
    BY DEF ResumePort, Resume, Connected, NotConnected, scanVars
  <1>3. pc[r] \in {"backoff", "connect"}
    BY DEF ResumePort, Resume, Connected, NotConnected
  <1>4. HostOf[r] \in Hosts
    BY LimiterAssumption
  <1>5. PICK x \in {"connect", "open", "closed"} :
          /\ pc' = [pc EXCEPT ![r] = x]
          /\ (x = "closed" /\ Loses(r)) \/ (x # "closed" /\ missed' = missed)
          /\ x = "open" => Listens(r)
          /\ x = "connect" => pc[r] = "backoff"
          /\ backoff' \in {backoff, Raised(HostOf[r]), Eased(HostOf[r])}
    BY DEF ResumePort, Resume, Connected, NotConnected, scanVars, Listens
  <1>6. x \in PcStates
    BY DEF PcStates
  <1>7. host[HostOf[r]] = "scan" /\ pc[r] \in Held /\ pc[r] \notin Ended
    BY <1>3, ActiveHost DEF Held, Ended
  <1>8. PortsKnown' /\ HostFollows' /\ missed' \subseteq Requests
    BY <1>2, <1>5, <1>6, <1>7, RequestKeeps
  <1>9. PortsBounded'
    BY <1>5, <1>7, PortsStayBounded
  <1>10. /\ DOMAIN backoff' \subseteq Hosts
         /\ \A h \in DOMAIN backoff' : backoff'[h] \in 0 .. MaxBackoff
    BY <1>1, <1>4, <1>5, RaisedType DEF LimiterTypeOK
  <1>11. pc \in [Requests -> PcStates] /\ pc' \in [Requests -> PcStates]
    BY <1>1, <1>5, <1>6 DEF LimiterTypeOK, PcStates
  <1>12. LimiterTypeOK'
    <2>1. pc' \in [Requests -> Sleeping \cup {"queued", "connect", "open", "closed"}]
      BY <1>11 DEF PcStates
    <2>2. \A b \in Buckets : Capacity(b)' = Capacity(b)
      BY DEF Capacity, Rate
    <2> QED
      BY <1>1, <1>2, <1>10, <2>1, <2>2 DEF LimiterTypeOK
  <1>13. GlobalFirst' /\ HostTokens'
    <2> SUFFICES ASSUME NEW h \in Hosts
                 PROVE  /\ taken'[h] + Cardinality(In(pc', AtHost, h)) <= taken'[Global]
                        /\ Cardinality(In(pc', Passed, h)) <= taken'[h]
      BY DEF GlobalFirst, HostTokens
    <2> DEFINE n == Cardinality(In(pc, Passed, h))  m == Cardinality(In(pc', Passed, h))
               w == Cardinality(In(pc, AtHost, h))  v == Cardinality(In(pc', AtHost, h))
    <2>1. Counted(n, m, HostOf[r] = h /\ pc[r] \in Passed, HostOf[r] = h /\ x \in Passed)
      BY <1>5, <1>11, CountRequests
    <2>2. Counted(w, v, HostOf[r] = h /\ pc[r] \in AtHost, HostOf[r] = h /\ x \in AtHost)
      BY <1>5, <1>11, CountRequests
    <2>3. taken[h] + w <= taken[Global] /\ n <= taken[h]
      BY DEF ScanInv, GlobalFirst, HostTokens
    <2>4. taken[h] \in Nat /\ taken' = taken
      BY <1>1, <1>2 DEF LimiterTypeOK, Buckets
    <2>5. pc[r] \in Passed /\ pc[r] \notin AtHost /\ x \notin AtHost
      BY <1>3 DEF Passed, AtHost
    <2> HIDE DEF n, m, w, v
    <2>6. m <= n /\ v = w /\ m \in Nat /\ n \in Nat
      BY <2>1, <2>2, <2>5 DEF Counted
    <2>7. taken'[h] + v <= taken'[Global] /\ m <= taken'[h]
      BY <2>3, <2>4, <2>6
    <2> QED
      BY <2>7 DEF m, v
  <1>14. FreshBuckets' /\ NeverOverRate'
    <2>1. \A b \in Buckets : Capacity(b)' = Capacity(b) /\ Rate(b)' = Rate(b)
      BY DEF Capacity, Rate
    <2> QED
      BY <1>2, <2>1 DEF ScanInv, FreshBuckets, NeverOverRate
  <1> QED
    BY <1>2, <1>8, <1>9, <1>12, <1>13, <1>14 DEF ScanInv, ScanTypes

\* How the hosts of a scan go on; requests and tokens are left alone.
HostSteps ==
    \/ \E h \in Hosts : StartHost(h) \/ PingAnswered(h) \/ PingFailed(h) \/ HostScanned(h)
    \/ ScanDone

LEMMA HostStepKeeps ==
  ASSUME ScanInv, HostSteps
  PROVE  ScanInv'
  <1>1. ScanTypes /\ PortsKnown /\ HostFollows
    BY DEF ScanInv
  <1>2. UNCHANGED <<tokens, age, backoff, pc, waited, sleep, taken, now, success, scans, missed>>
    BY DEF HostSteps, StartHost, PingAnswered, PingFailed, HostScanned, ScanDone, limiterVars
  <1>3. ScanTypes' /\ HostFollows'
    <2>1. LimiterTypeOK'
      BY <1>1, <1>2 DEF ScanTypes, LimiterTypeOK, Capacity, Rate
    <2>2. \A h \in Hosts : OpenPorts(h)' = OpenPorts(h)
      BY <1>2 DEF OpenPorts
    <2>3. ASSUME NEW h \in Hosts, StartHost(h) \/ PingAnswered(h)
          PROVE  ScanTypes' /\ HostFollows'
      <3>1. PICK to \in {"ping", "scan"} : host' = [host EXCEPT ![h] = to]
        BY <2>3 DEF StartHost, PingAnswered
      <3>2. host[h] \in {"queued", "ping"} /\ UNCHANGED <<result, scanning, dead>>
        BY <2>3 DEF StartHost, PingAnswered
      <3>3. ScanTypes'
        BY <1>1, <1>2, <2>1, <3>1, <3>2 DEF ScanTypes
      <3>4. HostFollows'
        <4> SUFFICES ASSUME NEW i \in Hosts
                     PROVE
              /\ host'[i] \in {"idle", "queued", "ping"} \/ (host'[i] = "done" /\ i \in dead) =>
                    /\ i \notin DOMAIN result
                    /\ \A r \in Of(i) : pc[r] = "queued"
              /\ host'[i] # "done" => i \notin dead /\ i \notin DOMAIN result
              /\ host'[i] = "done" /\ i \notin dead =>
                    /\ \A r \in Of(i) : pc[r] \in Ended
                    /\ i \in DOMAIN result <=> OpenPorts(i) # {}
                    /\ i \in DOMAIN result => /\ result[i].ports = At(OpenPorts(i))
                                              /\ result[i].services \subseteq At(OpenPorts(i))
          BY <1>2, <2>2, <3>2 DEF HostFollows
        <4>1. host \in [Hosts -> {"idle", "queued", "ping", "scan", "done"}]
          BY <1>1 DEF ScanTypes
        <4>2. CASE i # h
          BY <1>1, <3>1, <4>1, <4>2 DEF HostFollows
        <4>3. CASE i = h
          BY <1>1, <3>1, <3>2, <4>1, <4>3 DEF HostFollows
        <4> QED
          BY <4>2, <4>3
      <3> QED
        BY <3>3, <3>4
    <2>4. ASSUME NEW h \in Hosts, PingFailed(h)
          PROVE  ScanTypes' /\ HostFollows'
      <3>1. /\ host[h] = "ping" /\ host' = [host EXCEPT ![h] = "done"] /\ dead' = dead \cup {h}
            /\ UNCHANGED <<result, scanning>>
        BY <2>4 DEF PingFailed
      <3>2. ScanTypes'
        BY <1>1, <1>2, <2>1, <3>1 DEF ScanTypes
      <3>3. HostFollows'
        <4> SUFFICES ASSUME NEW i \in Hosts
                     PROVE
              /\ host'[i] \in {"idle", "queued", "ping"} \/ (host'[i] = "done" /\ i \in dead') =>
                    /\ i \notin DOMAIN result
                    /\ \A r \in Of(i) : pc[r] = "queued"
              /\ host'[i] # "done" => i \notin dead' /\ i \notin DOMAIN result
              /\ host'[i] = "done" /\ i \notin dead' =>
                    /\ \A r \in Of(i) : pc[r] \in Ended
                    /\ i \in DOMAIN result <=> OpenPorts(i) # {}
                    /\ i \in DOMAIN result => /\ result[i].ports = At(OpenPorts(i))
                                              /\ result[i].services \subseteq At(OpenPorts(i))
          BY <1>2, <2>2, <3>1 DEF HostFollows
        <4>1. host \in [Hosts -> {"idle", "queued", "ping", "scan", "done"}]
          BY <1>1 DEF ScanTypes
        <4>2. CASE i # h
          BY <1>1, <3>1, <4>1, <4>2 DEF HostFollows
        <4>3. CASE i = h
          BY <1>1, <3>1, <4>1, <4>3 DEF HostFollows
        <4> QED
          BY <4>2, <4>3
      <3> QED
        BY <3>2, <3>3
    <2>5. ASSUME NEW h \in Hosts, HostScanned(h)
          PROVE  ScanTypes' /\ HostFollows'
      <3> DEFINE ports == At(OpenPorts(h))
      <3>1. /\ host[h] = "scan" /\ host' = [host EXCEPT ![h] = "done"] /\ UNCHANGED <<scanning, dead>>
            /\ \A r \in Of(h) : pc[r] \in Ended
        BY <2>5 DEF HostScanned
      <3>2. PICK known \in SUBSET At(FirstFive(OpenPorts(h))) :
              result' = IF OpenPorts(h) = {} THEN result
                        ELSE [i \in DOMAIN result \cup {h} |->
                                 IF i = h THEN [ports |-> ports, services |-> known] ELSE result[i]]
        BY <2>5 DEF HostScanned
      <3>3. known \subseteq ports
        BY <3>2 DEF At, FirstFive
      <3>4. DOMAIN result' \subseteq Hosts
        BY <1>1, <3>2 DEF ScanTypes
      <3>5. ScanTypes'
        BY <1>1, <1>2, <2>1, <3>1, <3>4 DEF ScanTypes
      <3>6. HostFollows'
        <4> SUFFICES ASSUME NEW i \in Hosts
                     PROVE
              /\ host'[i] \in {"idle", "queued", "ping"} \/ (host'[i] = "done" /\ i \in dead) =>
                    /\ i \notin DOMAIN result'
                    /\ \A r \in Of(i) : pc[r] = "queued"
              /\ host'[i] # "done" => i \notin dead /\ i \notin DOMAIN result'
              /\ host'[i] = "done" /\ i \notin dead =>
                    /\ \A r \in Of(i) : pc[r] \in Ended
                    /\ i \in DOMAIN result' <=> OpenPorts(i) # {}
                    /\ i \in DOMAIN result' => /\ result'[i].ports = At(OpenPorts(i))
                                               /\ result'[i].services \subseteq At(OpenPorts(i))
          BY <1>2, <2>2, <3>1 DEF HostFollows
        <4>1. host \in [Hosts -> {"idle", "queued", "ping", "scan", "done"}]
          BY <1>1 DEF ScanTypes
        <4>2. CASE i # h
          <5>1. host'[i] = host[i] /\ (i \in DOMAIN result' <=> i \in DOMAIN result)
                /\ (i \in DOMAIN result => result'[i] = result[i])
            BY <3>1, <3>2, <4>1, <4>2
          <5> QED
            BY <1>1, <5>1 DEF HostFollows
        <4>3. CASE i = h
          <5>1. host'[i] = "done" /\ i \notin dead /\ i \notin DOMAIN result
            BY <1>1, <3>1, <4>1, <4>3 DEF HostFollows
          <5>2. i \in DOMAIN result' <=> OpenPorts(i) # {}
            BY <3>2, <4>3, <5>1
          <5>3. i \in DOMAIN result' => result'[i] = [ports |-> ports, services |-> known]
            BY <3>2, <4>3, <5>1
          <5> QED
            BY <3>1, <3>3, <4>3, <5>1, <5>2, <5>3
        <4> QED
          BY <4>2, <4>3
      <3> QED
        BY <3>5, <3>6
    <2>6. ASSUME ScanDone
          PROVE  ScanTypes' /\ HostFollows'
      <3>1. scanning' = FALSE /\ UNCHANGED <<host, result, dead>>
        BY <2>6 DEF ScanDone
      <3>2. ScanTypes'
        BY <1>1, <1>2, <2>1, <3>1 DEF ScanTypes
      <3>3. HostFollows'
        BY <1>1, <1>2, <2>2, <3>1 DEF HostFollows
      <3> QED
        BY <3>2, <3>3
    <2> QED
      BY <2>3, <2>4, <2>5, <2>6 DEF HostSteps
  <1>4. PortsKnown'
    BY <1>1, <1>2 DEF PortsKnown, Listens
  <1>5. FreshBuckets' /\ NeverOverRate' /\ GlobalFirst' /\ HostTokens' /\ PortsBounded'
    BY <1>2 DEF ScanInv, FreshBuckets, NeverOverRate, Capacity, Rate, GlobalFirst, HostTokens,
                PortsBounded, In
  <1> QED
    BY <1>3, <1>4, <1>5 DEF ScanInv

\* A call of discover begins with requests that have not been made and hosts that have not
\* been touched; its tokens are those that the calls before it have left.
LEMMA DiscoverKeeps ==
  ASSUME ScanInv, Unavailable \/ \E nets \in SUBSET Networks \ {{}} : Discover(nets)
  PROVE  ScanInv'
  <1>1. /\ pc' = [r \in Requests |-> "queued"]
        /\ result' = [h \in {} |-> 0] /\ missed' = {} /\ dead' = {}
        /\ UNCHANGED <<tokens, age, backoff, waited, sleep, taken, now>>
        /\ scans < MaxScans /\ scans' = scans + 1
    BY DEF Unavailable, Discover
  <1>2. host' \in [Hosts -> {"idle", "queued"}]
    BY DEF Unavailable, Discover
  <1>3. ScanTypes
    BY DEF ScanInv
  <1>4. ScanTypes'
    <2>1. LimiterTypeOK'
      BY <1>1, <1>3 DEF ScanTypes, LimiterTypeOK, Capacity, Rate
    <2>2. scans' \in 0 .. MaxScans
      BY <1>1, <1>3, ScanAssumption DEF ScanTypes
    <2>3. host' \in [Hosts -> {"idle", "queued", "ping", "scan", "done"}]
      BY <1>2
    <2>4. success' \in BOOLEAN /\ scanning' \in BOOLEAN
      BY <1>3, Zenon DEF ScanTypes, Unavailable, Discover
    <2> QED
      BY <1>1, <2>1, <2>2, <2>3, <2>4 DEF ScanTypes
  <1>5. FreshBuckets' /\ NeverOverRate'
    BY <1>1 DEF ScanInv, FreshBuckets, NeverOverRate, Capacity, Rate
  <1>6. \A h \in Hosts : /\ Cardinality(In(pc', AtHost, h)) = 0 /\ Cardinality(In(pc', Passed, h)) = 0
                         /\ Cardinality(In(pc', Held, h)) = 0
    BY <1>1, NoRequests DEF AtHost, Passed, Held
  <1>7. GlobalFirst' /\ HostTokens' /\ PortsBounded'
    <2>1. \A h \in Hosts : taken[h] \in Nat /\ taken[Global] \in Nat /\ taken[h] <= taken[Global]
      <3> SUFFICES ASSUME NEW h \in Hosts
                   PROVE  taken[h] \in Nat /\ taken[Global] \in Nat /\ taken[h] <= taken[Global]
        OBVIOUS
      <3>1. taken[h] \in Nat /\ taken[Global] \in Nat
        BY <1>3 DEF ScanTypes, LimiterTypeOK, Buckets
      <3>2. taken[h] + Cardinality(In(pc, AtHost, h)) <= taken[Global]
        BY DEF ScanInv, GlobalFirst
      <3>3. Cardinality(In(pc, AtHost, h)) \in Nat
        BY RequestsOfHosts, FS_Subset, FS_CardinalityType DEF In
      <3> QED
        BY <3>1, <3>2, <3>3
    <2>2. MaxPorts \in Nat
      BY ScanAssumption
    <2> QED
      BY <1>1, <1>6, <2>1, <2>2 DEF GlobalFirst, HostTokens, PortsBounded
  <1>8. PortsKnown'
    BY <1>1 DEF PortsKnown
  <1>9. HostFollows'
    <2>1. \A h \in Hosts : /\ host'[h] \in {"idle", "queued"} /\ h \notin DOMAIN result' /\ h \notin dead'
                           /\ \A r \in Of(h) : pc'[r] = "queued"
      BY <1>1, <1>2, RequestsOfHosts
    <2> QED
      BY <2>1 DEF HostFollows
  <1> QED
    BY <1>4, <1>5, <1>7, <1>8, <1>9 DEF ScanInv

\* Time adds to a bucket what its rate says: the clock and the age of a bucket go on together.
LEMMA TickKeeps ==
  ASSUME ScanInv, Tick, UNCHANGED scanVars
  PROVE  ScanInv'
  <1>1. ScanTypes /\ LimiterTypeOK
    BY DEF ScanInv, ScanTypes
  <1>2. /\ UNCHANGED <<tokens, backoff, pc, taken>>
        /\ UNCHANGED <<host, result, success, scanning, scans, missed, dead>>
        /\ now' = Smaller(MaxTime, now + 1)
        /\ age' = [b \in DOMAIN age |-> Smaller(2, age[b] + 1)]
        /\ sleep' = [r \in Requests |-> IF sleep[r] > 0 THEN sleep[r] - 1 ELSE 0]
        /\ waited' = [r \in Requests |-> IF pc[r] \in {"global", "host"}
                                         THEN Smaller(Timeout, waited[r] + 1) ELSE 0]
    BY DEF Tick, scanVars
  <1>3. MaxTime \in Nat /\ Timeout \in Nat /\ now \in 0 .. MaxTime
    BY <1>1, LimiterAssumption DEF LimiterTypeOK
  <1>4. now' \in 0 .. MaxTime /\ (now' < MaxTime => now' = now + 1 /\ now < MaxTime)
    BY <1>2, <1>3 DEF Smaller
  <1>5. /\ DOMAIN age' = DOMAIN age
        /\ \A b \in DOMAIN age : age'[b] \in 0 .. 2 /\ age'[b] <= age[b] + 1
    BY <1>1, <1>2 DEF LimiterTypeOK, Smaller
  <1>6. waited' \in [Requests -> 0 .. Timeout] /\ sleep' \in [Requests -> Nat]
    <2>1. waited \in [Requests -> 0 .. Timeout] /\ sleep \in [Requests -> Nat]
      BY <1>1 DEF LimiterTypeOK
    <2>2. \A r \in Requests : Smaller(Timeout, waited[r] + 1) \in 0 .. Timeout
      BY <1>3, <2>1 DEF Smaller
    <2> QED
      BY <1>2, <1>3, <2>1, <2>2
  <1>7. ScanTypes'
    <2>1. \A b \in DOMAIN tokens' : tokens'[b] \in 0 .. Capacity(b)' /\ age'[b] \in 0 .. 2
      BY <1>1, <1>2, <1>5 DEF LimiterTypeOK, Capacity, Rate
    <2>2. LimiterTypeOK'
      BY <1>1, <1>2, <1>4, <1>5, <1>6, <2>1 DEF LimiterTypeOK
    <2> QED
      BY <1>1, <1>2, <2>2 DEF ScanTypes
  <1>8. NeverOverRate'
    <2> SUFFICES ASSUME now' < MaxTime, NEW b \in DOMAIN tokens
                 PROVE  taken[b] * Unit + tokens[b] <= Capacity(b) + Rate(b) * (now' - age'[b])
      BY <1>2 DEF NeverOverRate, Capacity, Rate
    <2>1. b \in Buckets /\ tokens[b] \in Int /\ age[b] \in Int /\ age'[b] \in Int /\ taken[b] \in Nat
      BY <1>1, <1>5 DEF LimiterTypeOK
    <2>2. Capacity(b) \in Nat /\ Rate(b) \in Nat /\ Unit \in Nat
      BY <2>1, BucketTypes, LimiterAssumption
    <2>3. taken[b] * Unit + tokens[b] <= Capacity(b) + Rate(b) * (now - age[b])
      BY <1>4 DEF ScanInv, NeverOverRate
    <2>4. now - age[b] <= now' - age'[b] /\ now - age[b] \in Int /\ now' - age'[b] \in Int
      BY <1>1, <1>3, <1>4, <1>5, <2>1 DEF LimiterTypeOK
    <2>5. Rate(b) * (now - age[b]) <= Rate(b) * (now' - age'[b])
      BY <2>2, <2>4, Products
    <2>6. /\ Rate(b) * (now - age[b]) \in Int /\ Rate(b) * (now' - age'[b]) \in Int
          /\ taken[b] * Unit \in Int
      BY <2>1, <2>2, <2>4
    <2> QED
      BY <2>1, <2>2, <2>3, <2>5, <2>6
  <1>9. FreshBuckets' /\ GlobalFirst' /\ HostTokens' /\ PortsBounded'
    BY <1>2 DEF ScanInv, FreshBuckets, GlobalFirst, HostTokens, PortsBounded, In
  <1>10. PortsKnown' /\ HostFollows'
    BY <1>2 DEF ScanInv, PortsKnown, Listens, HostFollows, OpenPorts
  <1> QED
    BY <1>7, <1>8, <1>9, <1>10 DEF ScanInv

LEMMA ScanInitially == ScanInit => ScanInv
  <1> SUFFICES ASSUME ScanInit PROVE ScanInv
    OBVIOUS
  <1> USE DEF ScanInit, LimiterInit
  <1>1. /\ Global \in Buckets /\ Capacity(Global) \in Nat /\ Unit \in Nat /\ Rate(Global) \in Nat
        /\ MaxTime \in Nat /\ MaxScans \in Nat /\ MaxPorts \in Nat /\ Timeout \in Nat
    BY BucketTypes, LimiterAssumption, ScanAssumption DEF Buckets
  <1>2. LimiterTypeOK
    BY <1>1 DEF LimiterTypeOK
  <1>3. ScanTypes
    <2>1. host \in [Hosts -> {"idle", "queued", "ping", "scan", "done"}] /\ scans \in 0 .. MaxScans
      BY <1>1
    <2>2. DOMAIN result \subseteq Hosts /\ dead \subseteq Hosts /\ missed \subseteq Requests
      OBVIOUS
    <2>3. success \in BOOLEAN /\ scanning \in BOOLEAN
      BY Zenon
    <2> QED
      BY <1>2, <2>1, <2>2, <2>3, Zenon DEF ScanTypes
  <1>4. FreshBuckets
    BY DEF FreshBuckets
  <1>5. NeverOverRate
    <2>1. taken[Global] * Unit = 0 /\ Rate(Global) * (now - age[Global]) = 0
      BY <1>1
    <2>2. tokens[Global] = Capacity(Global) /\ DOMAIN tokens = {Global}
      OBVIOUS
    <2> QED
      BY <1>1, <2>1, <2>2 DEF NeverOverRate
  <1>6. \A h \in Hosts : /\ Cardinality(In(pc, AtHost, h)) = 0 /\ Cardinality(In(pc, Passed, h)) = 0
                         /\ Cardinality(In(pc, Held, h)) = 0 /\ taken[h] = 0 /\ taken[Global] = 0
    BY <1>1, NoRequests DEF AtHost, Passed, Held, Buckets
  <1>7. GlobalFirst /\ HostTokens /\ PortsBounded
    BY <1>1, <1>6 DEF GlobalFirst, HostTokens, PortsBounded
  <1>8. PortsKnown /\ HostFollows
    BY RequestsOfHosts DEF PortsKnown, HostFollows
  <1> QED
    BY <1>3, <1>4, <1>5, <1>7, <1>8 DEF ScanInv

\* What a scan promises follows from how far its requests and hosts are.
LEMMA ScanShows == ScanInv => NetInv
  <1> SUFFICES ASSUME ScanInv PROVE NetInv
    OBVIOUS
  <1> USE DEF ScanInv
  <1>1. LimiterTypeOK
    BY DEF ScanTypes
  <1>2. ScanTypeOK
    <2>1. \A h \in Hosts : Cardinality({r \in Of(h) : Holds(r)}) <= MaxPorts
      BY <1>1, HoldsHeld DEF PortsBounded
    <2>2. {success, scanning} \subseteq BOOLEAN
      BY Zenon DEF ScanTypes
    <2> QED
      BY <2>1, <2>2 DEF ScanTypes, ScanTypeOK
  <1>3. TokensBehindRequests
    <2>1. ASSUME NEW h \in Hosts
          PROVE  /\ Cardinality({r \in Requests : HostOf[r] = h
                                    /\ pc[r] \in {"backoff", "connect", "open"}}) <= taken[h]
                 /\ taken[h] <= taken[Global]
      <3>1. {r \in Requests : HostOf[r] = h /\ pc[r] \in {"backoff", "connect", "open"}}
               = In(pc, Passed, h)
        BY DEF In, Of, Passed
      <3>2. Cardinality(In(pc, AtHost, h)) \in Nat
        BY RequestsOfHosts, FS_Subset, FS_CardinalityType DEF In
      <3>3. taken[h] + Cardinality(In(pc, AtHost, h)) <= taken[Global]
        BY DEF GlobalFirst
      <3>4. taken[h] \in Nat /\ taken[Global] \in Nat
        BY <1>1 DEF LimiterTypeOK, Buckets
      <3>5. Cardinality(In(pc, Passed, h)) <= taken[h]
        BY DEF HostTokens
      <3> QED
        BY <3>1, <3>2, <3>3, <3>4, <3>5
    <2> QED
      BY <2>1 DEF TokensBehindRequests
  <1>4. FoundUnlessMissed
    <2> SUFFICES ASSUME NEW h \in Hosts, host[h] = "done"
                 PROVE  LET ports == {PortOf(r) : r \in {q \in Of(h) : <<h, PortOf(q)>> \in Listening
                                                                    /\ q \notin missed}}
                        IN /\ h \in DOMAIN result <=> h \notin dead /\ ports # {}
                           /\ h \in DOMAIN result => /\ result[h].ports = ports
                                                     /\ result[h].services \subseteq ports
      BY DEF FoundUnlessMissed
    <2> DEFINE finding == {q \in Of(h) : <<h, PortOf(q)>> \in Listening /\ q \notin missed}
               ports == {PortOf(r) : r \in finding}
    <2>1. CASE h \in dead
      BY <2>1 DEF HostFollows
    <2>2. CASE h \notin dead
      <3>1. /\ \A r \in Of(h) : pc[r] \in Ended
            /\ h \in DOMAIN result <=> OpenPorts(h) # {}
            /\ h \in DOMAIN result => /\ result[h].ports = At(OpenPorts(h))
                                      /\ result[h].services \subseteq At(OpenPorts(h))
        BY <2>2 DEF HostFollows
      <3>2. \A r \in Of(h) : r \in finding <=> pc[r] = "open"
        BY <3>1, RequestsOfHosts DEF PortsKnown, Listens, Ended
      <3>3. \A i \in DOMAIN PortList : i \in OpenPorts(h) <=> <<h, i>> \in finding
        BY <3>2, RequestsOfHosts DEF OpenPorts
      <3>4. \A r \in finding : r[2] \in OpenPorts(h) /\ PortOf(r) = PortList[r[2]]
        BY <3>3, RequestsOfHosts DEF PortOf
      <3>5. \A i \in OpenPorts(h) : <<h, i>> \in finding /\ PortOf(<<h, i>>) = PortList[i]
        BY <3>3 DEF OpenPorts, PortOf
      <3> HIDE DEF finding
      <3>6. At(OpenPorts(h)) = {PortList[i] : i \in OpenPorts(h)}
        BY DEF At
      <3>7. ports \subseteq At(OpenPorts(h)) /\ At(OpenPorts(h)) \subseteq ports
        <4>1. ASSUME NEW r \in finding PROVE PortOf(r) \in At(OpenPorts(h))
          BY <3>4, <3>6
        <4>2. ASSUME NEW i \in OpenPorts(h) PROVE PortList[i] \in ports
          BY <3>5
        <4> QED
          BY <3>6, <4>1, <4>2
      <3>8. ports # {} <=> OpenPorts(h) # {}
        BY <3>6, <3>7, Zenon
      <3> HIDE DEF ports
      <3> QED
        BY <2>2, <3>1, <3>7, <3>8, Zenon DEF ports, finding
    <2> QED
      BY <2>1, <2>2
  <1> QED
    BY <1>2, <1>3, <1>4 DEF NetInv

\* However requests, hosts and calls of discover interleave with time: tokens are neither made
\* nor bypassed, semaphores bound what is under way, and a scan finds what listens
\* (AdaptiveRateLimiter.acquire, NetworkScanProtocol._scan_single_host, PortScanner.scan_port).
THEOREM ScanIsRight == ScanSpec => []NetInv
  <1>1. ScanInit => ScanInv
    BY ScanInitially
  <1>2. ScanInv /\ [ScanNext]_netVars => ScanInv'
    <2> SUFFICES ASSUME ScanInv, [ScanNext]_netVars PROVE ScanInv'
      OBVIOUS
    <2>1. CASE \E nets \in SUBSET Networks \ {{}} : Discover(nets)
      BY <2>1, DiscoverKeeps
    <2>2. CASE Unavailable
      BY <2>2, DiscoverKeeps
    <2>3. CASE ScanStep
      <3>1. CASE HostSteps
        BY <3>1, HostStepKeeps
      <3>2. ASSUME NEW r \in Requests, AcquireForPort(r) PROVE ScanInv'
        BY <3>2, AcquireKeeps
      <3>3. ASSUME NEW r \in Requests, ResumePort(r) \/ Connected(r) \/ NotConnected(r)
            PROVE  ScanInv'
        BY <3>3, ConnectionKeeps
      <3> QED
        BY <2>3, <3>1, <3>2, <3>3 DEF ScanStep, HostSteps
    <2>4. CASE Tick /\ UNCHANGED scanVars
      BY <2>4, TickKeeps
    <2>5. CASE UNCHANGED netVars
      BY <2>5 DEF netVars, limiterVars, scanVars, ScanInv, ScanTypes, LimiterTypeOK, Capacity, Rate,
                  FreshBuckets, NeverOverRate, GlobalFirst, HostTokens, PortsBounded, In, PortsKnown,
                  Listens, HostFollows, OpenPorts
    <2> QED
      BY <2>1, <2>2, <2>3, <2>4, <2>5 DEF ScanNext
  <1>3. ScanInv => NetInv
    BY ScanShows
  <1> QED
    BY <1>1, <1>2, <1>3, PTL DEF ScanSpec

-----------------------------------------------------------------------------
(* The event bus *)

Tasks == [event : Nat, type : Types, to : Subscriptions]

SubscriptionsOK ==
    /\ made \subseteq Subscriptions /\ subscriptions \in Seq(made)
    /\ \A i, j \in 1 .. Len(subscriptions) : IdOf[subscriptions[i]] = IdOf[subscriptions[j]] => i = j

HistoryOK ==
    /\ published \in 0 .. MaxEvents /\ eventHistory \in Seq(Nat)
    /\ Len(eventHistory) <= MaxHistory /\ Len(eventHistory) <= published
    /\ \A i \in 1 .. Len(eventHistory) : eventHistory[i] = published - Len(eventHistory) + i

\* Tasks belong to a publication that goes on, or to one that was cancelled before they started.
TasksOK ==
    /\ ready \in Seq(Tasks) /\ running \subseteq Tasks
    /\ DOMAIN publishing \subseteq 1 .. published /\ broken \subseteq 1 .. published
    /\ \A i \in 1 .. Len(ready) : ready[i].event \in DOMAIN publishing \cup broken
    /\ \A task \in running : task.event \in DOMAIN publishing

\* The loop has the tasks of earlier events first, and one of a subscription and an event.
ReadyInOrder ==
    \A i, j \in 1 .. Len(ready) :
        i < j => \/ ready[i].event < ready[j].event
                 \/ ready[i].event = ready[j].event /\ ready[i].to # ready[j].to

\* What a callback was called with comes before what it will be called with.
CalledInOrder ==
    \A s \in Subscriptions :
        /\ \A i, j \in 1 .. Len(got[s]) : i < j => got[s][i] < got[s][j]
        /\ \A i \in 1 .. Len(got[s]), j \in 1 .. Len(ready) :
              ready[j].to = s => got[s][i] < ready[j].event

GotOK ==
    /\ got \in [Subscriptions -> Seq(Nat)]
    /\ \A s \in Subscriptions : \A i \in 1 .. Len(got[s]) :
          got[s][i] \in 1 .. published /\ <<got[s][i], s>> \in due

Called(n, s) == \E i \in 1 .. Len(got[s]) : got[s][i] = n
Awaited(n, s) == \E i \in 1 .. Len(ready) : ready[i].event = n /\ ready[i].to = s
                                            /\ ready[i].type \in Wants[s]

\* A delivery that is due was made or is to come, unless its publication was cancelled.
DueOK ==
    /\ due \subseteq Nat \X Subscriptions
    /\ \A i \in 1 .. Len(ready) :
          ready[i].type \in Wants[ready[i].to] => <<ready[i].event, ready[i].to>> \in due
    /\ \A d \in due : d[1] \in broken \/ Called(d[1], d[2]) \/ Awaited(d[1], d[2])

\* The counters, and how many units they have in all.
UnitsOK ==
    /\ eventCount \in [Subscriptions -> Nat] /\ delivered \in Nat
    /\ publishing \in [DOMAIN publishing -> Nat]
    /\ IsFiniteSet(Units(eventCount)) /\ IsFiniteSet(Units(publishing))
    /\ CountsAgree

BusIndInv ==
    /\ SubscriptionsOK /\ HistoryOK /\ TasksOK /\ ReadyInOrder
    /\ CalledInOrder /\ GotOK /\ DueOK /\ UnitsOK

LEMMA RemovedAt ==
  ASSUME NEW S, NEW s \in Seq(S), NEW i \in 1 .. Len(s)
  PROVE  /\ RemoveAt(s, i) \in Seq(S)
         /\ Len(RemoveAt(s, i)) = Len(s) - 1
         /\ \A j \in 1 .. Len(s) - 1 : RemoveAt(s, i)[j] = IF j < i THEN s[j] ELSE s[j + 1]
  <1>1. Len(s) \in Nat /\ i \in Nat /\ \A j \in 1 .. Len(s) : s[j] \in S
    BY LenProperties, ElementOfSeq
  <1> DEFINE a == SubSeq(s, 1, i - 1)  b == SubSeq(s, i + 1, Len(s))
  <1>2. a \in Seq(S) /\ Len(a) = i - 1 /\ \A j \in 1 .. i - 1 : a[j] = s[j]
    <2>1. \A j \in 1 .. i - 1 : s[j] \in S
      BY <1>1
    <2>2. /\ a \in Seq(S) /\ Len(a) = IF 1 <= i - 1 THEN (i - 1) - 1 + 1 ELSE 0
          /\ \A j \in 1 .. (i - 1) - 1 + 1 : a[j] = s[1 + j - 1]
      BY <1>1, <2>1, SubSeqProperties
    <2> HIDE DEF a
    <2> QED
      BY <1>1, <2>2
  <1>3. b \in Seq(S) /\ Len(b) = Len(s) - i /\ \A j \in 1 .. Len(s) - i : b[j] = s[i + j]
    <2>1. \A j \in i + 1 .. Len(s) : s[j] \in S
      BY <1>1
    <2>2. /\ b \in Seq(S) /\ Len(b) = IF i + 1 <= Len(s) THEN Len(s) - (i + 1) + 1 ELSE 0
          /\ \A j \in 1 .. Len(s) - (i + 1) + 1 : b[j] = s[(i + 1) + j - 1]
      BY <1>1, <2>1, SubSeqProperties
    <2> HIDE DEF b
    <2> QED
      BY <1>1, <2>2
  <1>4. RemoveAt(s, i) = a \o b
    BY DEF RemoveAt
  <1> HIDE DEF a, b
  <1>5. /\ a \o b \in Seq(S) /\ Len(a \o b) = Len(a) + Len(b)
        /\ \A j \in 1 .. Len(a) + Len(b) : (a \o b)[j] = IF j <= Len(a) THEN a[j] ELSE b[j - Len(a)]
    BY <1>2, <1>3, ConcatProperties
  <1>6. \A j \in 1 .. Len(s) - 1 : (a \o b)[j] = IF j < i THEN s[j] ELSE s[j + 1]
    <2> SUFFICES ASSUME NEW j \in 1 .. Len(s) - 1
                 PROVE  (a \o b)[j] = IF j < i THEN s[j] ELSE s[j + 1]
      OBVIOUS
    <2>1. j \in 1 .. Len(a) + Len(b)
      BY <1>1, <1>2, <1>3
    <2>2. CASE j < i
      BY <1>1, <1>2, <1>5, <2>1, <2>2
    <2>3. CASE ~(j < i)
      <3>1. (a \o b)[j] = b[j - Len(a)] /\ j - Len(a) = j - (i - 1)
        BY <1>1, <1>2, <1>5, <2>1, <2>3
      <3>2. j - (i - 1) \in 1 .. Len(s) - i /\ i + (j - (i - 1)) = j + 1
        BY <1>1, <2>3
      <3> QED
        BY <1>3, <2>3, <3>1, <3>2
    <2> QED
      BY <2>2, <2>3
  <1> QED
    BY <1>1, <1>2, <1>3, <1>4, <1>5, <1>6

\* The elements of a list are those of its positions.
LEMMA Elements ==
  ASSUME NEW S, NEW s \in Seq(S)
  PROVE  /\ ToSet(s) \subseteq S
         /\ \A x : x \in ToSet(s) <=> \E i \in 1 .. Len(s) : s[i] = x
         /\ Len(s) \in Nat /\ DOMAIN s = 1 .. Len(s) /\ \A i \in 1 .. Len(s) : s[i] \in S
  <1>1. Len(s) \in Nat /\ DOMAIN s = 1 .. Len(s) /\ s \in [1 .. Len(s) -> S]
    BY LenProperties
  <1>2. \A x : x \in ToSet(s) <=> \E i \in 1 .. Len(s) : s[i] = x
    BY <1>1 DEF ToSet
  <1> QED
    BY <1>1, <1>2

\* Subscribers come and go; ids stay unique.
LEMMA SubscriptionsKeep ==
  ASSUME SubscriptionsOK,
         \/ \E s \in Subscriptions : Subscribe(s)
         \/ \E id \in Ids : Unsubscribe(id)
         \/ BusShutdown
  PROVE  SubscriptionsOK'
  <1>1. /\ made \subseteq Subscriptions /\ subscriptions \in Seq(made)
        /\ \A i, j \in 1 .. Len(subscriptions) :
              IdOf[subscriptions[i]] = IdOf[subscriptions[j]] => i = j
        /\ Len(subscriptions) \in Nat /\ DOMAIN subscriptions = 1 .. Len(subscriptions)
        /\ \A i \in 1 .. Len(subscriptions) : subscriptions[i] \in made
    BY Elements DEF SubscriptionsOK
  <1>2. ASSUME NEW s \in Subscriptions, Subscribe(s) PROVE SubscriptionsOK'
    <2>1. made' = made \cup {s} /\ subscriptions \in Seq(made')
      <3>1. made' = made \cup {s}
        BY <1>2 DEF Subscribe
      <3> QED
        BY <1>1, <3>1, SeqMonotonic
    <2>2. CASE \E i \in DOMAIN subscriptions : IdOf[subscriptions[i]] = IdOf[s]
      <3>1. PICK i \in 1 .. Len(subscriptions) : IdOf[subscriptions[i]] = IdOf[s]
        BY <1>1, <2>2
      <3>2. subscriptions' = [j \in DOMAIN subscriptions |->
                                IF IdOf[subscriptions[j]] = IdOf[s] THEN s ELSE subscriptions[j]]
        BY <1>2, <2>2 DEF Subscribe
      <3>3. \A j \in 1 .. Len(subscriptions) : IdOf[subscriptions[j]] = IdOf[s] <=> j = i
        BY <1>1, <3>1
      <3>4. subscriptions' = [subscriptions EXCEPT ![i] = s]
        BY <1>1, <3>2, <3>3
      <3>5. /\ subscriptions' \in Seq(made') /\ Len(subscriptions') = Len(subscriptions)
            /\ \A j \in 1 .. Len(subscriptions) : subscriptions'[j] = IF j = i THEN s ELSE subscriptions[j]
        BY <2>1, <3>4, ExceptSeq
      <3>6. \A j \in 1 .. Len(subscriptions) : IdOf[subscriptions'[j]] = IdOf[subscriptions[j]]
        BY <3>1, <3>5
      <3> QED
        BY <1>1, <2>1, <3>5, <3>6 DEF SubscriptionsOK
    <2>3. CASE ~\E i \in DOMAIN subscriptions : IdOf[subscriptions[i]] = IdOf[s]
      <3>1. subscriptions' = Append(subscriptions, s)
        BY <1>2, <2>3 DEF Subscribe
      <3>2. /\ subscriptions' \in Seq(made') /\ Len(subscriptions') = Len(subscriptions) + 1
            /\ \A j \in 1 .. Len(subscriptions) : subscriptions'[j] = subscriptions[j]
            /\ subscriptions'[Len(subscriptions) + 1] = s
        BY <2>1, <3>1, AppendProperties
      <3>3. \A j \in 1 .. Len(subscriptions) : IdOf[subscriptions'[j]] # IdOf[s]
        BY <1>1, <2>3, <3>2
      <3>4. \A j \in 1 .. Len(subscriptions') :
               j \in 1 .. Len(subscriptions) \/ j = Len(subscriptions) + 1
        BY <1>1, <3>2
      <3>5. \A i, j \in 1 .. Len(subscriptions') :
               IdOf[subscriptions'[i]] = IdOf[subscriptions'[j]] => i = j
        BY <1>1, <3>2, <3>3, <3>4
      <3> QED
        BY <1>1, <2>1, <3>2, <3>5 DEF SubscriptionsOK
    <2> QED
      BY <2>2, <2>3
  <1>3. ASSUME NEW id \in Ids, Unsubscribe(id) PROVE SubscriptionsOK'
    <2>1. PICK i \in 1 .. Len(subscriptions) : subscriptions' = RemoveAt(subscriptions, i)
      BY <1>1, <1>3 DEF Unsubscribe
    <2>2. made' = made
      BY <1>3 DEF Unsubscribe
    <2>3. /\ subscriptions' \in Seq(made) /\ Len(subscriptions') = Len(subscriptions) - 1
          /\ \A j \in 1 .. Len(subscriptions) - 1 :
                subscriptions'[j] = IF j < i THEN subscriptions[j] ELSE subscriptions[j + 1]
      BY <1>1, <2>1, RemovedAt
    <2>4. \A j, k \in 1 .. Len(subscriptions) - 1 :
             IdOf[subscriptions'[j]] = IdOf[subscriptions'[k]] => j = k
      <3> DEFINE from(j) == IF j < i THEN j ELSE j + 1
      <3>1. \A j \in 1 .. Len(subscriptions) - 1 :
               from(j) \in 1 .. Len(subscriptions) /\ subscriptions'[j] = subscriptions[from(j)]
        BY <1>1, <2>3
      <3>2. \A j, k \in 1 .. Len(subscriptions) - 1 : from(j) = from(k) => j = k
        BY <1>1
      <3> HIDE DEF from
      <3> QED
        BY <1>1, <3>1, <3>2
    <2> QED
      BY <1>1, <2>2, <2>3, <2>4 DEF SubscriptionsOK
  <1>4. ASSUME BusShutdown PROVE SubscriptionsOK'
    <2>1. subscriptions' = <<>> /\ made' = made
      BY <1>4 DEF BusShutdown
    <2> QED
      BY <1>1, <2>1, EmptySeq DEF SubscriptionsOK
  <1> QED
    BY <1>2, <1>3, <1>4

\* The history is cut at its beginning.
LEMMA HistoryKeeps ==
  ASSUME HistoryOK,
         \/ published' = published /\ eventHistory' = <<>>
         \/ /\ published < MaxEvents /\ published' = published + 1
            /\ eventHistory' = Recorded(published + 1)
  PROVE  HistoryOK'
  <1>1. /\ published \in 0 .. MaxEvents /\ eventHistory \in Seq(Nat) /\ MaxEvents \in Nat
        /\ MaxHistory \in Nat /\ Len(eventHistory) \in Nat
        /\ Len(eventHistory) <= MaxHistory /\ Len(eventHistory) <= published
        /\ \A i \in 1 .. Len(eventHistory) : eventHistory[i] = published - Len(eventHistory) + i
    BY BusAssumption, LenProperties DEF HistoryOK
  <1>2. CASE published' = published /\ eventHistory' = <<>>
    BY <1>1, <1>2, EmptySeq DEF HistoryOK
  <1>3. CASE /\ published < MaxEvents /\ published' = published + 1
             /\ eventHistory' = Recorded(published + 1)
    <2> DEFINE n == published + 1  all == Append(eventHistory, n)
    <2>0. n \in Nat
      BY <1>1
    <2>1. /\ all \in Seq(Nat) /\ all # <<>> /\ Len(all) = Len(eventHistory) + 1
          /\ \A i \in 1 .. Len(eventHistory) : all[i] = eventHistory[i]
          /\ all[Len(eventHistory) + 1] = n
      <3>1. all = Append(eventHistory, n) /\ eventHistory \in Seq(Nat)
        BY <1>1
      <3> HIDE DEF n, all
      <3>2. /\ Append(eventHistory, n) \in Seq(Nat) /\ Append(eventHistory, n) # <<>>
            /\ Len(Append(eventHistory, n)) = Len(eventHistory) + 1
            /\ \A i \in 1 .. Len(eventHistory) : Append(eventHistory, n)[i] = eventHistory[i]
            /\ Append(eventHistory, n)[Len(eventHistory) + 1] = n
        BY <2>0, <3>1, AppendProperties
      <3> QED
        BY <3>1, <3>2, Zenon
    <2>2. eventHistory' = IF Len(all) > MaxHistory THEN Tail(all) ELSE all
      BY <1>3 DEF Recorded
    <2> HIDE DEF all
    <2>3. \A i \in 1 .. Len(all) : all[i] = n - Len(all) + i
      <3> SUFFICES ASSUME NEW i \in 1 .. Len(all) PROVE all[i] = n - Len(all) + i
        OBVIOUS
      <3>1. CASE i \in 1 .. Len(eventHistory)
        BY <1>1, <2>1, <3>1
      <3>2. CASE i = Len(eventHistory) + 1
        BY <1>1, <2>1, <3>2
      <3> QED
        BY <1>1, <2>1, <3>1, <3>2
    <2>4. CASE Len(all) > MaxHistory
      <3>1. /\ Tail(all) \in Seq(Nat) /\ Len(Tail(all)) = Len(all) - 1
            /\ \A i \in 1 .. Len(Tail(all)) : Tail(all)[i] = all[i + 1]
        BY <2>1, HeadTailProperties
      <3>2. eventHistory' = Tail(all)
        BY <2>2, <2>4
      <3>3. \A i \in 1 .. Len(eventHistory') : eventHistory'[i] = n - Len(eventHistory') + i
        <4>1. Len(eventHistory') = Len(all) - 1 /\ Len(all) \in Nat
          BY <1>1, <2>1, <3>1, <3>2
        <4> SUFFICES ASSUME NEW i \in 1 .. Len(all) - 1
                     PROVE  eventHistory'[i] = n - (Len(all) - 1) + i
          BY <4>1
        <4>2. eventHistory'[i] = all[i + 1] /\ i + 1 \in 1 .. Len(all)
          BY <3>1, <3>2, <4>1
        <4>3. all[i + 1] = n - Len(all) + (i + 1)
          BY <2>3, <4>2
        <4> HIDE DEF n
        <4> QED
          BY <2>0, <4>1, <4>2, <4>3
      <3> QED
        <4>1. published' \in 0 .. MaxEvents /\ published' = n
          BY <1>1, <1>3
        <4>2. Len(eventHistory') = Len(eventHistory) /\ eventHistory' \in Seq(Nat)
          BY <1>1, <2>1, <3>1, <3>2
        <4>3. Len(eventHistory') <= MaxHistory /\ Len(eventHistory') <= n
          BY <1>1, <4>2
        <4> QED
          BY <3>3, <4>1, <4>2, <4>3 DEF HistoryOK
    <2>5. CASE ~(Len(all) > MaxHistory)
      <3>1. eventHistory' = all
        BY <2>2, <2>5
      <3> QED
        <4>1. published' \in 0 .. MaxEvents /\ published' = n
          BY <1>1, <1>3
        <4>2. Len(all) <= MaxHistory /\ Len(all) <= n
          BY <1>1, <2>1, <2>5
        <4> QED
          BY <2>1, <2>3, <3>1, <4>1, <4>2 DEF HistoryOK
    <2> QED
      BY <2>4, <2>5
  <1> QED
    BY <1>2, <1>3

LEMMA MoreUnits ==
  ASSUME NEW f, NEW g, NEW x \in DOMAIN f, f[x] \in Nat, IsFiniteSet(Units(f)),
         g = [f EXCEPT ![x] = @ + 1]
  PROVE  IsFiniteSet(Units(g)) /\ Cardinality(Units(g)) = Cardinality(Units(f)) + 1
  <1>1. DOMAIN g = DOMAIN f /\ g[x] = f[x] + 1 /\ \A y \in DOMAIN f : y # x => g[y] = f[y]
    OBVIOUS
  <1> DEFINE new == <<x, f[x] + 1>>
  <1>2. new \notin Units(f)
    BY DEF Units
  <1>3. Units(g) = Units(f) \cup {new}
    <2>1. \A k \in Int : k \in 1 .. f[x] + 1 <=> k \in 1 .. f[x] \/ k = f[x] + 1
      OBVIOUS
    <2>2. Units(f) \cup {new} \subseteq Units(g)
      BY <1>1, <2>1 DEF Units
    <2>3. ASSUME NEW u \in Units(g) PROVE u \in Units(f) \cup {new}
      <3>1. PICK y \in DOMAIN f : u \in {y} \X (1 .. g[y])
        BY <1>1 DEF Units
      <3>2. CASE y = x
        BY <1>1, <2>1, <3>1, <3>2 DEF Units
      <3>3. CASE y # x
        BY <1>1, <3>1, <3>3 DEF Units
      <3> QED
        BY <3>2, <3>3
    <2> QED
      BY <2>2, <2>3
  <1> HIDE DEF new
  <1>4. /\ IsFiniteSet(Units(f) \cup {new})
        /\ Cardinality(Units(f) \cup {new}) =
              IF new \in Units(f) THEN Cardinality(Units(f)) ELSE Cardinality(Units(f)) + 1
    BY FS_AddElement
  <1> QED
    BY <1>2, <1>3, <1>4, Zenon

\* Counters taken away take their units along.
LEMMA UnitsOfRest ==
  ASSUME NEW f, NEW g, NEW x \in DOMAIN f, f[x] \in Nat, IsFiniteSet(Units(f)),
         g = [y \in DOMAIN f \ {x} |-> f[y]]
  PROVE  IsFiniteSet(Units(g)) /\ Cardinality(Units(g)) + f[x] = Cardinality(Units(f))
         /\ Cardinality(Units(g)) \in Nat
  <1> DEFINE mine == {x} \X (1 .. f[x])
  <1>1. IsFiniteSet(mine) /\ Cardinality(mine) = f[x]
    <2>1. IsFiniteSet({x}) /\ Cardinality({x}) = 1
      BY FS_Singleton
    <2>2. IsFiniteSet(1 .. f[x]) /\ Cardinality(1 .. f[x]) = f[x]
      BY FS_Interval
    <2>3. IsFiniteSet(mine) /\ Cardinality(mine) = Cardinality({x}) * Cardinality(1 .. f[x])
      BY <2>1, <2>2, FS_Product
    <2> QED
      BY <2>1, <2>2, <2>3
  <1>2. mine \subseteq Units(f)
    BY DEF Units
  <1>3. Units(g) = Units(f) \ mine
    BY DEF Units
  <1> HIDE DEF mine
  <1>4. Units(f) \cap mine = mine
    BY <1>2
  <1>5. IsFiniteSet(Units(g)) /\ Cardinality(Units(g)) = Cardinality(Units(f)) - Cardinality(mine)
    <2> DEFINE all == Units(f)
    <2>1. IsFiniteSet(all)
      OBVIOUS
    <2> HIDE DEF all
    <2>2. IsFiniteSet(all \ mine) /\ Cardinality(all \ mine) = Cardinality(all) - Cardinality(all \cap mine)
      BY <2>1, FS_Difference
    <2>3. all \cap mine = mine /\ Units(g) = all \ mine
      BY <1>3, <1>4 DEF all
    <2> QED
      BY <2>2, <2>3 DEF all
  <1>6. Cardinality(Units(f)) \in Nat /\ Cardinality(Units(g)) \in Nat
    BY <1>5, FS_CardinalityType
  <1> QED
    BY <1>1, <1>5, <1>6

LEMMA SameUnits ==
  ASSUME NEW f, NEW g, NEW x, x \notin DOMAIN f,
         g = [y \in DOMAIN f \cup {x} |-> IF y = x THEN 0 ELSE f[y]]
  PROVE  Units(g) = Units(f)
  <1>1. DOMAIN g = DOMAIN f \cup {x} /\ g[x] = 0 /\ \A y \in DOMAIN f : g[y] = f[y]
    OBVIOUS
  <1>2. {x} \X (1 .. g[x]) = {}
    BY <1>1
  <1> QED
    BY <1>1, <1>2 DEF Units

-----------------------------------------------------------------------------
(* Counters *)

LEMMA CountsKeep ==
  ASSUME UnitsOK, NEW task \in Tasks, task.event \in DOMAIN publishing,
         DeliverySucceeds(task) \/ DeliveryFails(task),
         delivered' = delivered, broken' = broken
  PROVE  UnitsOK' /\ DOMAIN publishing' = DOMAIN publishing
  <1>1. CASE DeliverySucceeds(task)
    <2>1. /\ eventCount' = [eventCount EXCEPT ![task.to] = @ + 1]
          /\ publishing' = [publishing EXCEPT ![task.event] = @ + 1]
      BY <1>1 DEF DeliverySucceeds
    <2>2. /\ task.to \in DOMAIN eventCount /\ eventCount[task.to] \in Nat
          /\ publishing[task.event] \in Nat
      BY DEF UnitsOK, Tasks
    <2>3. /\ IsFiniteSet(Units(eventCount'))
          /\ Cardinality(Units(eventCount')) = Cardinality(Units(eventCount)) + 1
      BY <2>1, <2>2, MoreUnits DEF UnitsOK
    <2>4. /\ IsFiniteSet(Units(publishing'))
          /\ Cardinality(Units(publishing')) = Cardinality(Units(publishing)) + 1
      BY <2>1, <2>2, MoreUnits DEF UnitsOK
    <2>5. Cardinality(Units(eventCount)) \in Nat /\ Cardinality(Units(publishing)) \in Nat
      BY FS_CardinalityType DEF UnitsOK
    <2>6. /\ Units(eventCount)' = Units(eventCount') /\ Units(publishing)' = Units(publishing')
      BY DEF Units
    <2>7. CountsAgree'
      <3> DEFINE c == Cardinality(Units(eventCount))  f == Cardinality(Units(publishing))
      <3>1. IF broken = {} THEN c = delivered + f ELSE c >= delivered + f
        BY DEF UnitsOK, CountsAgree
      <3>2. c \in Nat /\ f \in Nat /\ delivered \in Nat
        BY <2>5 DEF UnitsOK
      <3>3. CountsAgree' <=> IF broken = {} THEN c + 1 = delivered + (f + 1)
                             ELSE c + 1 >= delivered + (f + 1)
        BY <2>3, <2>4, <2>6 DEF CountsAgree
      <3> HIDE DEF c, f
      <3>4. IF broken = {} THEN c + 1 = delivered + (f + 1) ELSE c + 1 >= delivered + (f + 1)
        BY <3>1, <3>2
      <3> QED
        BY <3>3, <3>4, Zenon
    <2>8. eventCount' \in [Subscriptions -> Nat] /\ publishing' \in [DOMAIN publishing -> Nat]
      BY <2>1, <2>2 DEF UnitsOK
    <2>9. DOMAIN publishing' = DOMAIN publishing
      BY <2>1
    <2> QED
      BY <2>3, <2>4, <2>6, <2>7, <2>8, <2>9 DEF UnitsOK
  <1>2. CASE DeliveryFails(task)
    BY <1>2 DEF DeliveryFails, UnitsOK, CountsAgree, Units
  <1> QED
    BY <1>1, <1>2

\* A publication goes: what it has counted is added to the statistics, or lost.
LEMMA CountsGo ==
  ASSUME UnitsOK, NEW n \in DOMAIN publishing, publishing' = Without(n), eventCount' = eventCount,
         \/ delivered' = delivered + publishing[n] /\ broken' = broken
         \/ delivered' = delivered /\ broken' = broken \cup {n}
  PROVE  UnitsOK' /\ DOMAIN publishing' = DOMAIN publishing \ {n}
  <1>1. publishing' = [m \in DOMAIN publishing \ {n} |-> publishing[m]]
    BY DEF Without
  <1>2. publishing[n] \in Nat /\ DOMAIN publishing' = DOMAIN publishing \ {n}
    BY <1>1 DEF UnitsOK
  <1>3. /\ IsFiniteSet(Units(publishing'))
        /\ Cardinality(Units(publishing')) + publishing[n] = Cardinality(Units(publishing))
        /\ Cardinality(Units(publishing')) \in Nat
    BY <1>1, <1>2, UnitsOfRest DEF UnitsOK
  <1>4. Cardinality(Units(eventCount)) \in Nat
    BY FS_CardinalityType DEF UnitsOK
  <1>5. Units(eventCount)' = Units(eventCount) /\ Units(publishing)' = Units(publishing')
    BY DEF Units
  <1>6. CountsAgree'
    <2> DEFINE c == Cardinality(Units(eventCount))  f == Cardinality(Units(publishing))
               k == publishing[n]  r == Cardinality(Units(publishing'))
    <2>1. IF broken = {} THEN c = delivered + f ELSE c >= delivered + f
      BY DEF UnitsOK, CountsAgree
    <2>2. c \in Nat /\ f = r + k /\ r \in Nat /\ delivered \in Nat /\ k \in Nat
      BY <1>2, <1>3, <1>4 DEF UnitsOK
    <2>3. CountsAgree' <=> IF broken' = {} THEN c = delivered' + r ELSE c >= delivered' + r
      BY <1>5 DEF CountsAgree
    <2>4. \/ delivered' = delivered + k /\ broken' = broken
          \/ delivered' = delivered /\ broken' # {}
      OBVIOUS
    <2> HIDE DEF c, f, k, r
    <2>5. c >= delivered + f
      BY <2>1, <2>2
    <2>6. IF broken' = {} THEN c = delivered' + r ELSE c >= delivered' + r
      BY <2>1, <2>2, <2>4, <2>5
    <2> QED
      BY <2>3, <2>6, Zenon
  <1>7. delivered' \in Nat
    BY <1>2 DEF UnitsOK
  <1>8. publishing' \in [DOMAIN publishing' -> Nat]
    BY <1>1 DEF UnitsOK
  <1> QED
    BY <1>2, <1>3, <1>5, <1>6, <1>7, <1>8 DEF UnitsOK

LEMMA CountsBegin ==
  ASSUME UnitsOK, NEW n, n \notin DOMAIN publishing,
         \/ publishing' = publishing
         \/ publishing' = [m \in DOMAIN publishing \cup {n} |-> IF m = n THEN 0 ELSE publishing[m]],
         UNCHANGED <<eventCount, delivered, broken>>
  PROVE  UnitsOK'
  <1>1. CASE publishing' = publishing
    BY <1>1 DEF UnitsOK, CountsAgree, Units
  <1>2. CASE publishing' = [m \in DOMAIN publishing \cup {n} |-> IF m = n THEN 0 ELSE publishing[m]]
    <2>1. Units(publishing') = Units(publishing)
      BY <1>2, SameUnits
    <2>2. Units(publishing)' = Units(publishing) /\ Units(eventCount)' = Units(eventCount)
      BY <2>1 DEF Units
    <2>3. publishing' \in [DOMAIN publishing' -> Nat]
      BY <1>2 DEF UnitsOK
    <2> QED
      BY <2>2, <2>3 DEF UnitsOK, CountsAgree
  <1> QED
    BY <1>1, <1>2

-----------------------------------------------------------------------------
(* publish() and its tasks *)

NewTasks(n, t) == [i \in DOMAIN subscriptions |-> [event |-> n, type |-> t, to |-> subscriptions[i]]]

LEMMA NewTasksType ==
  ASSUME SubscriptionsOK, NEW n \in Nat, NEW t \in Types
  PROVE  /\ NewTasks(n, t) \in Seq(Tasks) /\ Len(NewTasks(n, t)) = Len(subscriptions)
         /\ Len(subscriptions) \in Nat
         /\ \A i \in 1 .. Len(subscriptions) :
               /\ subscriptions[i] \in Subscriptions
               /\ NewTasks(n, t)[i] = [event |-> n, type |-> t, to |-> subscriptions[i]]
         /\ \A s : s \in ToSet(subscriptions) <=> \E i \in 1 .. Len(subscriptions) : subscriptions[i] = s
  <1> DEFINE len == Len(subscriptions)
  <1>1. /\ len \in Nat /\ DOMAIN subscriptions = 1 .. len
        /\ \A i \in 1 .. len : subscriptions[i] \in Subscriptions
        /\ \A s : s \in ToSet(subscriptions) <=> \E i \in 1 .. len : subscriptions[i] = s
    BY Elements DEF SubscriptionsOK
  <1>2. \A i \in 1 .. len : [event |-> n, type |-> t, to |-> subscriptions[i]] \in Tasks
    BY <1>1 DEF Tasks
  <1>3. NewTasks(n, t) \in [1 .. len -> Tasks]
    BY <1>1, <1>2 DEF NewTasks
  <1>4. NewTasks(n, t) \in Seq(Tasks)
    BY <1>1, <1>3, SeqDef
  <1>5. Len(NewTasks(n, t)) = len
    <2>1. Len(NewTasks(n, t)) \in Nat /\ DOMAIN NewTasks(n, t) = 1 .. Len(NewTasks(n, t))
      BY <1>4, LenProperties
    <2>2. DOMAIN NewTasks(n, t) = 1 .. len
      BY <1>3
    <2> DEFINE k == Len(NewTasks(n, t))
    <2> HIDE DEF len, k
    <2>3. k \in Nat /\ len \in Nat /\ 1 .. k = 1 .. len
      BY <1>1, <2>1, <2>2 DEF k
    <2>4. (k > 0 => k \in 1 .. len) /\ (len > 0 => len \in 1 .. k)
      BY <2>3
    <2>5. k = len
      BY <2>3, <2>4
    <2> QED
      BY <2>5 DEF k
  <1> QED
    BY <1>1, <1>4, <1>5 DEF NewTasks

\* A publication makes a task for each that is subscribed, behind the tasks of earlier ones.
LEMMA PublishKeeps ==
  ASSUME BusIndInv, NEW t \in Types, Publish(t)
  PROVE  BusIndInv'
  <1> DEFINE n == published + 1  new == NewTasks(n, t)  r == Len(ready)  l == Len(subscriptions)
  <1>1. /\ published < MaxEvents /\ eventHistory' = Recorded(n) /\ published' = n
        /\ ready' = ready \o new
        /\ publishing' = IF subscriptions = <<>> THEN publishing
                         ELSE [m \in DOMAIN publishing \cup {n} |->
                                  IF m = n THEN 0 ELSE publishing[m]]
        /\ due' = due \cup {<<n, s>> : s \in {q \in ToSet(subscriptions) : t \in Wants[q]}}
        /\ UNCHANGED <<subscriptions, made, delivered, running, eventCount, got, broken>>
    BY DEF Publish, NewTasks
  <1>2. published \in Nat /\ n \in Nat
    BY BusAssumption DEF BusIndInv, HistoryOK
  <1>3. /\ new \in Seq(Tasks) /\ Len(new) = l /\ l \in Nat
        /\ \A i \in 1 .. l : /\ subscriptions[i] \in Subscriptions
                             /\ new[i] = [event |-> n, type |-> t, to |-> subscriptions[i]]
        /\ \A s : s \in ToSet(subscriptions) <=> \E i \in 1 .. l : subscriptions[i] = s
    BY <1>2, NewTasksType DEF BusIndInv
  <1>4. SubscriptionsOK' /\ HistoryOK'
    BY <1>1, HistoryKeeps DEF BusIndInv, SubscriptionsOK
  <1>5. /\ ready \in Seq(Tasks) /\ r \in Nat
        /\ DOMAIN publishing \subseteq 1 .. published
        /\ \A i \in 1 .. r : ready[i] \in Tasks /\ ready[i].event \in 1 .. published
    <2>1. ready \in Seq(Tasks)
      BY DEF BusIndInv, TasksOK
    <2> QED
      BY <2>1, Elements DEF BusIndInv, TasksOK
  <1>6. /\ ready' \in Seq(Tasks) /\ Len(ready') = r + l
        /\ \A i \in 1 .. r + l : ready'[i] = IF i <= r THEN ready[i] ELSE new[i - r]
    <2> HIDE DEF new
    <2>1. /\ ready \o new \in Seq(Tasks) /\ Len(ready \o new) = Len(ready) + Len(new)
          /\ \A i \in 1 .. Len(ready) + Len(new) :
                (ready \o new)[i] = IF i <= Len(ready) THEN ready[i] ELSE new[i - Len(ready)]
      <3>1. ready \in Seq(Tasks) /\ new \in Seq(Tasks)
        BY <1>3, <1>5
      <3> HIDE DEF r, l
      <3> QED
        BY <3>1, ConcatProperties, Zenon
    <2> QED
      BY <1>1, <1>3, <2>1
  <1>7. \A i \in 1 .. r + l :
           \/ i \in 1 .. r /\ ready'[i] = ready[i]
           \/ /\ i - r \in 1 .. l
              /\ ready'[i] = [event |-> n, type |-> t, to |-> subscriptions[i - r]]
    <2> SUFFICES ASSUME NEW i \in 1 .. r + l
                 PROVE  \/ i \in 1 .. r /\ ready'[i] = ready[i]
                        \/ /\ i - r \in 1 .. l
                           /\ ready'[i] = [event |-> n, type |-> t, to |-> subscriptions[i - r]]
      OBVIOUS
    <2> HIDE DEF n, new, r, l
    <2>1. CASE i <= r
      BY <1>3, <1>5, <1>6, <2>1
    <2>2. CASE ~(i <= r)
      <3>1. i - r \in 1 .. l
        BY <1>3, <1>5, <2>2
      <3> QED
        BY <1>3, <1>6, <2>2, <3>1
    <2> QED
      BY <2>1, <2>2
  <1>8. DOMAIN publishing' = DOMAIN publishing \cup (IF subscriptions = <<>> THEN {} ELSE {n})
    BY <1>1
  <1>9. l > 0 => subscriptions # <<>>
    BY EmptySeq
  <1> HIDE DEF new, r, l, n
  <1>10. TasksOK'
    <2>1. DOMAIN publishing' \subseteq 1 .. n /\ broken \subseteq 1 .. n
      BY <1>1, <1>2, <1>5, <1>8 DEF BusIndInv, TasksOK, n
    <2>2. \A i \in 1 .. r + l : ready'[i].event \in DOMAIN publishing' \cup broken
      <3> SUFFICES ASSUME NEW i \in 1 .. r + l
                   PROVE  ready'[i].event \in DOMAIN publishing' \cup broken
        OBVIOUS
      <3>1. CASE i \in 1 .. r /\ ready'[i] = ready[i]
        <4>1. ready[i].event \in DOMAIN publishing \cup broken
          BY <3>1 DEF BusIndInv, TasksOK, r
        <4> QED
          BY <1>8, <3>1, <4>1
      <3>2. CASE /\ i - r \in 1 .. l
                 /\ ready'[i] = [event |-> n, type |-> t, to |-> subscriptions[i - r]]
        BY <1>3, <1>8, <1>9, <3>2
      <3> QED
        BY <1>7, <3>1, <3>2
    <2>3. \A task \in running : task.event \in DOMAIN publishing'
      BY <1>8 DEF BusIndInv, TasksOK
    <2> QED
      BY <1>1, <1>6, <2>1, <2>2, <2>3 DEF BusIndInv, TasksOK
  <1>11. ReadyInOrder'
    <2> SUFFICES ASSUME NEW i \in 1 .. r + l, NEW j \in 1 .. r + l, i < j
                 PROVE  \/ ready'[i].event < ready'[j].event
                        \/ ready'[i].event = ready'[j].event /\ ready'[i].to # ready'[j].to
      BY <1>6 DEF ReadyInOrder
    <2>1. i \in Nat /\ j \in Nat
      BY <1>3, <1>5
    <2>2. CASE j \in 1 .. r /\ ready'[j] = ready[j]
      <3>1. i \in 1 .. r /\ ready'[i] = ready[i]
        <4>1. i \in 1 .. r /\ i <= r
          BY <1>5, <2>1, <2>2
        <4> QED
          BY <1>6, <4>1
      <3> QED
        BY <2>2, <3>1 DEF BusIndInv, ReadyInOrder, r
    <2>3. CASE /\ j - r \in 1 .. l
               /\ ready'[j] = [event |-> n, type |-> t, to |-> subscriptions[j - r]]
      <3>1. CASE i \in 1 .. r /\ ready'[i] = ready[i]
        BY <1>2, <1>5, <2>3, <3>1 DEF n
      <3>2. CASE /\ i - r \in 1 .. l
                 /\ ready'[i] = [event |-> n, type |-> t, to |-> subscriptions[i - r]]
        <4>1. i - r # j - r
          BY <1>5, <2>1
        <4>2. subscriptions[i - r] # subscriptions[j - r]
          BY <2>3, <3>2, <4>1 DEF BusIndInv, SubscriptionsOK, l
        <4> QED
          BY <2>3, <3>2, <4>2
      <3> QED
        BY <1>7, <3>1, <3>2
    <2> QED
      BY <1>7, <2>2, <2>3
  <1>12. GotOK'
    <2>1. due \subseteq due'
      BY <1>1
    <2>2. \A m : m \in 1 .. published => m \in 1 .. n
      BY <1>2 DEF n
    <2> QED
      BY <1>1, <2>1, <2>2 DEF BusIndInv, GotOK
  <1>13. CalledInOrder'
    <2> SUFFICES ASSUME NEW s \in Subscriptions
                 PROVE  /\ \A i, j \in 1 .. Len(got[s]) : i < j => got[s][i] < got[s][j]
                        /\ \A i \in 1 .. Len(got[s]), j \in 1 .. r + l :
                              ready'[j].to = s => got[s][i] < ready'[j].event
      BY <1>1, <1>6 DEF CalledInOrder
    <2>1. ASSUME NEW i \in 1 .. Len(got[s]), NEW j \in 1 .. r + l, ready'[j].to = s
          PROVE  got[s][i] < ready'[j].event
      <3>1. got[s][i] \in 1 .. published
        BY DEF BusIndInv, GotOK
      <3>2. CASE j \in 1 .. r /\ ready'[j] = ready[j]
        BY <2>1, <3>2 DEF BusIndInv, CalledInOrder, r
      <3>3. CASE /\ j - r \in 1 .. l
                 /\ ready'[j] = [event |-> n, type |-> t, to |-> subscriptions[j - r]]
        BY <1>2, <3>1, <3>3 DEF n
      <3> QED
        BY <1>7, <3>2, <3>3
    <2> QED
      BY <2>1 DEF BusIndInv, CalledInOrder
  <1>14. DueOK'
    <2>1. due' \subseteq Nat \X Subscriptions
      <3>1. ToSet(subscriptions) \subseteq Subscriptions
        BY <1>3
      <3> QED
        BY <1>1, <1>2, <3>1 DEF BusIndInv, DueOK
    <2>2. ASSUME NEW i \in 1 .. r + l, ready'[i].type \in Wants[ready'[i].to]
          PROVE  <<ready'[i].event, ready'[i].to>> \in due'
      <3>1. CASE i \in 1 .. r /\ ready'[i] = ready[i]
        BY <1>1, <2>2, <3>1 DEF BusIndInv, DueOK, r
      <3>2. CASE /\ i - r \in 1 .. l
                 /\ ready'[i] = [event |-> n, type |-> t, to |-> subscriptions[i - r]]
        <4>1. subscriptions[i - r] \in ToSet(subscriptions) /\ t \in Wants[subscriptions[i - r]]
          BY <1>3, <2>2, <3>2
        <4> QED
          BY <1>1, <3>2, <4>1
      <3> QED
        BY <1>7, <3>1, <3>2
    <2>3. ASSUME NEW d \in due' PROVE (d[1] \in broken \/ Called(d[1], d[2]) \/ Awaited(d[1], d[2]))'
      <3>1. CASE d \in due
        <4>1. CASE Awaited(d[1], d[2])
          <5>1. PICK i \in 1 .. r : ready[i].event = d[1] /\ ready[i].to = d[2]
                                    /\ ready[i].type \in Wants[d[2]]
            BY <4>1 DEF Awaited, r
          <5>2. i \in 1 .. r + l /\ ready'[i] = ready[i]
            BY <1>3, <1>5, <1>6
          <5> QED
            BY <1>6, <5>1, <5>2 DEF Awaited
        <4>2. CASE d[1] \in broken \/ Called(d[1], d[2])
          BY <1>1, <4>2 DEF Called
        <4> QED
          BY <3>1, <4>1, <4>2 DEF BusIndInv, DueOK
      <3>2. CASE d \notin due
        <4>1. PICK s \in ToSet(subscriptions) : d = <<n, s>> /\ t \in Wants[s]
          BY <1>1, <3>2
        <4>2. PICK k \in 1 .. l : subscriptions[k] = s
          BY <1>3
        <4> DEFINE i == r + k
        <4>3. i \in 1 .. r + l /\ ~(i <= r) /\ i - r = k
          BY <1>3, <1>5
        <4>4. ready'[i] = [event |-> n, type |-> t, to |-> s]
          BY <1>3, <1>6, <4>2, <4>3
        <4> HIDE DEF i
        <4>5. ready'[i].event = d[1] /\ ready'[i].to = d[2] /\ ready'[i].type \in Wants[d[2]]
          BY <4>1, <4>4
        <4> QED
          BY <1>6, <4>3, <4>5 DEF Awaited
      <3> QED
        BY <3>1, <3>2
    <2> QED
      BY <1>6, <2>1, <2>2, <2>3 DEF DueOK
  <1>15. UnitsOK'
    <2>1. n \notin DOMAIN publishing
      BY <1>2, <1>5 DEF n
    <2> QED
      BY <1>1, <2>1, CountsBegin DEF BusIndInv
  <1> QED
    BY <1>4, <1>10, <1>11, <1>12, <1>13, <1>14, <1>15 DEF BusIndInv

\* The first task starts: its callback is called with an event behind those it had, and it
\* leaves the tasks of later events.
LEMMA StartKeeps ==
  ASSUME BusIndInv, StartDelivery
  PROVE  BusIndInv'
  <1> DEFINE task == Head(ready)  r == Len(ready)
             runs == task.event \in DOMAIN publishing /\ task.type \in Wants[task.to]
  <1>1. /\ ready # <<>> /\ ready' = Tail(ready)
        /\ UNCHANGED <<subscriptions, made, eventHistory, published, delivered, due, broken>>
        /\ IF runs THEN /\ got' = [got EXCEPT ![task.to] = Append(@, task.event)]
                        /\ \/ /\ running' = running \cup {task}
                              /\ DeliveryFails(task)
                           \/ /\ running' = running
                              /\ DeliverySucceeds(task) \/ DeliveryFails(task)
           ELSE UNCHANGED <<got, running, eventCount, publishing>>
    BY DEF StartDelivery, DeliveryFails
  <1>2. /\ ready \in Seq(Tasks) /\ r \in Nat \ {0} /\ ready[1] = task
        /\ \A i \in 1 .. r : ready[i] \in Tasks
    <2>1. ready \in Seq(Tasks)
      BY DEF BusIndInv, TasksOK
    <2>2. ready[1] = task
      OBVIOUS
    <2> QED
      BY <1>1, <2>1, <2>2, EmptySeq, Elements
  <1>3. /\ ready' \in Seq(Tasks) /\ Len(ready') = r - 1
        /\ \A i \in 1 .. r - 1 : ready'[i] = ready[i + 1] /\ i + 1 \in 1 .. r
    <2>1. /\ Tail(ready) \in Seq(Tasks) /\ Len(Tail(ready)) = r - 1
          /\ \A i \in 1 .. Len(Tail(ready)) : Tail(ready)[i] = ready[i + 1]
      BY <1>1, <1>2, HeadTailProperties
    <2> QED
      BY <1>1, <1>2, <2>1
  <1>4. /\ task \in Tasks /\ task.event \in Nat /\ task.to \in Subscriptions
        /\ 1 \in 1 .. r
        /\ task.event \in DOMAIN publishing \cup broken
        /\ task.type \in Wants[task.to] => <<task.event, task.to>> \in due
    <2>1. 1 \in 1 .. r /\ task \in Tasks
      BY <1>2
    <2>2. /\ task.event \in DOMAIN publishing \cup broken
          /\ task.type \in Wants[task.to] => <<task.event, task.to>> \in due
      BY <1>2, <2>1 DEF BusIndInv, TasksOK, DueOK
    <2> QED
      BY <2>1, <2>2 DEF Tasks
  <1> HIDE DEF task, r
  <1>5. SubscriptionsOK' /\ HistoryOK'
    BY <1>1 DEF BusIndInv, SubscriptionsOK, HistoryOK
  <1>6. UnitsOK' /\ DOMAIN publishing' = DOMAIN publishing
    <2>1. CASE runs
      BY <1>1, <1>4, <2>1, CountsKeep DEF BusIndInv
    <2>2. CASE ~runs
      BY <1>1, <2>2 DEF BusIndInv, UnitsOK, CountsAgree, Units
    <2> QED
      BY <2>1, <2>2
  <1>7. TasksOK'
    <2>1. running' \subseteq Tasks /\ \A other \in running' : other.event \in DOMAIN publishing
      <3>1. running' = running \/ (running' = running \cup {task} /\ runs)
        <4> HIDE DEF runs
        <4> QED
          BY <1>1, Zenon
      <3> QED
        BY <1>4, <3>1 DEF BusIndInv, TasksOK
    <2>2. \A i \in 1 .. r - 1 : ready'[i].event \in DOMAIN publishing \cup broken
      BY <1>3 DEF BusIndInv, TasksOK, r
    <2> QED
      BY <1>1, <1>3, <1>6, <2>1, <2>2 DEF BusIndInv, TasksOK
  <1>8. ReadyInOrder'
    <2> SUFFICES ASSUME NEW i \in 1 .. r - 1, NEW j \in 1 .. r - 1, i < j
                 PROVE  \/ ready'[i].event < ready'[j].event
                        \/ ready'[i].event = ready'[j].event /\ ready'[i].to # ready'[j].to
      BY <1>3 DEF ReadyInOrder
    <2>1. /\ ready'[i] = ready[i + 1] /\ ready'[j] = ready[j + 1]
          /\ i + 1 \in 1 .. r /\ j + 1 \in 1 .. r /\ i + 1 < j + 1
      BY <1>2, <1>3
    <2> QED
      BY <2>1 DEF BusIndInv, ReadyInOrder, r
  <1>9. \A s \in Subscriptions :
           \/ got'[s] = got[s]
           \/ runs /\ s = task.to /\ got'[s] = Append(got[s], task.event)
    BY <1>1, <1>4 DEF BusIndInv, GotOK
  <1>10. \A s \in Subscriptions :
           /\ got[s] \in Seq(Nat) /\ Len(got[s]) \in Nat
           /\ Append(got[s], task.event) \in Seq(Nat)
           /\ Len(Append(got[s], task.event)) = Len(got[s]) + 1
           /\ \A i \in 1 .. Len(got[s]) : Append(got[s], task.event)[i] = got[s][i]
           /\ Append(got[s], task.event)[Len(got[s]) + 1] = task.event
    BY <1>4, AppendProperties, LenProperties DEF BusIndInv, GotOK
  <1>11. GotOK'
    <2>1. got' \in [Subscriptions -> Seq(Nat)]
      BY <1>1, <1>4, <1>10 DEF BusIndInv, GotOK
    <2>2. ASSUME NEW s \in Subscriptions, NEW i \in 1 .. Len(got'[s])
          PROVE  got'[s][i] \in 1 .. published /\ <<got'[s][i], s>> \in due
      <3>1. CASE got'[s] = got[s]
        BY <2>2, <3>1 DEF BusIndInv, GotOK
      <3>2. CASE runs /\ s = task.to /\ got'[s] = Append(got[s], task.event)
        <4>1. i \in 1 .. Len(got[s]) \/ i = Len(got[s]) + 1
          BY <1>10, <3>2
        <4>2. task.event \in 1 .. published /\ <<task.event, task.to>> \in due
          BY <1>4, <3>2 DEF BusIndInv, TasksOK
        <4>3. CASE i \in 1 .. Len(got[s])
          <5>1. got'[s][i] = got[s][i]
            BY <1>10, <3>2, <4>3
          <5> QED
            BY <4>3, <5>1 DEF BusIndInv, GotOK
        <4>4. CASE i = Len(got[s]) + 1
          BY <1>10, <3>2, <4>2, <4>4
        <4> QED
          BY <4>1, <4>3, <4>4
      <3> QED
        BY <1>9, <3>1, <3>2
    <2> QED
      BY <1>1, <2>1, <2>2 DEF GotOK
  <1>12. CalledInOrder'
    <2> SUFFICES ASSUME NEW s \in Subscriptions
                 PROVE  /\ \A i, j \in 1 .. Len(got'[s]) : i < j => got'[s][i] < got'[s][j]
                        /\ \A i \in 1 .. Len(got'[s]), j \in 1 .. r - 1 :
                              ready'[j].to = s => got'[s][i] < ready'[j].event
      BY <1>3 DEF CalledInOrder
    <2>1. /\ \A i, j \in 1 .. Len(got[s]) : i < j => got[s][i] < got[s][j]
          /\ \A i \in 1 .. Len(got[s]), j \in 1 .. r : ready[j].to = s => got[s][i] < ready[j].event
      BY DEF BusIndInv, CalledInOrder, r
    <2>2. CASE got'[s] = got[s]
      BY <1>3, <2>1, <2>2
    <2>3. CASE runs /\ s = task.to /\ got'[s] = Append(got[s], task.event)
      <3> DEFINE g == got[s]  h == got'[s]  e == task.event
      <3>1. /\ Len(g) \in Nat /\ Len(h) = Len(g) + 1 /\ h[Len(g) + 1] = e
            /\ \A i \in 1 .. Len(g) : h[i] = g[i]
        BY <1>10, <2>3
      <3>2. \A i \in 1 .. Len(g) : g[i] < e
        BY <1>2, <1>4, <2>1, <2>3
      <3>3. \A j \in 1 .. r - 1 : ready'[j].to = s => e < ready'[j].event
        <4> SUFFICES ASSUME NEW j \in 1 .. r - 1, ready'[j].to = s PROVE e < ready'[j].event
          OBVIOUS
        <4>1. ready'[j] = ready[j + 1] /\ j + 1 \in 1 .. r /\ 1 < j + 1
          BY <1>2, <1>3
        <4>2. \/ ready[1].event < ready[j + 1].event
              \/ ready[1].event = ready[j + 1].event /\ ready[1].to # ready[j + 1].to
          BY <1>4, <4>1 DEF BusIndInv, ReadyInOrder, r
        <4> QED
          BY <1>2, <2>3, <4>1, <4>2
      <3>4. \A i \in 1 .. Len(h) : i \in 1 .. Len(g) \/ i = Len(g) + 1
        BY <3>1
      <3>5. \A i, j \in 1 .. Len(g) : i < j => g[i] < g[j]
        BY <2>1
      <3>6. \A i \in 1 .. Len(g), j \in 1 .. r - 1 : ready'[j].to = s => g[i] < ready'[j].event
        BY <1>3, <2>1
      <3> HIDE DEF g, h, e
      <3>7. \A i, j \in 1 .. Len(h) : i < j => h[i] < h[j]
        <4> SUFFICES ASSUME NEW i \in 1 .. Len(h), NEW j \in 1 .. Len(h), i < j PROVE h[i] < h[j]
          OBVIOUS
        <4>1. i \in 1 .. Len(g)
          BY <3>1
        <4>2. CASE j \in 1 .. Len(g)
          BY <3>1, <3>5, <4>1, <4>2
        <4>3. CASE j = Len(g) + 1
          BY <3>1, <3>2, <4>1, <4>3
        <4> QED
          BY <3>4, <4>2, <4>3
      <3>8. \A i \in 1 .. Len(h), j \in 1 .. r - 1 : ready'[j].to = s => h[i] < ready'[j].event
        <4> SUFFICES ASSUME NEW i \in 1 .. Len(h), NEW j \in 1 .. r - 1, ready'[j].to = s
                     PROVE  h[i] < ready'[j].event
          OBVIOUS
        <4>1. CASE i \in 1 .. Len(g)
          BY <3>1, <3>6, <4>1
        <4>2. CASE i = Len(g) + 1
          BY <3>1, <3>3, <4>2
        <4> QED
          BY <3>4, <4>1, <4>2
      <3> QED
        BY <3>7, <3>8 DEF h
    <2> QED
      BY <1>9, <2>2, <2>3
  <1>13. DueOK'
    <2>1. ASSUME NEW n, NEW s \in Subscriptions, Called(n, s) PROVE Called(n, s)'
      <3>1. PICK i \in 1 .. Len(got[s]) : got[s][i] = n
        BY <2>1 DEF Called
      <3>2. i \in 1 .. Len(got'[s]) /\ got'[s][i] = n
        BY <1>9, <1>10, <3>1
      <3> QED
        BY <3>2 DEF Called
    <2>2. ASSUME NEW n, NEW s \in Subscriptions, Awaited(n, s)
          PROVE  n \in broken \/ Called(n, s)' \/ Awaited(n, s)'
      <3>1. PICK i \in 1 .. r : ready[i].event = n /\ ready[i].to = s /\ ready[i].type \in Wants[s]
        BY <2>2 DEF Awaited, r
      <3>2. CASE i = 1
        <4>1. task.event = n /\ task.to = s /\ task.type \in Wants[s]
          BY <1>2, <3>1, <3>2
        <4>2. CASE task.event \in DOMAIN publishing
          <5>1. got'[s] = Append(got[s], n)
            BY <1>1, <1>4, <4>1, <4>2 DEF BusIndInv, GotOK
          <5>2. Len(got[s]) + 1 \in 1 .. Len(got'[s]) /\ got'[s][Len(got[s]) + 1] = n
            BY <1>10, <4>1, <5>1
          <5> QED
            BY <5>2 DEF Called
        <4>3. CASE task.event \notin DOMAIN publishing
          BY <1>4, <4>1, <4>3
        <4> QED
          BY <4>2, <4>3
      <3>3. CASE i # 1
        <4> DEFINE k == i - 1
        <4>1. k \in 1 .. r - 1 /\ i = k + 1
          BY <1>2, <3>3
        <4> HIDE DEF k
        <4>2. ready'[k] = ready[i]
          BY <1>3, <4>1
        <4> QED
          BY <1>3, <3>1, <4>1, <4>2 DEF Awaited
      <3> QED
        BY <3>2, <3>3
    <2>3. ASSUME NEW i \in 1 .. r - 1, ready'[i].type \in Wants[ready'[i].to]
          PROVE  <<ready'[i].event, ready'[i].to>> \in due
      BY <1>3, <2>3 DEF BusIndInv, DueOK, r
    <2>4. ASSUME NEW d \in due PROVE d[1] \in broken \/ Called(d[1], d[2])' \/ Awaited(d[1], d[2])'
      <3>1. d[2] \in Subscriptions
        BY DEF BusIndInv, DueOK
      <3>2. d[1] \in broken \/ Called(d[1], d[2]) \/ Awaited(d[1], d[2])
        BY DEF BusIndInv, DueOK
      <3> QED
        BY <2>1, <2>2, <3>1, <3>2
    <2>5. due \subseteq Nat \X Subscriptions
      BY DEF BusIndInv, DueOK
    <2> QED
      BY <1>1, <1>3, <2>3, <2>4, <2>5 DEF DueOK
  <1> QED
    BY <1>5, <1>6, <1>7, <1>8, <1>11, <1>12, <1>13 DEF BusIndInv

\* Callbacks end and publications end or are cancelled; the tasks that wait stay in order.
LEMMA EndKeeps ==
  ASSUME BusIndInv,
         \/ \E task \in running : EndDelivery(task)
         \/ \E n \in DOMAIN publishing : PublishReturns(n) \/ PublishCancelled(n)
  PROVE  BusIndInv'
  <1>1. UNCHANGED <<subscriptions, made, eventHistory, published, ready, got, due>>
    BY DEF EndDelivery, PublishReturns, PublishCancelled
  <1>2. SubscriptionsOK' /\ HistoryOK' /\ ReadyInOrder' /\ CalledInOrder' /\ GotOK'
    BY <1>1 DEF BusIndInv, SubscriptionsOK, HistoryOK, ReadyInOrder, CalledInOrder, GotOK
  <1>3. broken \subseteq broken'
    BY DEF EndDelivery, PublishReturns, PublishCancelled
  <1>4. DueOK'
    <2>1. \A n, s : (Called(n, s)' <=> Called(n, s)) /\ (Awaited(n, s)' <=> Awaited(n, s))
      BY <1>1 DEF Called, Awaited
    <2> QED
      BY <1>1, <1>3, <2>1 DEF BusIndInv, DueOK
  <1>5. UnitsOK' /\ TasksOK'
    <2>1. ASSUME NEW task \in running, EndDelivery(task) PROVE UnitsOK' /\ TasksOK'
      <3>1. /\ running' = running \ {task}
            /\ DeliverySucceeds(task) \/ DeliveryFails(task)
            /\ delivered' = delivered /\ broken' = broken
        BY <2>1 DEF EndDelivery
      <3>2. task \in Tasks /\ task.event \in DOMAIN publishing
        BY DEF BusIndInv, TasksOK
      <3>3. UnitsOK' /\ DOMAIN publishing' = DOMAIN publishing
        BY <3>1, <3>2, CountsKeep DEF BusIndInv
      <3>4. running' \subseteq running /\ broken' = broken
        BY <3>1
      <3>5. TasksOK'
        BY <1>1, <3>3, <3>4 DEF BusIndInv, TasksOK
      <3> QED
        BY <3>3, <3>5
    <2>2. ASSUME NEW n \in DOMAIN publishing, PublishReturns(n) PROVE UnitsOK' /\ TasksOK'
      <3>1. /\ Pending(n) = {} /\ publishing' = Without(n) /\ eventCount' = eventCount
            /\ delivered' = delivered + publishing[n] /\ broken' = broken /\ running' = running
        BY <2>2 DEF PublishReturns
      <3>2. UnitsOK' /\ DOMAIN publishing' = DOMAIN publishing \ {n}
        BY <3>1, CountsGo DEF BusIndInv
      <3>3. /\ \A task \in running : task.event # n
            /\ \A i \in 1 .. Len(ready) : ready[i].event # n
        <4>1. \A i \in 1 .. Len(ready) : ready[i] \in ToSet(ready)
          BY Elements DEF BusIndInv, TasksOK
        <4> QED
          BY <3>1, <4>1 DEF Pending
      <3>4. /\ \A task \in running' : task.event \in DOMAIN publishing'
            /\ \A i \in 1 .. Len(ready) : ready[i].event \in DOMAIN publishing' \cup broken
        BY <3>1, <3>2, <3>3 DEF BusIndInv, TasksOK
      <3> QED
        BY <1>1, <3>1, <3>2, <3>4 DEF BusIndInv, TasksOK
    <2>3. ASSUME NEW n \in DOMAIN publishing, PublishCancelled(n) PROVE UnitsOK' /\ TasksOK'
      <3>1. /\ publishing' = Without(n) /\ running' = {task \in running : task.event # n}
            /\ eventCount' = eventCount /\ delivered' = delivered /\ broken' = broken \cup {n}
        BY <2>3 DEF PublishCancelled
      <3>2. UnitsOK' /\ DOMAIN publishing' = DOMAIN publishing \ {n}
        BY <3>1, CountsGo DEF BusIndInv
      <3> QED
        BY <1>1, <3>1, <3>2 DEF BusIndInv, TasksOK
    <2> QED
      BY <2>1, <2>2, <2>3
  <1> QED
    BY <1>2, <1>4, <1>5 DEF BusIndInv

LEMMA SubscriberKeeps ==
  ASSUME BusIndInv,
         \/ \E s \in Subscriptions : Subscribe(s)
         \/ \E id \in Ids : Unsubscribe(id)
         \/ BusShutdown \/ ClearHistory
  PROVE  BusIndInv'
  <1>1. UNCHANGED <<published, delivered, ready, running, publishing, eventCount, got, due, broken>>
    BY DEF Subscribe, Unsubscribe, BusShutdown, ClearHistory
  <1>2. SubscriptionsOK'
    <2>1. CASE ClearHistory
      BY <2>1 DEF ClearHistory, BusIndInv, SubscriptionsOK
    <2> QED
      BY <2>1, SubscriptionsKeep DEF BusIndInv
  <1>3. HistoryOK'
    <2>1. eventHistory' = eventHistory \/ eventHistory' = <<>>
      BY DEF Subscribe, Unsubscribe, BusShutdown, ClearHistory
    <2> QED
      BY <1>1, <2>1, HistoryKeeps DEF BusIndInv, HistoryOK
  <1>4. TasksOK' /\ ReadyInOrder' /\ CalledInOrder' /\ GotOK' /\ DueOK'
    <2>1. TasksOK' /\ ReadyInOrder'
      BY <1>1 DEF BusIndInv, TasksOK, ReadyInOrder
    <2>2. CalledInOrder' /\ GotOK'
      BY <1>1 DEF BusIndInv, CalledInOrder, GotOK
    <2>3. \A n, s : (Called(n, s)' <=> Called(n, s)) /\ (Awaited(n, s)' <=> Awaited(n, s))
      BY <1>1 DEF Called, Awaited
    <2>4. DueOK'
      BY <1>1, <2>3 DEF BusIndInv, DueOK
    <2> QED
      BY <2>1, <2>2, <2>4
  <1>5. UnitsOK'
    BY <1>1 DEF BusIndInv, UnitsOK, CountsAgree, Units
  <1> QED
    BY <1>2, <1>3, <1>4, <1>5 DEF BusIndInv

LEMMA BusInitially == BusInit => BusIndInv
  <1> SUFFICES ASSUME BusInit PROVE BusIndInv
    OBVIOUS
  <1> USE DEF BusInit
  <1>1. Len(subscriptions) = 0 /\ Len(eventHistory) = 0 /\ Len(ready) = 0
    OBVIOUS
  <1>2. \A s \in Subscriptions : Len(got[s]) = 0
    OBVIOUS
  <1>3. MaxEvents \in Nat /\ MaxHistory \in Nat
    BY BusAssumption
  <1>4. SubscriptionsOK
    BY <1>1 DEF SubscriptionsOK
  <1>5. HistoryOK
    BY <1>1, <1>3 DEF HistoryOK
  <1>6. TasksOK /\ ReadyInOrder
    BY <1>1 DEF TasksOK, ReadyInOrder
  <1>7. CalledInOrder /\ GotOK /\ DueOK
    BY <1>1, <1>2 DEF CalledInOrder, GotOK, DueOK
  <1>8. UnitsOK
    <2>1. Units(eventCount) = {}
      <3>1. \A s \in Subscriptions : {s} \X (1 .. eventCount[s]) = {}
        <4>1. \A s \in Subscriptions : eventCount[s] = 0
          OBVIOUS
        <4>2. 1 .. 0 = {}
          OBVIOUS
        <4> QED
          BY <4>1, <4>2
      <3> QED
        BY <3>1 DEF Units
    <2>2. Units(publishing) = {}
      BY DEF Units
    <2>3. CountsAgree
      <3>1. Cardinality(Units(eventCount)) = 0 /\ Cardinality(Units(publishing)) = 0
        BY <2>1, <2>2, FS_EmptySet
      <3>2. delivered = 0 /\ broken = {}
        OBVIOUS
      <3>3. 0 = 0 + 0
        OBVIOUS
      <3> QED
        BY <3>1, <3>2, <3>3 DEF CountsAgree
    <2> QED
      BY <2>1, <2>2, <2>3, FS_EmptySet DEF UnitsOK
  <1> QED
    BY <1>4, <1>5, <1>6, <1>7, <1>8 DEF BusIndInv

LEMMA BusShows == BusIndInv => BusInv
  <1> SUFFICES ASSUME BusIndInv PROVE BusInv
    OBVIOUS
  <1> USE DEF BusIndInv
  <1>1. /\ subscriptions \in Seq(made) /\ made \subseteq Subscriptions /\ ready \in Seq(Tasks)
        /\ eventHistory \in Seq(Nat) /\ published \in Nat
        /\ \A s \in Subscriptions : got[s] \in Seq(Nat)
    BY BusAssumption DEF SubscriptionsOK, TasksOK, HistoryOK, GotOK
  <1>2. /\ ToSet(subscriptions) \subseteq made /\ DOMAIN subscriptions = 1 .. Len(subscriptions)
        /\ subscriptions \in Seq(Subscriptions)
        /\ DOMAIN eventHistory = 1 .. Len(eventHistory) /\ Len(eventHistory) \in Nat
        /\ \A task : task \in ToSet(ready) <=> \E i \in 1 .. Len(ready) : ready[i] = task
    BY <1>1, Elements, SeqMonotonic
  <1>3. \A s \in Subscriptions :
           /\ DOMAIN got[s] = 1 .. Len(got[s]) /\ Len(got[s]) \in Nat
           /\ \A n : n \in ToSet(got[s]) <=> Called(n, s)
    <2> SUFFICES ASSUME NEW s \in Subscriptions
                 PROVE  /\ DOMAIN got[s] = 1 .. Len(got[s]) /\ Len(got[s]) \in Nat
                        /\ \A n : n \in ToSet(got[s]) <=> Called(n, s)
      OBVIOUS
    <2>1. got[s] \in Seq(Nat)
      BY <1>1
    <2>2. /\ DOMAIN got[s] = 1 .. Len(got[s]) /\ Len(got[s]) \in Nat
          /\ \A n : n \in ToSet(got[s]) <=> \E i \in 1 .. Len(got[s]) : got[s][i] = n
      BY <2>1, Elements
    <2> QED
      BY <2>2 DEF Called
  <1>4. eventHistory \in Seq(1 .. published)
    <2>1. \A i \in 1 .. Len(eventHistory) : eventHistory[i] \in 1 .. published
      <3> SUFFICES ASSUME NEW i \in 1 .. Len(eventHistory) PROVE eventHistory[i] \in 1 .. published
        OBVIOUS
      <3>1. eventHistory[i] = published - Len(eventHistory) + i /\ Len(eventHistory) <= published
        BY DEF HistoryOK
      <3> QED
        BY <1>1, <1>2, <3>1
    <2>2. eventHistory \in [1 .. Len(eventHistory) -> Nat]
      BY <1>1, LenProperties
    <2>3. eventHistory \in [1 .. Len(eventHistory) -> 1 .. published]
      BY <2>1, <2>2
    <2> DEFINE numbers == 1 .. published
    <2>4. eventHistory \in [1 .. Len(eventHistory) -> numbers]
      BY <2>3
    <2> HIDE DEF numbers
    <2>5. eventHistory \in Seq(numbers)
      BY <1>2, <2>4, SeqDef
    <2> QED
      BY <2>5 DEF numbers
  <1>5. got \in [Subscriptions -> Seq(1 .. published)]
    <2>1. ASSUME NEW s \in Subscriptions PROVE got[s] \in Seq(1 .. published)
      <3>1. got[s] \in [1 .. Len(got[s]) -> Nat]
        BY <1>1, LenProperties
      <3>2. \A i \in 1 .. Len(got[s]) : got[s][i] \in 1 .. published
        BY DEF GotOK
      <3>3. got[s] \in [1 .. Len(got[s]) -> 1 .. published]
        BY <3>1, <3>2
      <3> DEFINE numbers == 1 .. published
      <3>4. got[s] \in [1 .. Len(got[s]) -> numbers]
        BY <3>3
      <3> HIDE DEF numbers
      <3>5. got[s] \in Seq(numbers)
        BY <1>3, <3>4, SeqDef
      <3> QED
        BY <3>5 DEF numbers
    <2> QED
      BY <2>1 DEF GotOK
  <1>6. BusTypeOK
    BY <1>2, <1>4, <1>5 DEF SubscriptionsOK, HistoryOK, TasksOK, UnitsOK, BusTypeOK
  <1>7. DeliveredInOrder
    BY <1>3 DEF CalledInOrder, DeliveredInOrder
  <1>8. EverybodyServed
    <2>1. ASSUME NEW d \in due, d[1] \notin DOMAIN publishing \cup broken
          PROVE  d[1] \in ToSet(got[d[2]])
      <3>1. d[2] \in Subscriptions /\ (Called(d[1], d[2]) \/ Awaited(d[1], d[2]))
        BY <2>1 DEF DueOK
      <3>2. ~Awaited(d[1], d[2])
        BY <2>1 DEF Awaited, TasksOK
      <3> QED
        BY <1>3, <3>1, <3>2
    <2>2. ASSUME NEW s \in Subscriptions, NEW n \in ToSet(got[s]) PROVE <<n, s>> \in due
      <3>1. PICK i \in 1 .. Len(got[s]) : got[s][i] = n
        BY <1>3 DEF Called
      <3> QED
        BY <3>1 DEF GotOK
    <2> QED
      BY <2>1, <2>2 DEF EverybodyServed
  <1>9. HistoryIsNewest
    BY <1>2 DEF HistoryOK, HistoryIsNewest
  <1>10. CountsAgree
    BY DEF UnitsOK
  <1> QED
    BY <1>6, <1>7, <1>8, <1>9, <1>10 DEF BusInv

\* Whatever subscribers do, and however publications overlap or are cancelled: a callback gets
\* the events it wants in order, each once, and once publish() has returned all that were due;
\* the statistics count what was delivered (EventBus.publish, EventSubscription.handle_event).
THEOREM BusServesEverybody == BusSpec => []BusInv
  <1>1. BusInit => BusIndInv
    BY BusInitially
  <1>2. BusIndInv /\ [BusNext]_busVars => BusIndInv'
    <2> SUFFICES ASSUME BusIndInv, [BusNext]_busVars PROVE BusIndInv'
      OBVIOUS
    <2>1. CASE UNCHANGED busVars
      BY <2>1, SMTT(30) DEF busVars, BusIndInv, SubscriptionsOK, HistoryOK, TasksOK, ReadyInOrder, CalledInOrder,
                  GotOK, DueOK, Called, Awaited, UnitsOK, CountsAgree, Units
    <2>2. ASSUME NEW t \in Types, Publish(t) PROVE BusIndInv'
      BY <2>2, PublishKeeps
    <2>3. CASE StartDelivery
      BY <2>3, StartKeeps
    <2> QED
      BY <2>1, <2>2, <2>3, SubscriberKeeps, EndKeeps DEF BusNext
  <1>3. BusIndInv => BusInv
    BY BusShows
  <1> QED
    BY <1>1, <1>2, <1>3, PTL DEF BusSpec

-----------------------------------------------------------------------------
(* The protocols that ask and collect *)

\* What SSDP has found when the first k answers it received are looked at: each of their
\* locations is described once, for the sender of its first answer.
Described(f, answers, k) ==
    /\ DOMAIN f = {answers[i].location : i \in 1 .. k} \ {Nothing}
    /\ \A l \in DOMAIN f :
          /\ f[l].made = 1
          /\ \E i \in 1 .. k : /\ answers[i] = [location |-> l, ip |-> f[l].ip]
                               /\ \A j \in 1 .. i - 1 : answers[j].location # l

\* SNMP: an address that is not being asked is a device exactly if it told anything, and one that
\* is being asked is none yet.
Told ==
    \A a \in Agents :
        IF a \in DOMAIN asking THEN a \notin DOMAIN found /\ answered[a] = asking[a].told
        ELSE a \in DOMAIN found <=> answered[a] # {}

\* The call of a protocol does what is its own only, and in the order of its phases.
PhasesOK ==
    /\ protocol \in {"mdns", "ssdp", "snmp"}
    /\ phase \in {"idle", "collect", "describe", "done"} /\ error \in BOOLEAN
    /\ phase = "describe" => protocol = "ssdp"
    /\ DOMAIN asking # {} => protocol = "snmp" /\ phase = "collect"
    /\ phase = "idle" => asked = {}

ReceivedOK ==
    /\ received \in Seq(Packets \cup Answers) /\ located \in Seq(Answers)
    /\ Len(received) <= MaxReceived /\ target \in 1 .. SearchTargets

Asking == [told : SUBSET Oids, left : SUBSET Oids]

AskingOK ==
    /\ IsFiniteSet(DOMAIN asking) /\ Cardinality(DOMAIN asking) <= MaxConcurrent
    /\ DOMAIN asking \subseteq asked /\ asked \subseteq Agents
    /\ \A a \in DOMAIN asking : asking[a] \in Asking
    /\ answered \in [Agents -> SUBSET Oids]

DescribedInTurn ==
    protocol = "ssdp" =>
        /\ received \in Seq(Answers)
        /\ phase \in {"idle", "collect"} => Described(found, received, 0)
        /\ phase = "describe" =>
              /\ Len(located) <= Len(received)
              /\ \A i \in 1 .. Len(located) : located[i] = received[Len(received) - Len(located) + i]
              /\ Described(found, received, Len(received) - Len(located))
        /\ phase = "done" /\ ~error => Described(found, received, Len(received))

ToldInTurn ==
    protocol = "snmp" =>
        /\ Told
        /\ \A a \in Agents \ asked : answered[a] = {}

ProtIndInv == PhasesOK /\ ReceivedOK /\ AskingOK /\ DescribedInTurn /\ ToldInTurn

\* Nothing is described before the answers are looked at.
LEMMA NoneDescribed == \A f, answers : Described(f, answers, 0) <=> DOMAIN f = {}
  <1>1. 1 .. 0 = {}
    OBVIOUS
  <1> QED
    BY <1>1, Zenon DEF Described

LEMMA ProtInitially == ProtInit => ProtIndInv
  <1> SUFFICES ASSUME ProtInit PROVE ProtIndInv
    OBVIOUS
  <1> USE ProtocolAssumption DEF ProtInit
  <1>1. PhasesOK
    BY DEF PhasesOK
  <1>2. ReceivedOK
    BY DEF ReceivedOK
  <1>3. AskingOK
    BY FS_EmptySet DEF AskingOK
  <1>4. DescribedInTurn
    BY NoneDescribed DEF DescribedInTurn
  <1>5. ToldInTurn
    BY DEF ToldInTurn, Told
  <1> QED
    BY <1>1, <1>2, <1>3, <1>4, <1>5 DEF ProtIndInv

\* An answer has nothing but a location and a sender.
LEMMA AnswerFields == \A a \in Answers : a = [location |-> a.location, ip |-> a.ip]
  BY ProtocolAssumption

LEMMA PhasesNext == ProtIndInv /\ [ProtNext]_protVars => PhasesOK'
  <1> SUFFICES ASSUME ProtIndInv, [ProtNext]_protVars PROVE PhasesOK'
    OBVIOUS
  <1> USE DEF PhasesOK, ProtIndInv
  <1>1. CASE ProtBegins \/ ProtCannotBegin \/ ProtEnds
    BY <1>1 DEF ProtBegins, ProtCannotBegin, ProtEnds, AskingOK
  <1>2. CASE (\E p \in Packets : ReceivePacket(p)) \/ (\E a \in Answers : ReceiveAnswer(a))
    BY <1>2 DEF ReceivePacket, ReceiveAnswer
  <1>3. CASE NextTarget \/ LastTarget
    BY <1>3 DEF NextTarget, LastTarget, AskingOK
  <1>4. CASE SkipAnswer \/ Describe
    BY <1>4 DEF SkipAnswer, Describe
  <1>5. ASSUME NEW a \in Agents, AskAddress(a) \/ QueryOid(a) \/ QueryRaises(a) \/ AddressDone(a)
        PROVE  PhasesOK'
    BY <1>5 DEF AskAddress, QueryOid, QueryRaises, AddressDone, Stops, Put, AskingOK
  <1>6. CASE UNCHANGED protVars
    BY <1>6 DEF protVars
  <1> QED
    BY <1>1, <1>2, <1>3, <1>4, <1>5, <1>6 DEF ProtNext

LEMMA ReceivedNext == ProtIndInv /\ [ProtNext]_protVars => ReceivedOK'
  <1> SUFFICES ASSUME ProtIndInv, [ProtNext]_protVars PROVE ReceivedOK'
    OBVIOUS
  <1>0. ReceivedOK /\ PhasesOK /\ DescribedInTurn
    BY DEF ProtIndInv
  <1> USE <1>0 DEF ReceivedOK
  <1>1. CASE UNCHANGED <<received, target, located>>
    BY <1>1
  <1>2. ASSUME NEW a \in Packets \cup Answers, Len(received) < MaxReceived,
               received' = Append(received, a), UNCHANGED <<target, located>>
        PROVE  ReceivedOK'
    BY <1>2, AppendProperties, ProtocolAssumption
  <1>3. CASE NextTarget
    BY <1>3, ProtocolAssumption DEF NextTarget
  <1>4. CASE LastTarget
    BY <1>4 DEF LastTarget, DescribedInTurn
  <1>5. CASE SkipAnswer \/ Describe
    <2>1. located' = Tail(located) /\ located # <<>> /\ UNCHANGED <<received, target>>
      BY <1>5 DEF SkipAnswer, Describe
    <2> QED
      BY <2>1, HeadTailProperties
  <1>6. [ProtNext]_protVars =>
          \/ UNCHANGED <<received, target, located>> \/ NextTarget \/ LastTarget \/ SkipAnswer \/ Describe
          \/ \E a \in Packets \cup Answers : /\ Len(received) < MaxReceived
                                             /\ received' = Append(received, a)
                                             /\ UNCHANGED <<target, located>>
    BY DEF ProtNext, protVars, ProtBegins, ProtCannotBegin, ProtEnds, ReceivePacket, ReceiveAnswer,
           AskAddress, QueryOid, QueryRaises, AddressDone
  <1> QED
    BY <1>1, <1>2, <1>3, <1>4, <1>5, <1>6

\* A table of what was told and is left to be asked, when one address has answered.
LEMMA OneMoreTold ==
  ASSUME NEW f, NEW x \in DOMAIN f, f[x] \in Asking, NEW o, NEW told \in SUBSET Oids,
         NEW g, g = [f EXCEPT ![x].left = @ \ {o}, ![x].told = @ \cup told]
  PROVE  /\ DOMAIN g = DOMAIN f
         /\ \A b \in DOMAIN f \ {x} : g[b] = f[b]
         /\ g[x] \in Asking
  <1>1. PICK h : h = [f EXCEPT ![x].left = @ \ {o}]
    OBVIOUS
  <1>2. /\ DOMAIN h = DOMAIN f /\ \A b \in DOMAIN f \ {x} : h[b] = f[b]
        /\ h[x] = [f[x] EXCEPT !.left = @ \ {o}]
    BY <1>1
  <1>3. h[x] \in Asking
    BY <1>2 DEF Asking
  <1>4. g = [h EXCEPT ![x].told = @ \cup told]
    BY <1>1
  <1>5. /\ DOMAIN g = DOMAIN h /\ \A b \in DOMAIN h \ {x} : g[b] = h[b]
        /\ g[x] = [h[x] EXCEPT !.told = @ \cup told]
    BY <1>2, <1>4
  <1>6. g[x] \in Asking
    BY <1>3, <1>5 DEF Asking
  <1> QED
    BY <1>2, <1>3, <1>5, <1>6

\* One element more counts at most one more.
LEMMA OneElementMore ==
  ASSUME NEW S, IsFiniteSet(S), NEW x, NEW T, T = S \cup {x}
  PROVE  IsFiniteSet(T) /\ Cardinality(T) \in Nat /\ Cardinality(T) <= Cardinality(S) + 1
  <1>1. Cardinality(S) \in Nat
    BY FS_CardinalityType
  <1> QED
    BY <1>1, FS_AddElement, FS_CardinalityType

LEMMA AskingNext == ProtIndInv /\ [ProtNext]_protVars => AskingOK'
  <1> SUFFICES ASSUME ProtIndInv, [ProtNext]_protVars PROVE AskingOK'
    OBVIOUS
  <1>0. AskingOK /\ Cardinality(DOMAIN asking) \in Nat /\ MaxConcurrent \in Nat
    BY FS_CardinalityType, ProtocolAssumption DEF ProtIndInv, AskingOK
  <1> USE <1>0 DEF AskingOK
  <1>1. CASE UNCHANGED <<asking, asked, answered>>
    BY <1>1
  <1>2. ASSUME NEW a \in Agents, AskAddress(a) PROVE AskingOK'
    <2>1. DOMAIN asking' = DOMAIN asking \cup {a} /\ asked' = asked \cup {a} /\ answered' = answered
      BY <1>2 DEF AskAddress, Put
    <2>2. /\ IsFiniteSet(DOMAIN asking') /\ Cardinality(DOMAIN asking') \in Nat
          /\ Cardinality(DOMAIN asking') <= Cardinality(DOMAIN asking) + 1
      BY <2>1, OneElementMore
    <2>3. Cardinality(DOMAIN asking') <= MaxConcurrent
      BY <1>2, <2>2 DEF AskAddress
    <2>4. \A b \in DOMAIN asking' : asking'[b] = IF b = a THEN [told |-> {}, left |-> Oids] ELSE asking[b]
      BY <1>2 DEF AskAddress, Put
    <2>5. \A b \in DOMAIN asking' : asking'[b] \in Asking
      BY <2>1, <2>4 DEF Asking
    <2> QED
      BY <2>1, <2>2, <2>3, <2>5
  <1>3. ASSUME NEW a \in Agents, QueryOid(a) PROVE AskingOK'
    <2>0. PICK o \in asking[a].left : \E told \in {{}, {o}} :
            /\ asking' = [asking EXCEPT ![a].left = @ \ {o}, ![a].told = @ \cup told]
            /\ answered' = [answered EXCEPT ![a] = @ \cup told]
      BY <1>3 DEF QueryOid
    <2>1. PICK told \in {{}, {o}} :
            /\ asking' = [asking EXCEPT ![a].left = @ \ {o}, ![a].told = @ \cup told]
            /\ answered' = [answered EXCEPT ![a] = @ \cup told]
      BY <2>0
    <2>2. a \in DOMAIN asking /\ asked' = asked /\ asking[a] \in Asking /\ told \in SUBSET Oids
      BY <1>3, <2>0 DEF QueryOid, Asking
    <2>3. /\ DOMAIN asking' = DOMAIN asking
          /\ \A b \in DOMAIN asking \ {a} : asking'[b] = asking[b]
          /\ asking'[a] \in Asking
      BY <2>1, <2>2, OneMoreTold
    <2>4. answered' \in [Agents -> SUBSET Oids]
      BY <2>1, <2>2
    <2> QED
      BY <2>2, <2>3, <2>4
  <1>4. ASSUME NEW a \in Agents, QueryRaises(a) \/ AddressDone(a) PROVE AskingOK'
    <2>1. /\ DOMAIN asking' = DOMAIN asking \ {a} /\ asked' = asked
          /\ \A b \in DOMAIN asking' : asking'[b] = asking[b]
          /\ answered' \in [Agents -> SUBSET Oids]
      BY <1>4 DEF QueryRaises, AddressDone, Stops
    <2>2. IsFiniteSet(DOMAIN asking') /\ Cardinality(DOMAIN asking') <= Cardinality(DOMAIN asking)
      BY <2>1, FS_Subset
    <2>3. Cardinality(DOMAIN asking') <= MaxConcurrent
      <3>1. Cardinality(DOMAIN asking') \in Nat
        BY <2>2, FS_CardinalityType
      <3> QED
        BY <2>2, <3>1
    <2> QED
      BY <2>1, <2>2, <2>3
  <1>5. [ProtNext]_protVars =>
          \/ UNCHANGED <<asking, asked, answered>>
          \/ \E a \in Agents : AskAddress(a) \/ QueryOid(a) \/ QueryRaises(a) \/ AddressDone(a)
    BY DEF ProtNext, protVars, ProtBegins, ProtCannotBegin, ProtEnds, ReceivePacket, ReceiveAnswer,
           NextTarget, LastTarget, SkipAnswer, Describe
  <1> QED
    BY <1>1, <1>2, <1>3, <1>4, <1>5

\* Every address that is asked tells what it tells, and is a device in the end if it told anything.
LEMMA ToldNext == ProtIndInv /\ [ProtNext]_protVars => ToldInTurn'
  <1> SUFFICES ASSUME ProtIndInv, [ProtNext]_protVars, protocol' = "snmp"
               PROVE  Told' /\ \A a \in Agents \ asked' : answered'[a] = {}
    BY DEF ToldInTurn
  <1>0. protocol = "snmp" /\ PhasesOK /\ AskingOK
    BY DEF ProtIndInv, ProtNext, protVars, ProtBegins, ProtCannotBegin, ProtEnds, ReceivePacket, ReceiveAnswer,
           NextTarget, LastTarget, SkipAnswer, Describe, AskAddress, QueryOid, QueryRaises, AddressDone
  <1>00. Told /\ \A a \in Agents \ asked : answered[a] = {}
    BY <1>0 DEF ProtIndInv, ToldInTurn
  <1>1. CASE UNCHANGED <<asking, asked, answered, found>>
    BY <1>1, <1>00 DEF Told
  <1>2. ASSUME NEW a \in Agents, AskAddress(a)
        PROVE  Told' /\ \A b \in Agents \ asked' : answered'[b] = {}
    <2>1. /\ DOMAIN asking' = DOMAIN asking \cup {a} /\ asked' = asked \cup {a} /\ a \notin asked
          /\ answered' = answered /\ found' = found
          /\ \A b \in DOMAIN asking' : asking'[b] = IF b = a THEN [told |-> {}, left |-> Oids] ELSE asking[b]
      BY <1>2 DEF AskAddress, Put
    <2>2. a \notin DOMAIN asking /\ a \notin DOMAIN found /\ answered[a] = {}
      BY <1>0, <1>00, <2>1 DEF Told, AskingOK
    <2> QED
      BY <1>00, <2>1, <2>2 DEF Told
  <1>3. ASSUME NEW a \in Agents, QueryOid(a)
        PROVE  Told' /\ \A b \in Agents \ asked' : answered'[b] = {}
    <2>0. PICK o \in asking[a].left : \E told \in {{}, {o}} :
            /\ asking' = [asking EXCEPT ![a].left = @ \ {o}, ![a].told = @ \cup told]
            /\ answered' = [answered EXCEPT ![a] = @ \cup told]
      BY <1>3 DEF QueryOid
    <2>1. PICK told \in {{}, {o}} :
            /\ asking' = [asking EXCEPT ![a].left = @ \ {o}, ![a].told = @ \cup told]
            /\ answered' = [answered EXCEPT ![a] = @ \cup told]
      BY <2>0
    <2>2. /\ a \in DOMAIN asking /\ asked' = asked /\ found' = found /\ a \in asked
          /\ asking[a] \in Asking /\ told \in SUBSET Oids
      BY <1>0, <1>3, <2>0 DEF QueryOid, AskingOK, Asking
    <2>3. /\ DOMAIN asking' = DOMAIN asking
          /\ \A b \in DOMAIN asking \ {a} : asking'[b] = asking[b]
          /\ asking'[a].told = asking[a].told \cup told
      <3>1. PICK before, after : /\ before = asking /\ after = asking'
                                 /\ after = [before EXCEPT ![a].left = @ \ {o}, ![a].told = @ \cup told]
        BY <2>1
      <3>2. a \in DOMAIN before /\ before[a] \in Asking
        BY <2>2, <3>1
      <3>3. told \in SUBSET Oids /\ after = [before EXCEPT ![a].left = @ \ {o}, ![a].told = @ \cup told]
        BY <2>2, <3>1
      <3> HIDE <1>0
      <3>4. DOMAIN after = DOMAIN before /\ \A b \in DOMAIN before \ {a} : after[b] = before[b]
        BY <3>2, <3>3, OneMoreTold
      <3>5. after[a].told = before[a].told \cup told
        <4>1. PICK between : between = [before EXCEPT ![a].left = @ \ {o}]
          OBVIOUS
        <4>2. DOMAIN between = DOMAIN before /\ between[a] = [before[a] EXCEPT !.left = @ \ {o}]
          BY <3>2, <4>1
        <4>3. between[a] \in Asking /\ between[a].told = before[a].told
          BY <3>2, <4>2 DEF Asking
        <4>4. after = [between EXCEPT ![a].told = @ \cup told]
          BY <3>3, <4>1
        <4>5. after[a] = [between[a] EXCEPT !.told = @ \cup told]
          BY <3>2, <4>2, <4>4
        <4> QED
          BY <4>3, <4>5 DEF Asking
      <3> QED
        BY <3>1, <3>4, <3>5
    <2>4. \A b \in Agents : answered'[b] = IF b = a THEN answered[a] \cup told ELSE answered[b]
      BY <1>0, <2>1 DEF AskingOK
    <2> QED
      BY <1>00, <2>2, <2>3, <2>4 DEF Told
  <1>4. ASSUME NEW a \in Agents, QueryRaises(a)
        PROVE  Told' /\ \A b \in Agents \ asked' : answered'[b] = {}
    <2>1. /\ DOMAIN asking' = DOMAIN asking \ {a} /\ a \in DOMAIN asking
          /\ asked' = asked /\ found' = found
          /\ \A b \in DOMAIN asking' : asking'[b] = asking[b]
          /\ \A b \in Agents : answered'[b] = IF b = a THEN {} ELSE answered[b]
      BY <1>0, <1>4 DEF QueryRaises, Stops, AskingOK
    <2> QED
      BY <1>00, <2>1 DEF Told
  <1>5. ASSUME NEW a \in Agents, AddressDone(a)
        PROVE  Told' /\ \A b \in Agents \ asked' : answered'[b] = {}
    <2>1. /\ DOMAIN asking' = DOMAIN asking \ {a} /\ a \in DOMAIN asking
          /\ asked' = asked /\ answered' = answered
          /\ \A b \in DOMAIN asking' : asking'[b] = asking[b]
          /\ DOMAIN found' = IF asking[a].told = {} THEN DOMAIN found ELSE DOMAIN found \cup {a}
      BY <1>5 DEF AddressDone, Stops, Put
    <2> QED
      BY <1>00, <2>1 DEF Told
  <1>6. \/ UNCHANGED <<asking, asked, answered, found>>
        \/ \E a \in Agents : AskAddress(a) \/ QueryOid(a) \/ QueryRaises(a) \/ AddressDone(a)
    BY <1>0 DEF ProtNext, protVars, ProtBegins, ProtCannotBegin, ProtEnds, ReceivePacket, ReceiveAnswer,
           NextTarget, LastTarget, SkipAnswer, Describe, PhasesOK
  <1> QED
    BY <1>1, <1>2, <1>3, <1>4, <1>5, <1>6

\* A location that is known, or none, adds nothing.
LEMMA SkippedIsDescribed ==
  ASSUME NEW f, NEW answers, NEW k \in Nat, Described(f, answers, k),
         answers[k + 1].location = Nothing \/ answers[k + 1].location \in DOMAIN f
  PROVE  Described(f, answers, k + 1)
  <1>1. 1 .. k + 1 = (1 .. k) \cup {k + 1}
    OBVIOUS
  <1>2. DOMAIN f = {answers[i].location : i \in 1 .. k + 1} \ {Nothing}
    BY <1>1 DEF Described
  <1>3. \A i \in 1 .. k : i \in 1 .. k + 1
    OBVIOUS
  <1> QED
    BY <1>2, <1>3 DEF Described

\* A new location is described for its sender, whose answer is the first with it.
LEMMA NewIsDescribed ==
  ASSUME NEW f, NEW answers, NEW k \in Nat, Described(f, answers, k), NEW l, NEW ip, NEW g, NEW d,
         answers[k + 1] = [location |-> l, ip |-> ip], l # Nothing, l \notin DOMAIN f,
         g = Put(f, l, [ip |-> ip, description |-> d, made |-> 1])
  PROVE  Described(g, answers, k + 1)
  <1>1. 1 .. k + 1 = (1 .. k) \cup {k + 1} /\ answers[k + 1].location = l
    OBVIOUS
  <1>2. /\ DOMAIN g = DOMAIN f \cup {l} /\ \A m \in DOMAIN f : g[m] = f[m]
        /\ g[l].made = 1 /\ g[l].ip = ip
    BY DEF Put
  <1>3. DOMAIN g = {answers[i].location : i \in 1 .. k + 1} \ {Nothing}
    BY <1>1, <1>2 DEF Described
  <1>4. \A j \in 1 .. k : answers[j].location # l
    BY DEF Described
  <1>5. ASSUME NEW m \in DOMAIN g
        PROVE  /\ g[m].made = 1
               /\ \E i \in 1 .. k + 1 : /\ answers[i] = [location |-> m, ip |-> g[m].ip]
                                        /\ \A j \in 1 .. i - 1 : answers[j].location # m
    <2>1. CASE m = l
      <3>1. (k + 1) \in 1 .. k + 1 /\ 1 .. (k + 1) - 1 = 1 .. k
        OBVIOUS
      <3>2. answers[k + 1] = [location |-> m, ip |-> g[m].ip]
        BY <1>2, <2>1
      <3> QED
        BY <1>2, <1>4, <2>1, <3>1, <3>2
    <2>2. CASE m # l
      <3>1. m \in DOMAIN f /\ g[m] = f[m]
        BY <1>2, <2>2
      <3>2. /\ f[m].made = 1
            /\ \E i \in 1 .. k : /\ answers[i] = [location |-> m, ip |-> f[m].ip]
                                 /\ \A j \in 1 .. i - 1 : answers[j].location # m
        BY <3>1 DEF Described
      <3> QED
        BY <1>1, <3>1, <3>2
    <2> QED
      BY <2>1, <2>2
  <1> QED
    BY <1>3, <1>5 DEF Described

LEMMA DescribedNext == ProtIndInv /\ [ProtNext]_protVars => DescribedInTurn'
  <1> SUFFICES ASSUME ProtIndInv, [ProtNext]_protVars, protocol' = "ssdp"
               PROVE  /\ received' \in Seq(Answers)
                      /\ phase' \in {"idle", "collect"} => Described(found', received', 0)
                      /\ phase' = "describe" =>
                            /\ Len(located') <= Len(received')
                            /\ \A i \in 1 .. Len(located') :
                                  located'[i] = received'[Len(received') - Len(located') + i]
                            /\ Described(found', received', Len(received') - Len(located'))
                      /\ phase' = "done" /\ ~error' => Described(found', received', Len(received'))
    BY DEF DescribedInTurn
  <1>0. protocol = "ssdp" /\ PhasesOK /\ AskingOK /\ ReceivedOK
    BY DEF ProtIndInv, ProtNext, protVars, ProtBegins, ProtCannotBegin, ProtEnds, ReceivePacket, ReceiveAnswer,
           NextTarget, LastTarget, SkipAnswer, Describe, AskAddress, QueryOid, QueryRaises, AddressDone
  <1>1. /\ received \in Seq(Answers) /\ Len(received) \in Nat /\ located \in Seq(Answers) /\ Len(located) \in Nat
        /\ phase \in {"idle", "collect"} => Described(found, received, 0)
        /\ phase = "describe" =>
              /\ Len(located) <= Len(received)
              /\ \A i \in 1 .. Len(located) : located[i] = received[Len(received) - Len(located) + i]
              /\ Described(found, received, Len(received) - Len(located))
        /\ phase = "done" /\ ~error => Described(found, received, Len(received))
    BY <1>0, LenProperties DEF ProtIndInv, DescribedInTurn, ReceivedOK
  <1>2. CASE UNCHANGED <<received, located, phase, found, error>>
    BY <1>1, <1>2
  <1>3. CASE ProtBegins \/ ProtCannotBegin
    BY <1>1, <1>3 DEF ProtBegins, ProtCannotBegin
  <1>4. CASE ProtEnds
    <2>1. /\ phase = "describe" /\ Len(located) = 0 /\ phase' = "done"
          /\ received' = received /\ found' = found
      BY <1>0, <1>4 DEF ProtEnds
    <2>2. Len(received) - Len(located) = Len(received)
      BY <1>1, <2>1
    <2> QED
      BY <1>1, <2>1, <2>2
  <1>5. ASSUME NEW a \in Answers, ReceiveAnswer(a)
        PROVE  received' \in Seq(Answers) /\ Described(found', received', 0) /\ phase' = "collect"
    BY <1>1, <1>5, AppendProperties, NoneDescribed DEF ReceiveAnswer
  <1>6. CASE LastTarget
    <2>1. /\ phase = "collect" /\ phase' = "describe"
          /\ received' = received /\ located' = received /\ found' = found
      BY <1>6 DEF LastTarget
    <2>2. \A i \in 1 .. Len(received) : i = Len(received) - Len(received) + i
      BY <1>1
    <2>3. Len(received) - Len(received) = 0 /\ Len(received) <= Len(received)
      BY <1>1
    <2> QED
      BY <1>1, <2>1, <2>2, <2>3
  <1>7. ASSUME phase = "describe", located # <<>>, located' = Tail(located),
               UNCHANGED <<phase, received>>,
               Described(found', received, Len(received) - Len(located) + 1)
        PROVE  /\ received' \in Seq(Answers) /\ phase' = "describe"
               /\ Len(located') <= Len(received')
               /\ \A i \in 1 .. Len(located') : located'[i] = received'[Len(received') - Len(located') + i]
               /\ Described(found', received', Len(received') - Len(located'))
    <2>1. /\ Len(located') = Len(located) - 1 /\ Len(located) > 0
          /\ \A i \in 1 .. Len(located) - 1 : located'[i] = located[i + 1]
      BY <1>1, <1>7, HeadTailProperties
    <2>2. Len(received') - Len(located') = Len(received) - Len(located) + 1
      BY <1>1, <1>7, <2>1
    <2>3. ASSUME NEW i \in 1 .. Len(located')
          PROVE  located'[i] = received'[Len(received') - Len(located') + i]
      <3>1. i + 1 \in 1 .. Len(located) /\ i \in 1 .. Len(located) - 1
        BY <1>1, <2>1
      <3>2. located'[i] = received[Len(received) - Len(located) + (i + 1)]
        BY <1>1, <1>7, <2>1, <3>1
      <3>3. Len(received) - Len(located) + (i + 1) = Len(received) - Len(located) + 1 + i
        BY <1>1
      <3> QED
        BY <1>7, <2>2, <3>2, <3>3
    <2>4. Len(located') <= Len(received')
      BY <1>1, <1>7, <2>1
    <2> QED
      BY <1>1, <1>7, <2>2, <2>3, <2>4
  <1>8. ASSUME phase = "describe", located # <<>>
        PROVE  /\ Len(received) - Len(located) \in Nat
               /\ Head(located) \in Answers
               /\ Head(located) = received[Len(received) - Len(located) + 1]
    <2>1. Head(located) = located[1] /\ Len(located) > 0 /\ Head(located) \in Answers
      BY <1>1, <1>8, HeadTailProperties
    <2>2. 1 \in 1 .. Len(located) /\ Len(received) - Len(located) \in Nat
      BY <1>1, <1>8, <2>1
    <2> QED
      BY <1>1, <1>8, <2>1, <2>2
  <1>9. CASE SkipAnswer
    <2>1. /\ phase = "describe" /\ located # <<>> /\ Skips(Head(located)) /\ located' = Tail(located)
          /\ UNCHANGED <<phase, received, found>>
      BY <1>9 DEF SkipAnswer
    <2>2. PICK k \in Nat : k = Len(received) - Len(located)
      BY <1>8, <2>1
    <2>3. Described(found, received, k + 1)
      BY <1>1, <1>8, <2>1, <2>2, SkippedIsDescribed DEF Skips
    <2>4. Described(found', received, Len(received) - Len(located) + 1)
      BY <2>1, <2>2, <2>3
    <2> QED
      BY <1>7, <2>1, <2>4
  <1>10. CASE Describe
    <2>1. /\ phase = "describe" /\ located # <<>> /\ ~Skips(Head(located)) /\ located' = Tail(located)
          /\ UNCHANGED <<phase, received>>
      BY <1>10 DEF Describe
    <2>2. PICK k \in Nat : k = Len(received) - Len(located)
      BY <1>8, <2>1
    <2>3. PICK a \in Answers : a = Head(located)
      BY <1>8, <2>1
    <2>4. a.location # Nothing /\ a.location \notin DOMAIN found /\ received[k + 1] = a
      BY <1>8, <2>1, <2>2, <2>3 DEF Skips
    <2>5. PICK d : found' = Put(found, a.location, [ip |-> a.ip, description |-> d, made |-> 1])
      BY <1>10, <2>3, <2>4 DEF Describe
    <2>6. received[k + 1] = [location |-> a.location, ip |-> a.ip]
      BY <2>4, AnswerFields
    <2>7. Described(found, received, k)
      BY <1>1, <2>1, <2>2
    <2>8. Described(found', received, k + 1)
      BY <2>4, <2>5, <2>6, <2>7, NewIsDescribed
    <2> QED
      BY <1>7, <2>1, <2>2, <2>8
  <1>11. \/ UNCHANGED <<received, located, phase, found, error>>
         \/ ProtBegins \/ ProtCannotBegin \/ ProtEnds \/ LastTarget \/ SkipAnswer \/ Describe
         \/ \E a \in Answers : ReceiveAnswer(a)
    BY <1>0 DEF ProtNext, protVars, ReceivePacket, NextTarget, AskAddress, QueryOid, QueryRaises, AddressDone,
           PhasesOK
  <1> QED
    BY <1>1, <1>2, <1>3, <1>4, <1>5, <1>6, <1>7, <1>9, <1>10, <1>11

LEMMA ProtNextKeeps == ProtIndInv /\ [ProtNext]_protVars => ProtIndInv'
  BY PhasesNext, ReceivedNext, AskingNext, DescribedNext, ToldNext DEF ProtIndInv

\* Whatever is received, asked and told in whatever order: when SSDP is done each location that
\* answered is one device, of the sender of its first answer; when SNMP is done the devices are
\* the addresses that told anything; and no more than max_concurrent addresses are asked at a time
\* (SSDPDiscovery.discover, SNMPDiscovery.discover).
THEOREM AnswersAreUsed == ProtSpec => [](ProtTypeOK /\ OncePerLocation /\ EveryAnswerCounts)
  <1>1. ProtIndInv => ProtTypeOK /\ OncePerLocation /\ EveryAnswerCounts
    <2> SUFFICES ASSUME ProtIndInv PROVE ProtTypeOK /\ OncePerLocation /\ EveryAnswerCounts
      OBVIOUS
    <2>1. ProtTypeOK
      BY DEF ProtIndInv, ProtTypeOK, PhasesOK, ReceivedOK, AskingOK, Asking
    <2>2. OncePerLocation
      <3> SUFFICES ASSUME protocol = "ssdp", phase = "done", ~error PROVE OncePerLocation
        BY DEF OncePerLocation
      <3>1. received \in Seq(Answers) /\ Described(found, received, Len(received))
        BY DEF ProtIndInv, DescribedInTurn
      <3>2. DOMAIN received = 1 .. Len(received)
        BY <3>1
      <3> QED
        BY <3>1, <3>2 DEF Described, OncePerLocation
    <2>3. EveryAnswerCounts
      BY DEF ProtIndInv, ToldInTurn, Told, PhasesOK, EveryAnswerCounts
    <2> QED
      BY <2>1, <2>2, <2>3
  <1> QED
    BY <1>1, ProtInitially, ProtNextKeeps, PTL DEF ProtSpec

\* What mDNS has learned of a device it keeps: a name stays, and services and capabilities are only
\* added, whatever packets follow (MDNSDiscovery._collect_responses).
THEOREM KnowledgeGrows == ProtSpec => DevicesGrow
  <1>1. ProtIndInv /\ [ProtNext]_protVars
          => [protocol = "mdns" =>
                \A ip \in DOMAIN found :
                    /\ ip \in DOMAIN found'
                    /\ found[ip].hostname # Nothing => found'[ip].hostname = found[ip].hostname
                    /\ found[ip].services \subseteq found'[ip].services
                    /\ found[ip].txt \subseteq found'[ip].txt]_protVars
    <2> SUFFICES ASSUME ProtIndInv, ProtNext, protocol = "mdns", NEW ip \in DOMAIN found
                 PROVE  /\ ip \in DOMAIN found'
                        /\ found[ip].hostname # Nothing => found'[ip].hostname = found[ip].hostname
                        /\ found[ip].services \subseteq found'[ip].services
                        /\ found[ip].txt \subseteq found'[ip].txt
      OBVIOUS
    <2>1. CASE found' = found
      BY <2>1
    <2>2. ASSUME NEW p \in Packets, ReceivePacket(p)
          PROVE  ip \in DOMAIN found' /\ \/ found'[ip] = found[ip]
                                         \/ \E new : found'[ip] = Merged(found[ip], new)
      <3>1. PICK new : found' = [i \in DOMAIN found \cup DOMAIN new |->
                                    IF i \notin DOMAIN new THEN found[i]
                                    ELSE IF i \notin DOMAIN found THEN new[i]
                                    ELSE Merged(found[i], new[i])]
        BY <2>2 DEF ReceivePacket
      <3> QED
        BY <3>1
    <2>3. \A old, new : /\ old.hostname # Nothing => Merged(old, new).hostname = old.hostname
                        /\ old.services \subseteq Merged(old, new).services
                        /\ old.txt \subseteq Merged(old, new).txt
      BY DEF Merged
    <2>4. found' = found \/ \E p \in Packets : ReceivePacket(p)
      BY DEF ProtIndInv, PhasesOK, ProtNext, ProtBegins, ProtCannotBegin, ProtEnds, ReceiveAnswer, NextTarget,
             LastTarget, SkipAnswer, Describe, AskAddress, QueryOid, QueryRaises, AddressDone
    <2> QED
      BY <2>1, <2>2, <2>3, <2>4
  <1> QED
    BY <1>1, ProtInitially, ProtNextKeeps, PTL DEF ProtSpec, DevicesGrow

-----------------------------------------------------------------------------
(* What is made of a packet *)

\* What a packet's records are made of, and the groups they can make.
FieldsOf(p, field) == {p[i][field] : i \in DOMAIN p}
Group(p) == [hostname : FieldsOf(p, "name") \cup {Nothing}, services : SUBSET FieldsOf(p, "name"),
             ports : SUBSET FieldsOf(p, "port"), txt : SUBSET FieldsOf(p, "data")]
GroupsOf(p) == UNION {[D -> Group(p)] : D \in SUBSET FieldsOf(p, "ip")}

\* The addresses and services of the first k records of a packet.
IsAddress(p, i) == p[i].kind = "A"
IsService(p, i) == p[i].kind = "SRV" /\ HasAddress(p, p[i].target)
AddressesTo(p, k) ==
    {p[i].ip : i \in {j \in 1 .. k : IsAddress(p, j)}}
    \cup {AddressIn(p, p[i].target) : i \in {j \in 1 .. k : IsService(p, j)}}
ServicesTo(p, ip, k) ==
    {p[i].name : i \in {j \in 1 .. k : IsService(p, j) /\ AddressIn(p, p[j].target) = ip}}

\* Groups that tell of the first k records of a packet.
TellOf(g, p, k) == DOMAIN g = AddressesTo(p, k) /\ \A ip \in DOMAIN g : g[ip].services = ServicesTo(p, ip, k)

\* A target that has an address has that of an A record.
LEMMA AddressIsOfRecord ==
  ASSUME NEW S, NEW p \in Seq(S), NEW name, HasAddress(p, name)
  PROVE  \E i \in DOMAIN p : IsAddress(p, i) /\ p[i].name = name /\ AddressIn(p, name) = p[i].ip
  <1> DEFINE T == {i \in DOMAIN p : p[i].kind = "A" /\ p[i].name = name}
  <1>1. DOMAIN p = 1 .. Len(p) /\ Len(p) \in Nat
    OBVIOUS
  <1>2. T \in SUBSET Nat /\ T # {}
    BY <1>1 DEF HasAddress
  <1>3. PICK x \in T : \A y \in T : x <= y
    <2> HIDE DEF T
    <2> QED
      BY <1>2, LeastOfSome
  <1>4. x \in DOMAIN p /\ p[x].kind = "A" /\ p[x].name = name
        /\ \A j \in 1 .. x - 1 : ~(p[j].kind = "A" /\ p[j].name = name)
    BY <1>1, <1>3
  <1> DEFINE First(i) == /\ p[i].kind = "A" /\ p[i].name = name
                         /\ \A j \in 1 .. i - 1 : ~(p[j].kind = "A" /\ p[j].name = name)
             it == CHOOSE i \in DOMAIN p : First(i)
  <1>5. it \in DOMAIN p /\ First(it)
    <2>1. \E i \in DOMAIN p : First(i)
      BY <1>4
    <2> HIDE DEF First
    <2> QED
      BY <2>1
  <1>6. AddressIn(p, name) = p[it].ip
    BY DEF AddressIn
  <1> HIDE DEF it
  <1> QED
    BY <1>5, <1>6 DEF IsAddress

LEMMA OneMoreRecord ==
  ASSUME NEW k \in Nat \ {0}, NEW p
  PROVE  /\ AddressesTo(p, k) = AddressesTo(p, k - 1)
               \cup {i \in {p[k].ip} : IsAddress(p, k)}
               \cup {i \in {AddressIn(p, p[k].target)} : IsService(p, k)}
         /\ \A ip : ServicesTo(p, ip, k) = ServicesTo(p, ip, k - 1)
               \cup {n \in {p[k].name} : IsService(p, k) /\ AddressIn(p, p[k].target) = ip}
  <1>1. 1 .. k = (1 .. k - 1) \cup {k}
    OBVIOUS
  <1> DEFINE I == 1 .. k
             J == 1 .. k - 1
             Telling(K, ip) == {p[i].name : i \in {j \in K : IsService(p, j) /\ AddressIn(p, p[j].target) = ip}}
             Having(K) == {p[i].ip : i \in {j \in K : IsAddress(p, j)}}
             To(K) == {AddressIn(p, p[i].target) : i \in {j \in K : IsService(p, j)}}
  <1>2. I = J \cup {k}
    BY <1>1
  <1>3. /\ AddressesTo(p, k) = Having(I) \cup To(I) /\ AddressesTo(p, k - 1) = Having(J) \cup To(J)
        /\ \A ip : ServicesTo(p, ip, k) = Telling(I, ip) /\ ServicesTo(p, ip, k - 1) = Telling(J, ip)
    BY DEF AddressesTo, ServicesTo
  <1> HIDE DEF I, J
  <1>4. Having(I) = Having(J) \cup {i \in {p[k].ip} : IsAddress(p, k)}
    BY <1>2
  <1>5. To(I) = To(J) \cup {i \in {AddressIn(p, p[k].target)} : IsService(p, k)}
    BY <1>2
  <1>6. ASSUME NEW ip
        PROVE  Telling(I, ip) = Telling(J, ip) \cup {n \in {p[k].name} : IsService(p, k) /\ AddressIn(p, p[k].target) = ip}
    BY <1>2
  <1> HIDE DEF Telling, Having, To
  <1> QED
    BY <1>3, <1>4, <1>5, <1>6

\* What is put into groups is there, and the others stay.
LEMMA PutInGroups ==
  ASSUME NEW p, NEW g \in GroupsOf(p), NEW ip \in FieldsOf(p, "ip"), NEW v \in Group(p)
  PROVE  Put(g, ip, v) \in GroupsOf(p)
  <1>1. DOMAIN g \cup {ip} \in SUBSET FieldsOf(p, "ip") /\ \A i \in DOMAIN g : g[i] \in Group(p)
    BY DEF GroupsOf
  <1>2. Put(g, ip, v) \in [DOMAIN g \cup {ip} -> Group(p)]
    BY <1>1 DEF Put
  <1> QED
    BY <1>1, <1>2 DEF GroupsOf

LEMMA GroupOfType ==
  ASSUME NEW p, NEW g \in GroupsOf(p), NEW ip
  PROVE  GroupOf(g, ip) \in Group(p)
  <1>1. \A i \in DOMAIN g : g[i] \in Group(p)
    BY DEF GroupsOf
  <1>2. NoGroup \in Group(p)
    BY DEF NoGroup, Group
  <1> QED
    BY <1>1, <1>2 DEF GroupOf

LEMMA RecordFields ==
  ASSUME NEW p, NEW k \in DOMAIN p
  PROVE  /\ p[k].name \in FieldsOf(p, "name") /\ p[k].port \in FieldsOf(p, "port")
         /\ p[k].data \in FieldsOf(p, "data") /\ p[k].ip \in FieldsOf(p, "ip")
  BY DEF FieldsOf

\* A record makes groups of groups, which tell of it, too.
LEMMA GroupedTells ==
  ASSUME NEW S, NEW p \in Seq(S), NEW k \in 1 .. Len(p), p[k].kind \in {"A", "SRV", "TXT"}, NEW g \in GroupsOf(p)
  PROVE  /\ Grouped(p, g, p[k]) \in GroupsOf(p)
         /\ TellOf(g, p, k - 1) => TellOf(Grouped(p, g, p[k]), p, k)
  <1> DEFINE r == p[k]
             new == Grouped(p, g, p[k])
  <1>0. k \in DOMAIN p /\ k \in Nat \ {0}
    OBVIOUS
  <1>1. /\ r.name \in FieldsOf(p, "name") /\ r.port \in FieldsOf(p, "port")
        /\ r.data \in FieldsOf(p, "data") /\ r.ip \in FieldsOf(p, "ip")
    BY <1>0, RecordFields
  <1>2. \A ip : GroupOf(g, ip) \in Group(p)
    BY GroupOfType
  <1>3. \A ip \in DOMAIN g : g[ip] \in Group(p) /\ ip \in FieldsOf(p, "ip")
    BY DEF GroupsOf
  <1>a. /\ AddressesTo(p, k) = AddressesTo(p, k - 1)
               \cup {i \in {r.ip} : IsAddress(p, k)}
               \cup {i \in {AddressIn(p, r.target)} : IsService(p, k)}
        /\ \A ip : ServicesTo(p, ip, k) = ServicesTo(p, ip, k - 1)
               \cup {n \in {r.name} : IsService(p, k) /\ AddressIn(p, r.target) = ip}
    BY <1>0, OneMoreRecord
  <1>b. \A ip : ip \notin AddressesTo(p, k - 1) => ServicesTo(p, ip, k - 1) = {}
    BY DEF AddressesTo, ServicesTo
  <1> HIDE DEF r
  <1>4. CASE r.kind = "A"
    <2>1. new = Put(g, r.ip, [GroupOf(g, r.ip) EXCEPT !.hostname = r.name])
      BY <1>4 DEF r, Grouped
    <2>2. PICK v : v = [GroupOf(g, r.ip) EXCEPT !.hostname = r.name]
      OBVIOUS
    <2>3. v \in Group(p) /\ v.services = GroupOf(g, r.ip).services
      BY <1>1, <1>2, <2>2 DEF Group
    <2>4. IsAddress(p, k) /\ ~IsService(p, k)
      BY <1>4 DEF IsAddress, IsService, r
    <2>5. new \in GroupsOf(p)
      BY <1>1, <2>1, <2>2, <2>3, PutInGroups
    <2>6. ASSUME TellOf(g, p, k - 1) PROVE TellOf(new, p, k)
      <3>1. DOMAIN new = AddressesTo(p, k)
        BY <1>a, <2>1, <2>4, <2>6 DEF TellOf, Put
      <3>2. \A ip \in DOMAIN new : new[ip].services = ServicesTo(p, ip, k - 1)
        <4>1. \A ip : GroupOf(g, ip).services = ServicesTo(p, ip, k - 1)
          BY <1>b, <2>6 DEF TellOf, GroupOf, NoGroup
        <4>2. \A ip \in DOMAIN new : new[ip] = IF ip = r.ip THEN v ELSE g[ip]
          BY <2>1, <2>2 DEF Put
        <4>3. \A ip \in DOMAIN new : ip = r.ip \/ ip \in DOMAIN g
          BY <2>1 DEF Put
        <4> QED
          BY <2>3, <2>6, <4>1, <4>2, <4>3 DEF TellOf
      <3>3. \A ip : ServicesTo(p, ip, k) = ServicesTo(p, ip, k - 1)
        BY <1>a, <2>4
      <3>4. PICK h : h = new
        OBVIOUS
      <3>5. \A ip \in DOMAIN h : h[ip].services = ServicesTo(p, ip, k)
        <4>1. \A ip \in DOMAIN h : h[ip].services = ServicesTo(p, ip, k - 1)
          BY <3>2, <3>4
        <4> HIDE DEF new
        <4> QED
          BY <3>3, <4>1
      <3>6. TellOf(h, p, k)
        BY <3>1, <3>4, <3>5 DEF TellOf
      <3> QED
        BY <3>4, <3>6
    <2> QED
      BY <2>5, <2>6
  <1>5. CASE r.kind = "SRV" /\ ~HasAddress(p, r.target)
    <2>1. new = g
      BY <1>5 DEF r, Grouped
    <2>2. ~IsAddress(p, k) /\ ~IsService(p, k)
      BY <1>5 DEF IsAddress, IsService, r
    <2> QED
      BY <1>a, <2>1, <2>2, ZenonT(40) DEF TellOf
  <1>6. CASE r.kind = "SRV" /\ HasAddress(p, r.target)
    <2> DEFINE at == AddressIn(p, r.target)
    <2>1. new = Put(g, at, [GroupOf(g, at) EXCEPT !.services = @ \cup {r.name}, !.ports = @ \cup ({r.port} \ {0})])
      BY <1>6 DEF r, Grouped
    <2>2. PICK v : v = [GroupOf(g, at) EXCEPT !.services = @ \cup {r.name}, !.ports = @ \cup ({r.port} \ {0})]
      OBVIOUS
    <2>3. v \in Group(p) /\ v.services = GroupOf(g, at).services \cup {r.name}
      BY <1>1, <1>2, <2>2 DEF Group
    <2>4. ~IsAddress(p, k) /\ IsService(p, k)
      BY <1>6 DEF IsAddress, IsService, r
    <2>5. at \in FieldsOf(p, "ip")
      BY <1>6, AddressIsOfRecord, RecordFields
    <2> HIDE DEF at
    <2>6. new \in GroupsOf(p)
      BY <2>1, <2>2, <2>3, <2>5, PutInGroups
    <2>7. ASSUME TellOf(g, p, k - 1) PROVE TellOf(new, p, k)
      <3>1. DOMAIN new = AddressesTo(p, k)
        BY <1>a, <2>1, <2>4, <2>7 DEF TellOf, Put, at
      <3>2. ASSUME NEW ip \in DOMAIN new PROVE new[ip].services = ServicesTo(p, ip, k)
        <4>1. \A i : GroupOf(g, i).services = ServicesTo(p, i, k - 1)
          BY <1>b, <2>7 DEF TellOf, GroupOf, NoGroup
        <4>2. new[ip] = IF ip = at THEN v ELSE g[ip]
          BY <2>1, <2>2, <3>2 DEF Put
        <4>3. ip = at \/ ip \in DOMAIN g
          BY <2>1, <3>2 DEF Put
        <4>4. ServicesTo(p, ip, k) = ServicesTo(p, ip, k - 1) \cup {n \in {r.name} : at = ip}
          BY <1>a, <2>4 DEF at
        <4>5. CASE ip = at
          BY <2>3, <4>1, <4>2, <4>4, <4>5
        <4>6. CASE ip # at
          BY <2>7, <4>2, <4>3, <4>4, <4>6 DEF TellOf
        <4> QED
          BY <4>5, <4>6
      <3> QED
        BY <3>1, <3>2 DEF TellOf
    <2> QED
      BY <2>6, <2>7
  <1>7. CASE r.kind = "TXT"
    <2>1. new = [ip \in DOMAIN g |-> IF r.name \in g[ip].services
                                     THEN [g[ip] EXCEPT !.txt = @ \cup {r.data}] ELSE g[ip]]
      BY <1>7 DEF r, Grouped
    <2>2. ~IsAddress(p, k) /\ ~IsService(p, k)
      BY <1>7 DEF IsAddress, IsService, r
    <2>3. \A v \in Group(p) : [v EXCEPT !.txt = @ \cup {r.data}] \in Group(p)
                              /\ [v EXCEPT !.txt = @ \cup {r.data}].services = v.services
      BY <1>1 DEF Group
    <2>4. \A ip \in DOMAIN g : new[ip] \in Group(p) /\ new[ip].services = g[ip].services
      BY <1>3, <2>1, <2>3
    <2>5. DOMAIN new = DOMAIN g
      BY <2>1
    <2>6. new \in GroupsOf(p)
      <3>1. DOMAIN g \in SUBSET FieldsOf(p, "ip")
        BY <1>3
      <3>2. new \in [DOMAIN g -> Group(p)]
        BY <1>3, <2>1, <2>3
      <3> QED
        BY <3>1, <3>2 DEF GroupsOf
    <2>7. AddressesTo(p, k) = AddressesTo(p, k - 1) /\ \A ip : ServicesTo(p, ip, k) = ServicesTo(p, ip, k - 1)
      BY <1>a, <2>2
    <2> HIDE DEF new
    <2>8. TellOf(g, p, k - 1) => TellOf(new, p, k)
      BY <2>4, <2>5, <2>7 DEF TellOf
    <2> QED
      BY <2>6, <2>8 DEF new
  <1> QED
    BY <1>4, <1>5, <1>6, <1>7 DEF r

\* What is made of a packet tells of all its records.
LEMMA PacketTells ==
  ASSUME NEW p \in Packets
  PROVE  CreateDevices(p) \in GroupsOf(p) /\ TellOf(CreateDevices(p), p, Len(p))
  <1> DEFINE n == Len(p)
             T == 1 .. n
             R == GroupsOf(p)
             none == [ip \in {} |-> NoGroup]
             step == [y \in T \X R |-> Grouped(p, y[2], p[y[1]])]
             top == [s \in SUBSET T |-> Max(s)]
  <1>1. p \in Seq(ToSet(p)) /\ n \in Nat /\ DOMAIN p = T /\ \A i \in T : p[i].kind \in {"A", "SRV", "TXT"}
    <2>1. p \in Seq(ToSet(p)) /\ \A i \in DOMAIN p : p[i].kind \in {"A", "SRV", "TXT"}
      BY ProtocolAssumption
    <2> QED
      BY <2>1
  <1>2. \A k \in T : \A g \in R : /\ Grouped(p, g, p[k]) \in R
                                  /\ TellOf(g, p, k - 1) => TellOf(Grouped(p, g, p[k]), p, k)
    BY <1>1, GroupedTells
  <1>3. none \in R
    <2>1. {} \in SUBSET FieldsOf(p, "ip") /\ none \in [{} -> Group(p)]
      OBVIOUS
    <2> QED
      BY <2>1 DEF GroupsOf
  <1>4. step \in [T \X R -> R]
    BY <1>2
  <1>5. Tops(top, n)
    <2>1. ASSUME NEW s \in SUBSET T, s # {} PROVE \E x \in s : \A y \in s : x >= y
      <3>1. IsFiniteSet(T)
        BY <1>1, FS_Interval
      <3> QED
        BY <1>1, <2>1, GreatestOfSome
    <2> QED
      BY <2>1 DEF Tops, Max
  <1>6. PICK f \in [SUBSET T -> R], h \in [0 .. n -> R] :
           Folded(f, T, none, step, top) /\ Steps(h, n, none, step) /\ f[T] = h[n]
    <2>1. n \in Nat
      BY <1>1
    <2>2. step \in [(1 .. n) \X R -> R]
      BY <1>4
    <2> HIDE DEF n, R, none, step, top
    <2>3. HasFold(n, R, none, step, top)
      BY <1>3, <1>5, <2>1, <2>2, SequenceFold
    <2> QED
      BY <2>3 DEF HasFold
  <1>7. \A s \in SUBSET T : s # {} => top[s] = Max(s) /\ Max(s) \in T /\ s \ {Max(s)} \in SUBSET T
    BY <1>5 DEF Tops
  <1>8. ASSUME NEW s \in SUBSET T
        PROVE  f[s] = IF s = {} THEN none ELSE Grouped(p, f[s \ {Max(s)}], p[Max(s)])
    <2>1. s # {} => f[s \ {Max(s)}] \in R
      BY <1>7
    <2>2. \A k \in T, g \in R : step[<<k, g>>] = Grouped(p, g, p[k])
      OBVIOUS
    <2> HIDE DEF step, T, R, top, none
    <2> QED
      BY <1>6, <1>7, <2>1, <2>2 DEF Folded
  <1> DEFINE Fold(it) == [s \in SUBSET T |-> IF s = {} THEN none ELSE Grouped(p, it[s \ {Max(s)}], p[Max(s)])]
             it == CHOOSE it : it = Fold(it)
  <1>9. it = Fold(it)
    <2>1. f = Fold(f)
      BY <1>8
    <2> HIDE DEF Fold
    <2> QED
      BY <2>1
  <1>10. CreateDevices(p) = it[T]
    BY <1>1 DEF CreateDevices, FoldLeft, MapThenFoldSet
  <1>11. it[T] = f[T]
    <2>1. ASSUME NEW s \in SUBSET T, s # {} => it[s \ {top[s]}] = f[s \ {top[s]}] PROVE it[s] = f[s]
      <3>1. it[s] = IF s = {} THEN none ELSE Grouped(p, it[s \ {Max(s)}], p[Max(s)])
        <4> HIDE DEF it
        <4> QED
          BY <1>9
      <3> HIDE DEF it, top
      <3> QED
        BY <1>7, <1>8, <2>1, <3>1
    <2> HIDE DEF it, top
    <2>2. SameFold(it, f, T, top)
      BY <2>1 DEF SameFold
    <2>3. Picks(top, T)
      BY <1>5 DEF Picks, Tops
    <2>4. IsFiniteSet(T)
      BY <1>1, FS_Interval
    <2> HIDE DEF T
    <2> QED
      BY <2>2, <2>3, <2>4, FoldsAgree
  <1>12. CreateDevices(p) = h[n]
    <2> HIDE DEF it
    <2> QED
      BY <1>6, <1>10, <1>11
  <1> DEFINE P == {k \in Nat : k <= n => TellOf(h[k], p, k)}
  <1>13. 0 \in P
    <2>1. h[0] = none /\ DOMAIN none = {}
      BY <1>6 DEF Steps
    <2>2. AddressesTo(p, 0) = {}
      BY DEF AddressesTo
    <2> QED
      BY <2>1, <2>2 DEF TellOf
  <1>14. ASSUME NEW k \in Nat, k \in P PROVE k + 1 \in P
    <2> SUFFICES ASSUME k + 1 <= n PROVE TellOf(h[k + 1], p, k + 1)
      OBVIOUS
    <2>1. k \in 0 .. n /\ k + 1 \in T /\ (k + 1) - 1 = k
      <3>1. n \in Nat
        BY <1>1
      <3> HIDE DEF n
      <3> QED
        BY <3>1
    <2>2. h[k] \in R /\ TellOf(h[k], p, k)
      BY <1>1, <1>14, <2>1
    <2>3. h[k + 1] = step[<<k + 1, h[k]>>]
      <3> HIDE DEF step
      <3> QED
        BY <1>6, <2>1 DEF Steps
    <2>4. h[k + 1] = Grouped(p, h[k], p[k + 1])
      BY <2>1, <2>2, <2>3
    <2> QED
      BY <1>2, <2>1, <2>2, <2>4
  <1>15. Nat \subseteq P
    <2> HIDE DEF P
    <2> QED
      BY <1>13, <1>14, NatHolds
  <1>16. n \in 0 .. n /\ h[n] \in R /\ TellOf(h[n], p, n)
    BY <1>1, <1>15
  <1> QED
    BY <1>12, <1>16

-----------------------------------------------------------------------------
(* What mDNS has learned *)

\* What is found are the addresses and services the packets have told.
LearnedOK == protocol = "mdns" => received \in Seq(Packets) /\ EveryServiceKept

LEMMA LearnedInitially == ProtInit => LearnedOK
  BY DEF ProtInit, LearnedOK, EveryServiceKept

\* The addresses and services of a packet, in the words of the property.
AddressesIn(packet) == {packet[j].ip : j \in {k \in DOMAIN packet : packet[k].kind = "A"}}

LEMMA PacketIsKept ==
  ASSUME NEW p \in Packets
  PROVE  /\ DOMAIN CreateDevices(p) = AddressesIn(p)
         /\ \A ip \in AddressesIn(p) : CreateDevices(p)[ip].services = ServicesOf(p, ip)
         /\ \A ip : ip \notin AddressesIn(p) => ServicesOf(p, ip) = {}
  <1>1. p \in Seq(ToSet(p)) /\ DOMAIN p = 1 .. Len(p)
    BY ProtocolAssumption
  <1>2. TellOf(CreateDevices(p), p, Len(p))
    BY PacketTells
  <1>3. \A i \in DOMAIN p : IsService(p, i) => AddressIn(p, p[i].target) \in AddressesIn(p)
    <2> SUFFICES ASSUME NEW i \in DOMAIN p, IsService(p, i) PROVE AddressIn(p, p[i].target) \in AddressesIn(p)
      OBVIOUS
    <2>1. HasAddress(p, p[i].target)
      BY DEF IsService
    <2>2. PICK j \in DOMAIN p : IsAddress(p, j) /\ AddressIn(p, p[i].target) = p[j].ip
      BY <1>1, <2>1, AddressIsOfRecord
    <2> QED
      BY <2>2 DEF AddressesIn, IsAddress
  <1>4. AddressesTo(p, Len(p)) = AddressesIn(p)
    BY <1>1, <1>3 DEF AddressesTo, AddressesIn, IsAddress
  <1>5. \A ip : ServicesTo(p, ip, Len(p)) = ServicesOf(p, ip)
    BY <1>1 DEF ServicesTo, ServicesOf, IsService
  <1>6. \A ip : ip \notin AddressesIn(p) => ServicesOf(p, ip) = {}
    BY <1>3 DEF ServicesOf, IsService
  <1> QED
    BY <1>2, <1>4, <1>5, <1>6 DEF TellOf

LEMMA LearnedNext == ProtIndInv /\ LearnedOK /\ [ProtNext]_protVars => LearnedOK'
  <1> SUFFICES ASSUME ProtIndInv, LearnedOK, [ProtNext]_protVars, protocol' = "mdns"
               PROVE  received' \in Seq(Packets) /\ EveryServiceKept'
    BY DEF LearnedOK
  <1>1. protocol = "mdns"
    BY DEF ProtNext, protVars, ProtBegins, ProtCannotBegin, ProtEnds, ReceivePacket, ReceiveAnswer,
           NextTarget, LastTarget, SkipAnswer, Describe, AskAddress, QueryOid, QueryRaises, AddressDone
  <1>2. UNCHANGED <<found, received>> \/ \E p \in Packets : ReceivePacket(p)
    BY <1>1 DEF ProtIndInv, PhasesOK, ProtNext, protVars, ProtBegins, ProtCannotBegin, ProtEnds, ReceiveAnswer,
             NextTarget, LastTarget, SkipAnswer, Describe, AskAddress, QueryOid, QueryRaises, AddressDone
  <1>3. received \in Seq(Packets) /\ EveryServiceKept
    BY <1>1 DEF LearnedOK
  <1>4. CASE UNCHANGED <<found, received>>
    BY <1>1, <1>3, <1>4 DEF EveryServiceKept
  <1>5. ASSUME NEW p \in Packets, ReceivePacket(p)
        PROVE  received' \in Seq(Packets) /\ EveryServiceKept'
    <2> DEFINE new == CreateDevices(p)
               n == Len(received)
    <2>1. /\ received' = Append(received, p) /\ received' \in Seq(Packets)
          /\ DOMAIN received = 1 .. n /\ DOMAIN received' = 1 .. n + 1 /\ n \in Nat
          /\ received'[n + 1] = p /\ \A i \in 1 .. n : received'[i] = received[i]
      <3>1. received' = Append(received, p)
        BY <1>5 DEF ReceivePacket
      <3> QED
        BY <1>3, <3>1, AppendProperties
    <2>2. found' = [ip \in DOMAIN found \cup DOMAIN new |->
                       IF ip \notin DOMAIN new THEN found[ip]
                       ELSE IF ip \notin DOMAIN found THEN new[ip]
                       ELSE Merged(found[ip], new[ip])]
      BY <1>5 DEF ReceivePacket
    <2> HIDE DEF new, n
    <2>3. /\ DOMAIN new = AddressesIn(p)
          /\ \A ip \in AddressesIn(p) : new[ip].services = ServicesOf(p, ip)
          /\ \A ip : ip \notin AddressesIn(p) => ServicesOf(p, ip) = {}
      BY PacketIsKept DEF new
    <2>4. /\ DOMAIN found = UNION {AddressesIn(received[i]) : i \in 1 .. n}
          /\ \A ip \in DOMAIN found : found[ip].services = UNION {ServicesOf(received[i], ip) : i \in 1 .. n}
      BY <1>1, <1>3, <2>1 DEF EveryServiceKept, AddressesIn
    <2>5. ASSUME NEW i \in 1 .. n, NEW ip, ip \notin DOMAIN found PROVE ServicesOf(received[i], ip) = {}
      <3>1. received[i] \in Packets /\ ip \notin AddressesIn(received[i])
        BY <1>3, <2>1, <2>4, <2>5
      <3> QED
        BY <3>1, PacketIsKept
    <2>6. 1 .. n + 1 = (1 .. n) \cup {n + 1}
      BY <2>1
    <2>7. PICK r : r = received'
      OBVIOUS
    <2>8. \A i \in 1 .. n : r[i] = received[i]
      BY <2>1, <2>7
    <2>9. r[n + 1] = p /\ DOMAIN r = 1 .. n + 1
      BY <2>1, <2>7
    <2>10. {AddressesIn(r[i]) : i \in 1 .. n + 1} = {AddressesIn(received[i]) : i \in 1 .. n} \cup {AddressesIn(p)}
      BY <2>6, <2>8, <2>9
    <2>11. ASSUME NEW ip
          PROVE  {ServicesOf(r[i], ip) : i \in 1 .. n + 1}
                   = {ServicesOf(received[i], ip) : i \in 1 .. n} \cup {ServicesOf(p, ip)}
      BY <2>6, <2>8, <2>9
    <2>12. DOMAIN found' = UNION {AddressesIn(r[i]) : i \in DOMAIN r}
      <3>1. DOMAIN found' = DOMAIN found \cup AddressesIn(p)
        BY <2>2, <2>3
      <3> QED
        BY <2>4, <2>9, <2>10, <3>1
    <2>13. ASSUME NEW ip \in DOMAIN found'
           PROVE  found'[ip].services = UNION {ServicesOf(r[i], ip) : i \in DOMAIN r}
      <3> DEFINE before == UNION {ServicesOf(received[i], ip) : i \in 1 .. n}
      <3>1. UNION {ServicesOf(r[i], ip) : i \in DOMAIN r} = before \cup ServicesOf(p, ip)
        BY <2>9, <2>11
      <3>a. ip \in DOMAIN found => found[ip].services = before
        BY <2>4
      <3>b. ip \notin DOMAIN found => before = {}
        BY <2>5
      <3>c. ip \in DOMAIN new => new[ip].services = ServicesOf(p, ip)
        BY <2>3
      <3>d. ip \notin DOMAIN new => ServicesOf(p, ip) = {}
        BY <2>3
      <3> HIDE DEF before
      <3>2. CASE ip \notin DOMAIN new
        <4>1. ip \in DOMAIN found /\ found'[ip] = found[ip]
          BY <2>2, <2>13, <3>2
        <4> QED
          BY <3>1, <3>2, <3>a, <3>d, <4>1
      <3>3. CASE ip \in DOMAIN new /\ ip \notin DOMAIN found
        <4>1. found'[ip] = new[ip]
          BY <2>2, <3>3
        <4> QED
          BY <3>1, <3>3, <3>b, <3>c, <4>1
      <3>4. CASE ip \in DOMAIN new /\ ip \in DOMAIN found
        <4>1. found'[ip].services = found[ip].services \cup new[ip].services
          BY <2>2, <3>4 DEF Merged
        <4> QED
          BY <3>1, <3>4, <3>a, <3>c, <4>1
      <3> QED
        BY <3>2, <3>3, <3>4
    <2>14. EveryServiceKept'
      BY <2>7, <2>12, <2>13 DEF EveryServiceKept, AddressesIn
    <2> QED
      BY <2>1, <2>14
  <1> QED
    BY <1>2, <1>4, <1>5

\* What the protocols make of the packets and answers they receive: whatever comes in whatever order,
\* mDNS has every address and service it was told of in any packet, wherever in the packet, and SSDP and
\* SNMP as AnswersAreUsed says (MDNSDiscovery._process_mdns_response, _create_devices_from_records).
THEOREM ProtocolsAreRight == ProtSpec => []ProtInv
  <1>1. ProtSpec => []LearnedOK
    <2>1. ProtSpec => []ProtIndInv
      BY ProtInitially, ProtNextKeeps, PTL DEF ProtSpec
    <2> QED
      BY <2>1, LearnedInitially, LearnedNext, PTL DEF ProtSpec
  <1>2. LearnedOK => EveryServiceKept
    BY DEF LearnedOK, EveryServiceKept
  <1>3. ProtTypeOK /\ OncePerLocation /\ EveryAnswerCounts /\ LearnedOK => ProtInv
    BY <1>2 DEF ProtInv
  <1> QED
    BY <1>1, <1>3, AnswersAreUsed, PTL

=============================================================================
