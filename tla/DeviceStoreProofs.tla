--------------------------- MODULE DeviceStoreProofs ---------------------------
(***************************************************************************)
(* Theorems about the device store and the other stores of MCStores, for   *)
(* any processes, devices, serial numbers and commands, with crashes and   *)
(* failing statements anywhere: first the device store, then each of the   *)
(* others by its own inductive invariant, in the end all of them together. *)
(***************************************************************************)
EXTENDS MCStores, RecursionTheorems, FiniteSetTheorems, SequenceTheorems, TLAPS

USE StoreAssumption

-----------------------------------------------------------------------------
(* Types *)

\* A fresh id has no events; those an aggregate raises make a sequence of events.
LEMMA RaisedType ==
  ASSUME NEW types \in Seq(EventTypes), NEW n \in Nat
  PROVE  /\ [i \in DOMAIN types |-> [type |-> types[i], cmd |-> n]] \in Seq(Event)
         /\ [i \in DOMAIN types |-> [type |-> types[i], cmd |-> n]] = <<>> => types = <<>>
  <1> DEFINE made == [i \in 1 .. Len(types) |-> [type |-> types[i], cmd |-> n]]
  <1>1. DOMAIN types = 1 .. Len(types) /\ Len(types) \in Nat
    OBVIOUS
  <1>2. made \in [1 .. Len(types) -> Event]
    BY <1>1 DEF Event
  <1> HIDE DEF made
  <1>3. made \in Seq(Event)
    BY <1>1, <1>2, SeqDef
  <1>4. Len(made) = Len(types)
    BY <1>1, <1>2, <1>3
  <1> QED
    BY <1>1, <1>3, <1>4 DEF made

\* The rows made of the events of an aggregate are as many as those.
LEMMA NumberedType ==
  ASSUME NEW es \in Seq(Event), NEW base \in Int
  PROVE  Numbered(es, base) \in Seq(Stored) /\ Len(Numbered(es, base)) = Len(es)
  <1>1. DOMAIN es = 1 .. Len(es) /\ Len(es) \in Nat
    OBVIOUS
  <1>2. \A i \in 1 .. Len(es) :
          [type |-> es[i].type, cmd |-> es[i].cmd, version |-> base + i] \in Stored
    <2>1. ASSUME NEW i \in 1 .. Len(es)
          PROVE  es[i].type \in EventTypes /\ es[i].cmd \in Nat /\ base + i \in Int
      <3>1. es[i] \in Event
        OBVIOUS
      <3> QED
        BY <3>1 DEF Event
    <2> QED
      BY <2>1 DEF Stored
  <1>3. Numbered(es, base) \in [1 .. Len(es) -> Stored]
    BY <1>1, <1>2 DEF Numbered
  <1>4. Numbered(es, base) \in Seq(Stored)
    BY <1>1, <1>3, SeqDef
  <1>5. Len(Numbered(es, base)) = Len(es)
    <2>1. \A n \in Nat : DOMAIN Numbered(es, base) = 1 .. n => n = Len(es)
      <3>1. DOMAIN Numbered(es, base) = 1 .. Len(es)
        BY <1>3
      <3>2. \A m, n \in Nat : 1 .. m = 1 .. n => m = n
        <4>1. ASSUME NEW m \in Nat, NEW n \in Nat, m < n PROVE n \in 1 .. n /\ n \notin 1 .. m
          BY <4>1
        <4> QED
          BY <4>1
      <3> QED
        BY <1>1, <3>1, <3>2
    <2> QED
      BY <1>4, <2>1, LenProperties
  <1> QED
    BY <1>4, <1>5

\* Storing the events of an aggregate makes the history longer by their number.
LEMMA StoredType ==
  ASSUME NEW es \in Seq(Event), NEW base \in Int, NEW history \in Seq(Stored)
  PROVE  /\ history \o Numbered(es, base) \in Seq(Stored)
         /\ Len(history \o Numbered(es, base)) = Len(history) + Len(es)
         /\ SubSeq(history \o Numbered(es, base), 1, Len(history)) = history
  <1>4. Numbered(es, base) \in Seq(Stored)
    BY NumberedType
  <1>5. Len(Numbered(es, base)) = Len(es)
    BY NumberedType
  <1> DEFINE all == history \o Numbered(es, base)
  <1>6. /\ all \in Seq(Stored)
        /\ Len(all) = Len(history) + Len(es)
        /\ \A i \in 1 .. Len(history) : all[i] = history[i]
    <2> DEFINE num == Numbered(es, base)
    <2>1. num \in Seq(Stored) /\ Len(num) = Len(es)
      BY <1>4, <1>5
    <2> HIDE DEF num
    <2>2. /\ history \o num \in Seq(Stored)
          /\ Len(history \o num) = Len(history) + Len(num)
          /\ \A i \in 1 .. Len(history) + Len(num) : (history \o num)[i] =
                IF i <= Len(history) THEN history[i] ELSE num[i - Len(history)]
      BY <2>1, ConcatProperties
    <2>3. Len(history) \in Nat /\ Len(num) \in Nat
      BY <2>1, LenProperties
    <2>4. all = history \o num
      BY DEF num
    <2> HIDE DEF all
    <2> QED
      BY <2>1, <2>2, <2>3, <2>4
  <1> HIDE DEF all
  <1>7. SubSeq(all, 1, Len(history)) = history
    <2>1. Len(history) \in Nat /\ \A i \in 1 .. Len(history) : all[i] \in Stored
      BY <1>6
    <2>2. /\ SubSeq(all, 1, Len(history)) \in Seq(Stored)
          /\ Len(SubSeq(all, 1, Len(history))) = Len(history)
          /\ \A i \in 1 .. Len(history) : SubSeq(all, 1, Len(history))[i] = all[i]
      BY <2>1, <1>6
    <2> QED
      BY <1>6, <2>2, SeqEqual
  <1> QED
    BY <1>6, <1>7 DEF all

\* What a command makes of the entity is an entity.
LEMMA ApplyType ==
  ASSUME NEW theRow \in Row, NEW kind \in AllKinds
  PROVE  Apply(kind, theRow) \in Row
  <1>1. \A entity \in Row : UpdateVersion(entity) \in Row
    BY DEF UpdateVersion, Row
  <1>2. /\ [theRow EXCEPT !.status = "active"] \in Row
        /\ [theRow EXCEPT !.status = "inactive"] \in Row
    BY DEF Row
  <1>3. [theRow EXCEPT !.confVersion = @ + 1] \in Row
    BY DEF Row
  <1>4. CASE kind \in {"update", "activate", "deactivate", "configure"}
    BY <1>1, <1>2, <1>3, <1>4 DEF Apply
  <1>5. CASE kind \notin {"update", "activate", "deactivate", "configure"}
    BY <1>5 DEF Apply
  <1> QED
    BY <1>4, <1>5

\* A new database is well typed.
LEMMA TypeInit == StoreInit => TypeOK
  BY DEF StoreInit, TypeOK, Pc

\* A handler begins to save an entity with the events it has raised.
LEMMA TypeBegin ==
  ASSUME TypeOK, NEW c \in Clients, NEW d \in Devices, NEW entity \in Row,
         NEW types \in Seq(EventTypes), Begin(c, d, entity, types)
  PROVE  TypeOK'
  <1> USE DEF TypeOK, Begin
  <1>1. commands' \in 0 .. MaxCommands /\ commands' \in Nat /\ commands \in Nat /\ commands' = commands + 1
    OBVIOUS
  <1>2. pending' \in [Clients -> Seq(Event)]
    BY <1>1, RaisedType
  <1>3. cmd' \in [Clients -> 0 .. commands']
    BY <1>1
  <1>4. /\ rows' \in [Devices -> Row \cup {NoRow}]
        /\ events' \in [Devices -> Seq(Stored)]
        /\ existing' \in [Clients -> Row \cup {NoRow}]
    OBVIOUS
  <1>5. /\ dev' \in [Clients -> Devices \cup {NoDevice}]
        /\ agg' \in [Clients -> Row \cup {NoRow}]
        /\ pc' \in [Clients -> Pc]
    BY DEF Pc
  <1>6. seen' \in [Clients -> Nat]
    BY LenProperties
  <1>7. acked' \cup refused' \subseteq 0 .. commands'
    BY <1>1 DEF outcomeVars
  <1>8. \A o \in Clients :
           /\ dev'[o] = NoDevice <=> pc'[o] = "idle"
           /\ agg'[o] = NoRow <=> pc'[o] = "idle"
           /\ pc'[o] \in {"idle", "stored", "saved"} => pending'[o] = <<>>
           /\ existing'[o] # NoRow => dev'[o] # NoDevice /\ rows'[dev'[o]] # NoRow
    OBVIOUS
  <1> QED
    BY <1>1, <1>2, <1>3, <1>4, <1>5, <1>6, <1>7, <1>8

\* A client that leaves has nothing left.
LEMMA TypeLeave ==
  ASSUME TypeOK, NEW c \in Clients, Leave(c), UNCHANGED <<rows, events, commands>>,
         acked' \cup refused' \subseteq 0 .. commands
  PROVE  TypeOK'
  BY EmptySeq DEF TypeOK, Leave, Pc

\* An update of a loaded row is a row.
LEMMA WrittenType ==
  ASSUME NEW old \in Row, NEW new \in Row, NEW theRow \in Row
  PROVE  /\ Written(old, new, theRow) \in Row
         /\ Written(old, new, theRow).version \in {new.version, theRow.version}
  BY DEF Written, Row

\* What save() commits is a row, of the version the client or another one gave it.
LEMMA RowCommitted ==
  ASSUME TypeOK, NEW c \in Clients, CommitRow(c)
  PROVE  \E theRow \in Row :
            /\ rows' = [rows EXCEPT ![dev[c]] = theRow]
            /\ \/ theRow.version = agg[c].version
               \/ rows[dev[c]] # NoRow /\ theRow.version = rows[dev[c]].version
  <1> USE DEF TypeOK
  <1>1. dev[c] \in Devices /\ agg[c] \in Row
    BY DEF CommitRow
  <1>2. CASE existing[c] = NoRow
    BY <1>1, <1>2 DEF CommitRow
  <1>3. CASE existing[c] # NoRow
    <2>1. existing[c] \in Row /\ rows[dev[c]] \in Row
      BY <1>1, <1>3
    <2> DEFINE theRow == Written(existing[c], agg[c], rows[dev[c]])
    <2>2. theRow \in Row /\ theRow.version \in {agg[c].version, rows[dev[c]].version}
      BY <1>1, <2>1, WrittenType
    <2>3. rows' = [rows EXCEPT ![dev[c]] = theRow]
      BY <1>3 DEF CommitRow
    <2> HIDE DEF theRow
    <2> QED
      BY <1>3, <2>1, <2>2, <2>3
  <1> QED
    BY <1>2, <1>3

\* What clients send begins as a command on an entity, with well-typed events; one without
\* events works on the row as it was loaded.
LEMMA CommandBegins ==
  ASSUME TypeOK, NEW c \in Clients, NEW d \in Devices,
         \/ \E s \in Serials : Register(c, d, s)
         \/ \E kind \in Kinds : Change(c, d, kind)
  PROVE  \E entity \in Row, types \in Seq(EventTypes) :
            /\ Begin(c, d, entity, types)
            /\ types = <<>> => rows[d] # NoRow /\ entity = rows[d]
  <1>1. ASSUME NEW s \in Serials, Register(c, d, s)
        PROVE  \E entity \in Row, types \in Seq(EventTypes) :
                  Begin(c, d, entity, types) /\ types # <<>>
    <2>1. NewRow(s) \in Row
      BY DEF NewRow, Row
    <2>2. Apply("configure", NewRow(s)) \in Row
      BY <2>1, ApplyType DEF AllKinds
    <2>3. /\ <<"registered">> \in Seq(EventTypes) /\ <<"registered">> # <<>>
          /\ <<"registered", "configured">> \in Seq(EventTypes)
          /\ <<"registered", "configured">> # <<>>
      BY DEF EventTypes
    <2> QED
      BY <1>1, <2>1, <2>2, <2>3 DEF Register
  <1>2. ASSUME NEW kind \in Kinds, Change(c, d, kind)
        PROVE  \E entity \in Row, types \in Seq(EventTypes) :
                  /\ Begin(c, d, entity, types)
                  /\ types = <<>> => rows[d] # NoRow /\ entity = rows[d]
    <2>1. rows[d] \in Row /\ kind \in AllKinds
      BY <1>2 DEF Change, TypeOK
    <2>2. Apply(kind, rows[d]) \in Row
      BY <2>1, ApplyType
    <2>3. EventsOf(kind) \in Seq(EventTypes)
      <3>1. <<>> \in Seq(EventTypes) /\ <<"configured">> \in Seq(EventTypes)
             /\ <<"changed">> \in Seq(EventTypes)
        BY DEF EventTypes
      <3> QED
        BY <3>1 DEF EventsOf
    <2>4. EventsOf(kind) = <<>> => Apply(kind, rows[d]) = rows[d]
      BY DEF EventsOf, Apply
    <2> QED
      BY <1>2, <2>2, <2>3, <2>4 DEF Change
  <1> QED
    BY <1>1, <1>2

\* So commands keep the types.
LEMMA TypeCommand ==
  ASSUME TypeOK, NEW c \in Clients, NEW d \in Devices,
         \/ \E s \in Serials : Register(c, d, s)
         \/ \E kind \in Kinds : Change(c, d, kind)
  PROVE  TypeOK'
  BY CommandBegins, TypeBegin

\* Every statement of save(), and every fault, keeps the types.
LEMMA TypeSave ==
  ASSUME TypeOK, NEW c \in Clients, Save(c) \/ Fault(c)
  PROVE  TypeOK'
  <1>1. CASE LoadExisting(c)
    <2>1. dev[c] \in Devices /\ existing' \in [Clients -> Row \cup {NoRow}]
      BY <1>1 DEF LoadExisting, TypeOK
    <2> QED
      BY <1>1, <2>1 DEF LoadExisting, TypeOK, Pc, outcomeVars
  <1>2. CASE CheckVersion(c)
    BY <1>2 DEF CheckVersion, TypeOK, Pc, outcomeVars
  <1>3. CASE Conflict(c)
    <2>1. Leave(c) /\ UNCHANGED <<rows, events, commands>>
      BY <1>3 DEF Conflict
    <2>2. acked' \cup refused' \subseteq 0 .. commands
      BY <1>3 DEF Conflict, TypeOK
    <2> QED
      BY <2>1, <2>2, TypeLeave
  <1>4. CASE StoreEvents(c)
    <2> USE DEF TypeOK
    <2>1. dev[c] \in Devices /\ agg[c] \in Row /\ pending[c] \in Seq(Event)
      BY <1>4 DEF StoreEvents
    <2>2. Expected(c) \in Int
      BY <2>1, LenProperties DEF Expected, Row
    <2>3. events[dev[c]] \o Numbered(pending[c], Expected(c)) \in Seq(Stored)
      BY <2>1, <2>2, StoredType
    <2>4. events' \in [Devices -> Seq(Stored)]
      BY <1>4, <2>3 DEF StoreEvents
    <2>5. pending' \in [Clients -> Seq(Event)] /\ pending'[c] = <<>>
      BY <1>4, EmptySeq DEF StoreEvents
    <2> QED
      BY <1>4, <2>4, <2>5 DEF StoreEvents, Pc, outcomeVars
  <1>5. CASE CommitRow(c)
    <2> USE DEF TypeOK
    <2>1. dev[c] \in Devices /\ agg[c] \in Row
      BY <1>5 DEF CommitRow
    <2>2. PICK theRow \in Row : rows' = [rows EXCEPT ![dev[c]] = theRow]
      BY <1>5, RowCommitted
    <2>3. rows' \in [Devices -> Row \cup {NoRow}]
      BY <2>1, <2>2
    <2>4. \A d \in Devices : rows[d] # NoRow => rows'[d] # NoRow
      BY <2>1, <2>2
    <2> QED
      BY <1>5, <2>3, <2>4 DEF CommitRow, Pc, outcomeVars
  <1>6. CASE RowRefused(c) \/ Fault(c)
    BY <1>6, TypeLeave DEF RowRefused, Fault, TypeOK, outcomeVars
  <1>7. CASE CommitUnitOfWork(c)
    <2>1. Leave(c) /\ UNCHANGED <<rows, events, commands>>
      BY <1>7 DEF CommitUnitOfWork
    <2>2. acked' \cup refused' \subseteq 0 .. commands
      BY <1>7 DEF CommitUnitOfWork, TypeOK
    <2> QED
      BY <2>1, <2>2, TypeLeave
  <1> QED
    BY <1>1, <1>2, <1>3, <1>4, <1>5, <1>6, <1>7 DEF Save

\* Every step keeps the types.
LEMMA TypeNext == TypeOK /\ [StoreNext]_vars => TypeOK'
  <1> SUFFICES ASSUME TypeOK, [StoreNext]_vars PROVE TypeOK'
    OBVIOUS
  <1>1. ASSUME NEW c \in Clients, Save(c) \/ Fault(c) PROVE TypeOK'
    BY <1>1, TypeSave
  <1>2. ASSUME NEW c \in Clients, NEW d \in Devices,
               \/ \E s \in Serials : Register(c, d, s)
               \/ \E kind \in Kinds : Change(c, d, kind)
        PROVE  TypeOK'
    BY <1>2, TypeCommand
  <1>3. CASE UNCHANGED vars
    BY <1>3 DEF vars, clientVars, outcomeVars, TypeOK
  <1> QED
    BY <1>1, <1>2, <1>3 DEF StoreNext

\* Type correctness, with what it says about clients and the rows they have loaded.
THEOREM TypeCorrect == StoreSpec => []TypeOK
  <1> QED
    BY TypeInit, TypeNext, PTL DEF StoreSpec

-----------------------------------------------------------------------------
(* The row of a device is never ahead of its history *)

\* Why RowNeverAhead is inductive: a client that has passed the version check, or
\* has nothing to check, holds an aggregate whose row the history already covers or
\* will cover once its events are stored.  Other clients only make the history longer.
Covered(c) ==
    /\ pc[c] = "loaded" /\ pending[c] = <<>> => agg[c].version <= Len(events[dev[c]])
    /\ pc[c] = "checked" => Expected(c) <= Len(events[dev[c]])
    /\ pc[c] \in {"stored", "saved"} => agg[c].version <= Len(events[dev[c]])

HistoryInv == RowNeverAhead /\ \A c \in Clients : Covered(c)

\* A client that takes no step stays covered while the histories grow.
LEMMA CoveredStays ==
  ASSUME TypeOK, TypeOK', NEW c \in Clients, Covered(c),
         UNCHANGED <<pc[c], dev[c], agg[c], pending[c]>>,
         \A d \in Devices : Len(events[d]) <= Len(events'[d])
  PROVE  Covered(c)'
  <1>1. CASE pc[c] = "idle"
    BY <1>1 DEF Covered
  <1>2. CASE pc[c] # "idle"
    <2>1. dev[c] \in Devices /\ agg[c] \in Row /\ pending[c] \in Seq(Event)
      BY <1>2 DEF TypeOK
    <2>2. Len(events[dev[c]]) \in Nat /\ Len(events'[dev[c]]) \in Nat
      BY <2>1, LenProperties DEF TypeOK
    <2>3. agg[c].version \in Nat /\ Expected(c) \in Int
      BY <2>1, LenProperties DEF Expected, Row
    <2>4. Expected(c)' = Expected(c)
      BY DEF Expected
    <2> QED
      BY <2>1, <2>2, <2>3, <2>4 DEF Covered
  <1> QED
    BY <1>1, <1>2

\* The inductive invariant holds at first.
LEMMA HistoryInit == StoreInit => HistoryInv
  BY DEF StoreInit, HistoryInv, RowNeverAhead, Covered

\* It survives a step of client c that stores no row, if c is covered after it.
LEMMA HistoryFrame ==
  ASSUME TypeOK, TypeOK', HistoryInv, NEW c \in Clients, UNCHANGED rows,
         \A o \in Clients \ {c} : UNCHANGED <<pc[o], dev[o], agg[o], pending[o]>>,
         \A d \in Devices : Len(events[d]) <= Len(events'[d]),
         Covered(c)'
  PROVE  HistoryInv'
  <1>1. \A o \in Clients : Covered(o)'
    BY CoveredStays DEF HistoryInv
  <1>2. RowNeverAhead'
    <2>1. ASSUME NEW d \in Devices, rows[d] # NoRow
          PROVE  /\ rows[d].version \in Nat /\ Len(events[d]) \in Nat
                 /\ Len(events'[d]) \in Nat /\ rows[d].version <= Len(events[d])
      BY <2>1, LenProperties DEF HistoryInv, RowNeverAhead, TypeOK, Row
    <2>2. ASSUME NEW d \in Devices, rows[d] # NoRow
          PROVE  rows[d].version <= Len(events'[d])
      BY <2>1, <2>2
    <2> QED
      BY <2>2 DEF RowNeverAhead
  <1> QED
    BY <1>1, <1>2 DEF HistoryInv

\* A command begins: one without events works on a row the history covers.
LEMMA HistoryBegin ==
  ASSUME TypeOK, TypeOK', HistoryInv, NEW c \in Clients, NEW d \in Devices,
         NEW entity \in Row, NEW types \in Seq(EventTypes), Begin(c, d, entity, types),
         types = <<>> => entity.version <= Len(events[d])
  PROVE  HistoryInv'
  <1>1. /\ pc'[c] = "loaded" /\ dev'[c] = d /\ agg'[c] = entity
        /\ UNCHANGED <<rows, events>>
        /\ pending'[c] = [i \in DOMAIN types |-> [type |-> types[i], cmd |-> commands']]
    BY DEF Begin, TypeOK
  <1>2. pending'[c] = <<>> => types = <<>>
    BY <1>1, RaisedType DEF TypeOK
  <1>3. Covered(c)'
    BY <1>1, <1>2 DEF Covered
  <1>4. \A o \in Clients \ {c} : UNCHANGED <<pc[o], dev[o], agg[o], pending[o]>>
    BY DEF Begin, TypeOK
  <1>5. \A e \in Devices : Len(events[e]) <= Len(events'[e])
    BY <1>1, LenProperties DEF TypeOK
  <1> QED
    BY <1>1, <1>3, <1>4, <1>5, HistoryFrame

\* The history only grows, and what is in it stays.
LEMMA EventsStep ==
  ASSUME TypeOK, [StoreNext]_vars, NEW d \in Devices
  PROVE  /\ Len(events[d]) <= Len(events'[d])
         /\ SubSeq(events'[d], 1, Len(events[d])) = events[d]
  <1> USE DEF TypeOK
  <1>1. CASE events' = events
    <2>1. /\ events[d] \in Seq(Stored) /\ Len(events[d]) \in Nat
          /\ SubSeq(events[d], 1, Len(events[d])) = events[d]
      BY LenProperties, SubSeqFull
    <2> QED
      BY <1>1, <2>1
  <1>2. ASSUME NEW c \in Clients, StoreEvents(c)
        PROVE  /\ Len(events[d]) <= Len(events'[d])
               /\ SubSeq(events'[d], 1, Len(events[d])) = events[d]
    <2>1. /\ dev[c] \in Devices /\ agg[c] \in Row /\ pending[c] \in Seq(Event)
          /\ events[d] \in Seq(Stored)
      BY <1>2 DEF StoreEvents
    <2>2. Expected(c) \in Int /\ Len(events[d]) \in Nat /\ Len(pending[c]) \in Nat
      BY <2>1, LenProperties DEF Expected, Row
    <2>3. CASE d = dev[c]
      <3>1. events'[d] = events[d] \o Numbered(pending[c], Expected(c))
        BY <1>2, <2>1, <2>3 DEF StoreEvents
      <3> QED
        BY <2>1, <2>2, <3>1, StoredType
    <2>4. CASE d # dev[c]
      <3>1. events'[d] = events[d]
        BY <1>2, <2>1, <2>4 DEF StoreEvents
      <3> QED
        BY <2>1, <2>2, <3>1, SubSeqFull
    <2> QED
      BY <2>3, <2>4
  <1>3. [StoreNext]_vars => \/ events' = events
                       \/ \E c \in Clients : StoreEvents(c)
    BY SMTT(30) DEF StoreNext, vars, Register, Change, Begin, Save, LoadExisting, CheckVersion,
           Conflict, CommitRow, RowRefused, CommitUnitOfWork, Fault
  <1> QED
    BY <1>1, <1>2, <1>3

\* Stored events are never changed, reordered or removed, by whatever process.
THEOREM HistoryIsKept == StoreSpec => EventsAppendOnly
  <1>1. TypeOK /\ [StoreNext]_vars =>
          [\A d \in Devices : /\ Len(events[d]) <= Len(events'[d])
                              /\ SubSeq(events'[d], 1, Len(events[d])) = events[d]]_vars
    BY EventsStep
  <1> QED
    BY <1>1, TypeCorrect, PTL DEF StoreSpec, EventsAppendOnly

\* The commands clients send keep the inductive invariant.
LEMMA HistoryCommand ==
  ASSUME TypeOK, TypeOK', HistoryInv, NEW c \in Clients, NEW d \in Devices,
         \/ \E s \in Serials : Register(c, d, s)
         \/ \E kind \in Kinds : Change(c, d, kind)
  PROVE  HistoryInv'
  <1>1. PICK entity \in Row, types \in Seq(EventTypes) :
           /\ Begin(c, d, entity, types)
           /\ types = <<>> => rows[d] # NoRow /\ entity = rows[d]
    BY CommandBegins
  <1>2. rows[d] # NoRow => rows[d].version <= Len(events[d])
    BY DEF HistoryInv, RowNeverAhead
  <1> QED
    BY <1>1, <1>2, HistoryBegin

\* So does every statement of save(), and every fault.
LEMMA HistorySave ==
  ASSUME TypeOK, TypeOK', HistoryInv, [StoreNext]_vars, NEW c \in Clients, Save(c) \/ Fault(c)
  PROVE  HistoryInv'
  <1>1. \A d \in Devices : Len(events[d]) <= Len(events'[d])
    BY EventsStep
  <1>2. Covered(c)
    BY DEF HistoryInv
  <1>3. ASSUME UNCHANGED rows, Leave(c) PROVE HistoryInv'
    <2>1. Covered(c)' /\ \A o \in Clients \ {c} : UNCHANGED <<pc[o], dev[o], agg[o], pending[o]>>
      BY <1>3 DEF Leave, TypeOK, Covered
    <2> QED
      BY <1>1, <1>3, <2>1, HistoryFrame
  <1>4. CASE LoadExisting(c)
    <2>1. Covered(c)' /\ \A o \in Clients \ {c} : UNCHANGED <<pc[o], dev[o], agg[o], pending[o]>>
      BY <1>2, <1>4 DEF LoadExisting, TypeOK, Covered
    <2> QED
      BY <1>1, <1>4, <2>1, HistoryFrame DEF LoadExisting
  <1>5. CASE CheckVersion(c)
    <2>1. Expected(c)' = Len(events'[dev'[c]]) /\ Expected(c)' \in Int /\ pc'[c] = "checked"
      <3>1. dev[c] \in Devices
        BY <1>5 DEF CheckVersion, TypeOK
      <3> QED
        BY <1>5, <3>1, LenProperties DEF CheckVersion, IsCurrent, Expected, TypeOK
    <2>2. Covered(c)'
      BY <2>1 DEF Covered
    <2>3. \A o \in Clients \ {c} : UNCHANGED <<pc[o], dev[o], agg[o], pending[o]>>
      BY <1>5 DEF CheckVersion, TypeOK
    <2> QED
      BY <1>1, <1>5, <2>2, <2>3, HistoryFrame DEF CheckVersion
  <1>6. CASE StoreEvents(c)
    <2>1. /\ dev[c] \in Devices /\ agg[c] \in Row /\ pending[c] \in Seq(Event)
          /\ events[dev[c]] \in Seq(Stored)
      BY <1>6 DEF StoreEvents, TypeOK
    <2>2. /\ Expected(c) = agg[c].version - Len(pending[c])
          /\ agg[c].version \in Nat /\ Len(pending[c]) \in Nat /\ Len(events[dev[c]]) \in Nat
          /\ Expected(c) \in Int
      BY <2>1, LenProperties DEF Expected, Row
    <2>3. Len(events'[dev[c]]) = Len(events[dev[c]]) + Len(pending[c])
      <3>1. events'[dev[c]] = events[dev[c]] \o Numbered(pending[c], Expected(c))
        BY <1>6, <2>1 DEF StoreEvents, TypeOK
      <3>2. Len(events[dev[c]] \o Numbered(pending[c], Expected(c)))
              = Len(events[dev[c]]) + Len(pending[c])
        BY <2>1, <2>2, StoredType
      <3> QED
        BY <3>1, <3>2, Zenon
    <2>4. Expected(c) <= Len(events[dev[c]])
      BY <1>2, <1>6 DEF Covered, StoreEvents
    <2>5. agg[c].version <= Len(events'[dev[c]])
      <3>1. \A v, p, h \in Nat : v - p <= h => v <= h + p
        OBVIOUS
      <3>2. agg[c].version <= Len(events[dev[c]]) + Len(pending[c])
        BY <2>2, <2>4, <3>1, Zenon
      <3> QED
        BY <2>3, <3>2, Zenon
    <2>6. Covered(c)'
      <3>1. pc'[c] = "stored" /\ dev'[c] = dev[c] /\ agg'[c] = agg[c]
        BY <1>6 DEF StoreEvents, TypeOK
      <3> QED
        BY <2>5, <3>1, Zenon DEF Covered
    <2>7. \A o \in Clients \ {c} : UNCHANGED <<pc[o], dev[o], agg[o], pending[o]>>
      BY <1>6 DEF StoreEvents, TypeOK
    <2> QED
      BY <1>1, <1>6, <2>6, <2>7, HistoryFrame DEF StoreEvents
  <1>7. CASE CommitRow(c)
    <2>1. dev[c] \in Devices /\ agg[c].version <= Len(events[dev[c]])
      BY <1>2, <1>7 DEF CommitRow, Covered, TypeOK
    <2>2. PICK theRow \in Row :
             /\ rows' = [rows EXCEPT ![dev[c]] = theRow]
             /\ \/ theRow.version = agg[c].version
                \/ rows[dev[c]] # NoRow /\ theRow.version = rows[dev[c]].version
      BY <1>7, RowCommitted
    <2>3. RowNeverAhead'
      BY <1>7, <2>1, <2>2 DEF CommitRow, HistoryInv, RowNeverAhead, TypeOK
    <2>4. \A o \in Clients : Covered(o)'
      <3>1. Covered(c)'
        BY <1>7, <2>1 DEF CommitRow, Covered, TypeOK
      <3>2. \A o \in Clients \ {c} : UNCHANGED <<pc[o], dev[o], agg[o], pending[o]>>
        BY <1>7 DEF CommitRow, TypeOK
      <3> QED
        BY <1>1, <3>1, <3>2, CoveredStays DEF HistoryInv
    <2> QED
      BY <2>3, <2>4 DEF HistoryInv
  <1> QED
    BY <1>3, <1>4, <1>5, <1>6, <1>7
    DEF Save, Fault, Conflict, RowRefused, CommitUnitOfWork

\* Every step keeps the inductive invariant.
LEMMA HistoryNext == TypeOK /\ TypeOK' /\ HistoryInv /\ [StoreNext]_vars => HistoryInv'
  <1> SUFFICES ASSUME TypeOK, TypeOK', HistoryInv, [StoreNext]_vars PROVE HistoryInv'
    OBVIOUS
  <1>1. CASE UNCHANGED vars
    BY <1>1 DEF vars, clientVars, outcomeVars, HistoryInv, RowNeverAhead, Covered, Expected
  <1>2. ASSUME NEW c \in Clients, Save(c) \/ Fault(c) PROVE HistoryInv'
    BY <1>2, HistorySave
  <1>3. ASSUME NEW c \in Clients, NEW d \in Devices,
               \/ \E s \in Serials : Register(c, d, s)
               \/ \E kind \in Kinds : Change(c, d, kind)
        PROVE  HistoryInv'
    BY <1>3, HistoryCommand
  <1> QED
    BY <1>1, <1>2, <1>3 DEF StoreNext

\* However commands race, conflict, fail or die with their process, the row of a
\* device never claims a version whose events are not stored.
THEOREM RowsAreCovered == StoreSpec => []RowNeverAhead
  <1>1. TypeOK /\ HistoryInv /\ [StoreNext]_vars => (TypeOK /\ HistoryInv)'
    BY TypeNext, HistoryNext
  <1>2. StoreInit => TypeOK /\ HistoryInv
    BY TypeInit, HistoryInit
  <1>3. HistoryInv => RowNeverAhead
    BY DEF HistoryInv
  <1> QED
    BY <1>1, <1>2, <1>3, PTL DEF StoreSpec

-----------------------------------------------------------------------------
(* The answers clients get hold *)

\* The commands with an event in the history of a device.
Logged(d) == {events[d][i].cmd : i \in DOMAIN events[d]}

\* What a client's command has come to.  Until its events are stored they are all pending, none
\* is in the store and the command has not been refused; from then on they are in
\* the store, and once its row is committed, under a device that has one.
CommandStands(c) ==
    /\ \A i \in DOMAIN pending[c] : pending[c][i].cmd = cmd[c]
    /\ pc[c] \in {"existing", "checked"} => cmd[c] # 0
    /\ cmd[c] # 0 => cmd[c] \notin refused
    /\ cmd[c] # 0 /\ pc[c] \in {"loaded", "existing", "checked"} =>
           pending[c] # <<>> /\ \A d \in Devices : cmd[c] \notin Logged(d)
    /\ pc[c] = "loaded" /\ cmd[c] = 0 => pending[c] = <<>>
    /\ cmd[c] # 0 /\ pc[c] \in {"stored", "saved"} => cmd[c] \in Logged(dev[c])
    /\ pc[c] = "saved" => rows[dev[c]] # NoRow

\* Why AnswersHold is inductive: commands are told apart by their numbers, and a command that
\* is under way has been neither refused nor half stored.
CommandsInv ==
    /\ \A d \in Devices : Logged(d) \subseteq 1 .. commands
    /\ \A c, o \in Clients : c # o /\ cmd[c] # 0 => cmd[c] # cmd[o]
    /\ \A c \in Clients : CommandStands(c)

AnswersInv == CommandsInv /\ AnswersHold

\* AnswersHold in terms of the commands with events in the histories.
AckedLogged == \A n \in acked \ {0} : \E d \in Devices : rows[d] # NoRow /\ n \in Logged(d)
RefusedUnlogged == \A n \in refused, d \in Devices : n \notin Logged(d)

LEMMA AnswersLogged == AnswersHold <=> AckedLogged /\ RefusedUnlogged
  <1>1. \A n, d : n \in Logged(d) <=> \E i \in DOMAIN events[d] : events[d][i].cmd = n
    BY DEF Logged
  <1> QED
    BY <1>1 DEF AnswersHold, AckedIsStored, ConflictLeavesNothing, AckedLogged, RefusedUnlogged

\* Storing the events of an aggregate adds their commands to the history, and no other.
LEMMA StoredCommands ==
  ASSUME NEW es \in Seq(Event), NEW base \in Int, NEW history \in Seq(Stored)
  PROVE  LET all == history \o Numbered(es, base)
         IN  {all[i].cmd : i \in DOMAIN all} =
                {history[i].cmd : i \in DOMAIN history} \cup {es[i].cmd : i \in DOMAIN es}
  <1> DEFINE num == Numbered(es, base)
             all == history \o num
  <1>1. /\ num \in Seq(Stored) /\ Len(num) = Len(es)
        /\ \A i \in 1 .. Len(es) : num[i].cmd = es[i].cmd
    <2>1. DOMAIN es = 1 .. Len(es) /\ Len(es) \in Nat
      OBVIOUS
    <2> QED
      BY <2>1, NumberedType DEF Numbered
  <1>2. /\ DOMAIN es = 1 .. Len(es) /\ Len(es) \in Nat
        /\ DOMAIN history = 1 .. Len(history) /\ Len(history) \in Nat
    OBVIOUS
  <1> HIDE DEF num
  <1>3. /\ DOMAIN all = 1 .. Len(history) + Len(es)
        /\ \A i \in 1 .. Len(history) + Len(es) : all[i] =
              IF i <= Len(history) THEN history[i] ELSE num[i - Len(history)]
    <2>1. /\ all \in Seq(Stored) /\ Len(all) = Len(history) + Len(num)
          /\ \A i \in 1 .. Len(history) + Len(num) : all[i] =
                IF i <= Len(history) THEN history[i] ELSE num[i - Len(history)]
      BY <1>1, ConcatProperties
    <2> HIDE DEF all
    <2> QED
      BY <1>1, <2>1, LenProperties
  <1> HIDE DEF all
  <1>4. ASSUME NEW i \in DOMAIN all
        PROVE  \/ \E j \in DOMAIN history : all[i].cmd = history[j].cmd
               \/ \E j \in DOMAIN es : all[i].cmd = es[j].cmd
    <2>1. CASE i <= Len(history)
      BY <1>2, <1>3, <2>1
    <2>2. CASE ~(i <= Len(history))
      <3>1. i - Len(history) \in 1 .. Len(es)
        BY <1>2, <1>3, <2>2
      <3> QED
        BY <1>1, <1>2, <1>3, <2>2, <3>1
    <2> QED
      BY <2>1, <2>2
  <1>5. ASSUME NEW j \in DOMAIN history PROVE \E i \in DOMAIN all : all[i].cmd = history[j].cmd
    BY <1>2, <1>3
  <1>6. ASSUME NEW j \in DOMAIN es PROVE \E i \in DOMAIN all : all[i].cmd = es[j].cmd
    <2>1. Len(history) + j \in 1 .. Len(history) + Len(es) /\ ~(Len(history) + j <= Len(history))
          /\ (Len(history) + j) - Len(history) = j
      BY <1>2
    <2>2. all[Len(history) + j] = num[j]
      BY <1>3, <2>1
    <2> QED
      BY <1>1, <1>2, <1>3, <2>1, <2>2
  <1>7. {all[i].cmd : i \in DOMAIN all} =
           {history[i].cmd : i \in DOMAIN history} \cup {es[i].cmd : i \in DOMAIN es}
    BY <1>4, <1>5, <1>6
  <1> QED
    BY <1>7 DEF all, num

\* When the events of a command are stored, it and no other is added to the history.
LEMMA CommandLogged ==
  ASSUME TypeOK, NEW c \in Clients, CommandStands(c), StoreEvents(c)
  PROVE  /\ Logged(dev[c])' = Logged(dev[c]) \cup {cmd[c]}
         /\ \A d \in Devices \ {dev[c]} : Logged(d)' = Logged(d)
  <1>1. /\ dev[c] \in Devices /\ agg[c] \in Row /\ pending[c] \in Seq(Event)
        /\ events[dev[c]] \in Seq(Stored)
    BY DEF StoreEvents, TypeOK
  <1>2. Expected(c) \in Int
    BY <1>1, LenProperties DEF Expected, Row
  <1>3. events' = [events EXCEPT ![dev[c]] = @ \o Numbered(pending[c], Expected(c))]
        /\ dev' = dev
    BY DEF StoreEvents
  <1>4. events'[dev[c]] = events[dev[c]] \o Numbered(pending[c], Expected(c))
    BY <1>1, <1>3 DEF TypeOK
  <1>5. {pending[c][i].cmd : i \in DOMAIN pending[c]} = {cmd[c]}
    <2>1. pending[c] # <<>>
      BY DEF CommandStands, StoreEvents
    <2>2. DOMAIN pending[c] # {}
      <3>1. Len(pending[c]) \in Nat /\ Len(pending[c]) # 0
        BY <1>1, <2>1, LenProperties, EmptySeq
      <3>2. DOMAIN pending[c] = 1 .. Len(pending[c])
        BY <1>1, LenProperties
      <3> QED
        BY <3>1, <3>2
    <2> QED
      BY <2>2 DEF CommandStands
  <1>6. Logged(dev[c])' = Logged(dev[c]) \cup {cmd[c]}
    <2> DEFINE all == events[dev[c]] \o Numbered(pending[c], Expected(c))
    <2>1. {all[i].cmd : i \in DOMAIN all} =
             {events[dev[c]][i].cmd : i \in DOMAIN events[dev[c]]}
                \cup {pending[c][i].cmd : i \in DOMAIN pending[c]}
      BY <1>1, <1>2, StoredCommands, ZenonT(40)
    <2>2. {all[i].cmd : i \in DOMAIN all} = Logged(dev[c]) \cup {cmd[c]}
      BY <1>5, <2>1, Zenon DEF Logged
    <2>3. Logged(dev[c])' = {all[i].cmd : i \in DOMAIN all}
      BY <1>3, <1>4, Zenon DEF Logged
    <2> QED
      BY <2>2, <2>3, Zenon
  <1>7. ASSUME NEW d \in Devices \ {dev[c]} PROVE Logged(d)' = Logged(d)
    BY <1>3, <1>7 DEF Logged, TypeOK
  <1> QED
    BY <1>6, <1>7

\* Nothing has been answered and nothing is stored at first.
LEMMA AnswersInit == StoreInit => AnswersInv
  <1> SUFFICES ASSUME StoreInit PROVE AnswersInv
    OBVIOUS
  <1>1. \A d \in Devices : Logged(d) = {}
    BY DEF StoreInit, Logged
  <1>2. CommandsInv
    BY <1>1 DEF StoreInit, CommandsInv, CommandStands
  <1> QED
    BY <1>1, <1>2, AnswersLogged DEF StoreInit, AnswersInv, AckedLogged, RefusedUnlogged

\* A client that takes no step keeps its standing while rows are not removed, nothing of its
\* command is stored by another client and its command is not refused.
LEMMA StandingStays ==
  ASSUME TypeOK, NEW c \in Clients, CommandStands(c),
         UNCHANGED <<pc[c], dev[c], cmd[c], pending[c]>>,
         \A d \in Devices : rows[d] # NoRow => rows'[d] # NoRow,
         \A d \in Devices : cmd[c] \in Logged(d)' <=> cmd[c] \in Logged(d),
         cmd[c] # 0 => cmd[c] \notin refused'
  PROVE  CommandStands(c)'
  <1>1. pc[c] \in {"stored", "saved"} => dev[c] \in Devices
    BY DEF TypeOK
  <1>2. cmd[c] # 0 /\ pc[c] \in {"stored", "saved"} => cmd[c] \in Logged(dev[c])'
    <2>1. \A d \in Devices : dev[c] = d => Logged(dev[c])' = Logged(d)'
      BY DEF Logged
    <2> QED
      BY <1>1, <2>1 DEF CommandStands
  <1> QED
    BY <1>1, <1>2 DEF CommandStands

\* What a step may add to the answers: a refusal of a command of which nothing is stored, and
\* successes of commands that are stored under a device with a row.
RefusedRightly(c) ==
    \/ UNCHANGED refused
    \/ /\ refused' = refused \cup {cmd[c]}
       /\ cmd[c] # 0 /\ \A d \in Devices : cmd[c] \notin Logged(d)
AckedRightly ==
    \A n \in acked' \ acked : n = 0 \/ \E d \in Devices : rows[d] # NoRow /\ n \in Logged(d)

\* A step of client c that stores nothing keeps the invariant if c's command stands after it
\* and what it answers is right.
LEMMA AnswersFrame ==
  ASSUME TypeOK, AnswersInv, NEW c \in Clients,
         UNCHANGED <<events, commands>>,
         \A o \in Clients \ {c} : UNCHANGED <<pc[o], dev[o], cmd[o], pending[o]>>,
         cmd'[c] \in {0, cmd[c]},
         \A d \in Devices : rows[d] # NoRow => rows'[d] # NoRow,
         CommandStands(c)', RefusedRightly(c), AckedRightly
  PROVE  AnswersInv'
  <1>1. \A d \in Devices : Logged(d)' = Logged(d)
    BY DEF Logged
  <1>2. \A o \in Clients \ {c} : CommandStands(o)'
    <2>1. ASSUME NEW o \in Clients \ {c} PROVE CommandStands(o)'
      <3>1. CommandStands(o) /\ (cmd[o] # 0 => cmd[o] # cmd[c])
        BY DEF AnswersInv, CommandsInv
      <3>2. cmd[o] # 0 => cmd[o] \notin refused'
        BY <3>1 DEF CommandStands, RefusedRightly
      <3> QED
        BY <1>1, <3>1, <3>2, StandingStays
    <2> QED
      BY <2>1
  <1>3. \A a, o \in Clients : a # o /\ cmd'[a] # 0 => cmd'[a] # cmd'[o]
    BY DEF AnswersInv, CommandsInv
  <1>4. CommandsInv'
    BY <1>1, <1>2, <1>3 DEF AnswersInv, CommandsInv
  <1>5. AckedLogged'
    BY <1>1, AnswersLogged DEF AnswersInv, AckedLogged, AckedRightly
  <1>6. RefusedUnlogged'
    BY <1>1, AnswersLogged DEF AnswersInv, RefusedUnlogged, RefusedRightly
  <1>7. AnswersHold'
    BY <1>5, <1>6, AnswersLogged, PTL
  <1> QED
    BY <1>4, <1>7 DEF AnswersInv

\* A command that begins is a new one: nothing of it is stored, refused or under way.
LEMMA AnswersBegin ==
  ASSUME TypeOK, AnswersInv, NEW c \in Clients, NEW d \in Devices, NEW entity \in Row,
         NEW types \in Seq(EventTypes), Begin(c, d, entity, types)
  PROVE  AnswersInv'
  <1> DEFINE n == commands'
  <1>1. /\ n = commands + 1 /\ n \in Nat /\ commands \in Nat
        /\ UNCHANGED <<rows, events, acked, refused>>
        /\ pc' = [pc EXCEPT ![c] = "loaded"] /\ dev' = [dev EXCEPT ![c] = d]
        /\ cmd'[c] = IF types = <<>> THEN 0 ELSE n
        /\ pending'[c] = [i \in DOMAIN types |-> [type |-> types[i], cmd |-> n]]
        /\ \A o \in Clients \ {c} : UNCHANGED <<pc[o], dev[o], cmd[o], pending[o]>>
    BY DEF Begin, TypeOK, outcomeVars
  <1>2. \A e \in Devices : Logged(e)' = Logged(e) /\ Logged(e) \subseteq 1 .. commands
    BY <1>1 DEF Logged, AnswersInv, CommandsInv
  <1>3. \A e \in Devices : Logged(e)' \subseteq 1 .. n
    BY <1>1, <1>2
  <1> HIDE DEF n
  <1>4. CommandStands(c)'
    <2>1. pending'[c] = <<>> <=> types = <<>>
      <3>1. pending'[c] = <<>> => types = <<>>
        BY <1>1, RaisedType
      <3> QED
        BY <1>1, <3>1
    <2>2. \A i \in DOMAIN pending'[c] : pending'[c][i].cmd = cmd'[c]
      <3>1. CASE types = <<>>
        BY <2>1, <3>1
      <3>2. CASE types # <<>>
        BY <1>1, <3>2
      <3> QED
        BY <3>1, <3>2
    <2>3. n # 0 /\ n \notin refused /\ \A e \in Devices : n \notin Logged(e)
      BY <1>1, <1>2 DEF TypeOK
    <2>4. pc'[c] = "loaded"
      BY <1>1 DEF TypeOK
    <2>5. \A e \in Devices : n \notin Logged(e)'
      BY <1>2, <2>3
    <2> QED
      BY <1>1, <2>1, <2>2, <2>3, <2>4, <2>5 DEF CommandStands
  <1>5. \A o \in Clients \ {c} : CommandStands(o)'
    BY <1>1, <1>2, StandingStays DEF AnswersInv, CommandsInv, CommandStands
  <1>6. \A a, o \in Clients : a # o /\ cmd'[a] # 0 => cmd'[a] # cmd'[o]
    <2>1. \A o \in Clients : cmd[o] \in 0 .. commands
      BY DEF TypeOK
    <2>2. \A o \in Clients : cmd[o] # n
      BY <1>1, <2>1
    <2> QED
      BY <1>1, <2>2 DEF AnswersInv, CommandsInv
  <1>7. CommandsInv'
    BY <1>3, <1>4, <1>5, <1>6 DEF CommandsInv, n
  <1>8. AnswersHold'
    <2>1. AckedLogged' /\ RefusedUnlogged'
      BY <1>1, <1>2, AnswersLogged DEF AnswersInv, AckedLogged, RefusedUnlogged
    <2> QED
      BY <2>1, AnswersLogged, PTL
  <1> QED
    BY <1>7, <1>8 DEF AnswersInv

\* The events of a command are stored.
LEMMA AnswersStore ==
  ASSUME TypeOK, AnswersInv, NEW c \in Clients, StoreEvents(c)
  PROVE  AnswersInv'
  <1>1. /\ UNCHANGED <<rows, commands, dev, cmd, acked, refused>>
        /\ pending' = [pending EXCEPT ![c] = <<>>] /\ pc' = [pc EXCEPT ![c] = "stored"]
        /\ pc[c] = "checked"
    BY DEF StoreEvents, outcomeVars
  <1>2. CommandStands(c) /\ dev[c] \in Devices
    BY <1>1 DEF AnswersInv, CommandsInv, TypeOK
  <1>3. cmd[c] \in 1 .. commands /\ cmd[c] \notin refused
    BY <1>1, <1>2 DEF CommandStands, TypeOK
  <1>4. /\ Logged(dev[c])' = Logged(dev[c]) \cup {cmd[c]}
        /\ \A d \in Devices \ {dev[c]} : Logged(d)' = Logged(d)
    BY <1>2, CommandLogged, Zenon
  <1> DEFINE now == [d \in Devices |-> IF d = dev[c] THEN Logged(d) \cup {cmd[c]} ELSE Logged(d)]
  <1>5. \A d \in Devices : Logged(d)' = now[d]
    <2>1. ASSUME NEW d \in Devices, d = dev[c] PROVE Logged(d)' = Logged(dev[c]) \cup {cmd[c]}
      <3>1. Logged(d)' = Logged(dev[c])'
        BY <1>1, <2>1 DEF Logged
      <3> QED
        BY <1>4, <3>1
    <2> QED
      BY <1>4, <2>1
  <1>6. \A o \in Clients \ {c} : CommandStands(o)'
    <2>1. ASSUME NEW o \in Clients \ {c} PROVE CommandStands(o)'
      <3>1. cmd[o] # cmd[c]
        BY <1>3 DEF AnswersInv, CommandsInv
      <3>2. \A d \in Devices : cmd[o] \in Logged(d)' <=> cmd[o] \in Logged(d)
        BY <1>5, <3>1
      <3>3. UNCHANGED <<pc[o], dev[o], cmd[o], pending[o]>>
        BY <1>1 DEF TypeOK
      <3> QED
        BY <1>1, <3>2, <3>3, StandingStays DEF AnswersInv, CommandsInv, CommandStands
    <2> QED
      BY <2>1
  <1>7. CommandStands(c)'
    <2>1. cmd[c] \in Logged(dev[c])'
      BY <1>4, <1>1
    <2>2. /\ pc'[c] = "stored" /\ pending'[c] = <<>> /\ dev' = dev /\ cmd' = cmd
          /\ refused' = refused
      BY <1>1 DEF TypeOK
    <2> QED
      BY <1>3, <2>1, <2>2 DEF CommandStands
  <1>8. \A d \in Devices : Logged(d)' \subseteq 1 .. commands'
    BY <1>1, <1>3, <1>5 DEF AnswersInv, CommandsInv
  <1>9. CommandsInv'
    BY <1>1, <1>6, <1>7, <1>8 DEF AnswersInv, CommandsInv
  <1>10. AckedLogged' /\ RefusedUnlogged'
    BY <1>1, <1>3, <1>5, AnswersLogged DEF AnswersInv, AckedLogged, RefusedUnlogged
  <1>11. AnswersHold'
    BY <1>10, AnswersLogged, PTL
  <1> QED
    BY <1>9, <1>11 DEF AnswersInv

\* A client that leaves has no command any more.
LEMMA AnswersLeave ==
  ASSUME TypeOK, AnswersInv, NEW c \in Clients, Leave(c), UNCHANGED <<rows, events, commands>>,
         RefusedRightly(c), AckedRightly
  PROVE  AnswersInv'
  <1>1. /\ pc'[c] = "idle" /\ cmd'[c] = 0 /\ pending'[c] = <<>>
        /\ \A o \in Clients \ {c} : UNCHANGED <<pc[o], dev[o], cmd[o], pending[o]>>
    BY DEF Leave, TypeOK
  <1>2. CommandStands(c)'
    BY <1>1 DEF CommandStands
  <1> QED
    BY <1>1, <1>2, AnswersFrame

\* Every statement of save(), and every fault, keeps the answers.
LEMMA AnswersSave ==
  ASSUME TypeOK, AnswersInv, NEW c \in Clients, Save(c) \/ Fault(c)
  PROVE  AnswersInv'
  <1>1. CommandStands(c)
    BY DEF AnswersInv, CommandsInv
  <1>2. UNCHANGED <<acked, refused>> => AckedRightly /\ RefusedRightly(c)
    BY DEF AckedRightly, RefusedRightly
  <1>3. CASE LoadExisting(c)
    <2>1. /\ UNCHANGED <<rows, events, commands, dev, cmd, pending, acked, refused>>
          /\ pc'[c] = IF pending[c] = <<>> THEN "stored" ELSE "existing"
          /\ pc[c] = "loaded"
          /\ \A o \in Clients \ {c} : UNCHANGED pc[o]
      BY <1>3 DEF LoadExisting, TypeOK, outcomeVars
    <2>2. \A d \in Devices : Logged(d)' = Logged(d)
      BY <2>1 DEF Logged
    <2>3. CommandStands(c)'
      BY <1>1, <2>1, <2>2 DEF CommandStands
    <2> QED
      BY <1>2, <2>1, <2>3, AnswersFrame
  <1>4. CASE CheckVersion(c)
    <2>1. /\ UNCHANGED <<rows, events, commands, dev, cmd, pending, acked, refused>>
          /\ pc'[c] = "checked" /\ pc[c] = "existing"
          /\ \A o \in Clients \ {c} : UNCHANGED pc[o]
      BY <1>4 DEF CheckVersion, TypeOK, outcomeVars
    <2>2. \A d \in Devices : Logged(d)' = Logged(d)
      BY <2>1 DEF Logged
    <2>3. CommandStands(c)'
      BY <1>1, <2>1, <2>2 DEF CommandStands
    <2> QED
      BY <1>2, <2>1, <2>3, AnswersFrame
  <1>5. CASE Conflict(c)
    <2>1. /\ cmd[c] # 0 /\ \A d \in Devices : cmd[c] \notin Logged(d)
          /\ Leave(c) /\ UNCHANGED <<rows, events, commands, acked>>
          /\ refused' = refused \cup {cmd[c]}
      BY <1>1, <1>5 DEF Conflict, CommandStands
    <2>2. AckedRightly /\ RefusedRightly(c)
      BY <2>1 DEF AckedRightly, RefusedRightly
    <2> QED
      BY <2>1, <2>2, AnswersLeave
  <1>6. CASE StoreEvents(c)
    BY <1>6, AnswersStore
  <1>7. CASE CommitRow(c)
    <2>1. /\ UNCHANGED <<events, commands, dev, cmd, pending, acked, refused>>
          /\ pc'[c] = "saved" /\ pc[c] = "stored"
          /\ \A o \in Clients \ {c} : UNCHANGED pc[o]
      BY <1>7 DEF CommitRow, TypeOK, outcomeVars
    <2>2. PICK theRow \in Row : rows' = [rows EXCEPT ![dev[c]] = theRow]
      BY <1>7, RowCommitted
    <2>3. /\ dev[c] \in Devices /\ rows'[dev[c]] # NoRow
          /\ \A d \in Devices : rows[d] # NoRow => rows'[d] # NoRow
      BY <2>1, <2>2 DEF TypeOK
    <2>4. Logged(dev[c])' = Logged(dev[c])
      BY <2>1 DEF Logged
    <2>5. CommandStands(c)'
      BY <1>1, <2>1, <2>3, <2>4 DEF CommandStands
    <2> QED
      BY <1>2, <2>1, <2>3, <2>5, AnswersFrame
  <1>8. CASE RowRefused(c) \/ Fault(c)
    BY <1>2, <1>8, AnswersLeave DEF RowRefused, Fault, outcomeVars
  <1>9. CASE CommitUnitOfWork(c)
    <2>1. /\ Leave(c) /\ UNCHANGED <<rows, events, commands, refused>>
          /\ acked' = acked \cup {cmd[c]} /\ pc[c] = "saved"
      BY <1>9 DEF CommitUnitOfWork
    <2>2. cmd[c] = 0 \/ \E d \in Devices : rows[d] # NoRow /\ cmd[c] \in Logged(d)
      BY <1>1, <2>1 DEF CommandStands, TypeOK
    <2>3. AckedRightly /\ RefusedRightly(c)
      BY <2>1, <2>2 DEF AckedRightly, RefusedRightly
    <2> QED
      BY <2>1, <2>3, AnswersLeave
  <1> QED
    BY <1>3, <1>4, <1>5, <1>6, <1>7, <1>8, <1>9 DEF Save

\* Every step keeps them.
LEMMA AnswersNext == TypeOK /\ AnswersInv /\ [StoreNext]_vars => AnswersInv'
  <1> SUFFICES ASSUME TypeOK, AnswersInv, [StoreNext]_vars PROVE AnswersInv'
    OBVIOUS
  <1>1. CASE UNCHANGED vars
    <2>1. UNCHANGED <<rows, events, commands, pc, dev, cmd, pending, acked, refused>>
      BY <1>1 DEF vars, clientVars, outcomeVars
    <2>2. \A d \in Devices : Logged(d)' = Logged(d)
      BY <2>1 DEF Logged
    <2>3. \A c \in Clients : CommandStands(c)'
      BY <2>1, <2>2, StandingStays DEF AnswersInv, CommandsInv, CommandStands
    <2>4. AnswersHold'
      BY <2>1 DEF AnswersInv, AnswersHold, AckedIsStored, ConflictLeavesNothing
    <2> QED
      BY <2>1, <2>2, <2>3, <2>4 DEF AnswersInv, CommandsInv
  <1>2. ASSUME NEW c \in Clients, Save(c) \/ Fault(c) PROVE AnswersInv'
    BY <1>2, AnswersSave
  <1>3. ASSUME NEW c \in Clients, NEW d \in Devices,
               \/ \E s \in Serials : Register(c, d, s)
               \/ \E kind \in Kinds : Change(c, d, kind)
        PROVE  AnswersInv'
    BY <1>3, CommandBegins, AnswersBegin
  <1> QED
    BY <1>1, <1>2, <1>3 DEF StoreNext

\* Whatever races and fails: a command that was acknowledged has its events in the store,
\* under a device with a row, and one refused with a conflict has left none there.
THEOREM AnswersAreTrue == StoreSpec => []AnswersHold
  <1>1. StoreInit => TypeOK /\ AnswersInv
    BY TypeInit, AnswersInit
  <1>2. TypeOK /\ AnswersInv /\ [StoreNext]_vars => (TypeOK /\ AnswersInv)'
    BY TypeNext, AnswersNext
  <1>3. AnswersInv => AnswersHold
    BY DEF AnswersInv
  <1> QED
    BY <1>1, <1>2, <1>3, PTL DEF StoreSpec

-----------------------------------------------------------------------------
(* Aggregates in memory *)

\* Each device's aggregate: its version, its events, and its metrics.
MemoryTypeOK ==
    /\ versionOf \in [MemoryDevices -> Nat] /\ raised \in Nat
    /\ uncommitted \in [MemoryDevices -> Seq(Nat)] /\ streams \in [MemoryDevices -> Seq(Nat)]
    /\ outstanding \in [MemoryDevices -> Seq(Nat)]
    /\ metricsOf \in [MemoryDevices -> Seq(Nat)] /\ measured \in [MemoryDevices -> Seq(Nat)]

\* Where a sequence ends like another one.
EndsLike(s, all) ==
    /\ Len(s) <= Len(all)
    /\ \A i \in 1 .. Len(s) : s[i] = all[Len(all) - Len(s) + i]

\* The version of a device counts the events it has raised, stored or not.
VersionsCount ==
    \A d \in MemoryDevices : d \notin odd => Len(streams[d]) + Len(uncommitted[d]) = versionOf[d]

MetricsKept ==
    \A d \in MemoryDevices :
        /\ EndsLike(metricsOf[d], measured[d])
        /\ Len(metricsOf[d]) = IF Len(measured[d]) < MaxHistory THEN Len(measured[d]) ELSE MaxHistory

MemoryIndInv == MemoryTypeOK /\ StoredOnce /\ VersionsCount /\ MetricsKept

LEMMA MemoryInitially == MemoryInit => MemoryIndInv
  <1> SUFFICES ASSUME MemoryInit PROVE MemoryIndInv
    OBVIOUS
  <1> USE DEF MemoryInit
  <1>1. <<>> \in Seq(Nat) /\ Len(<<>>) = 0 /\ <<>> \o <<>> = <<>>
    OBVIOUS
  <1>2. MemoryTypeOK
    BY <1>1 DEF MemoryTypeOK
  <1>3. StoredOnce
    BY <1>1 DEF StoredOnce
  <1>4. VersionsCount
    BY <1>1 DEF VersionsCount
  <1>5. MetricsKept
    BY <1>1, MemoryAssumption DEF MetricsKept, EndsLike
  <1> QED
    BY <1>2, <1>3, <1>4, <1>5 DEF MemoryIndInv

\* The newest of the metrics and one more are the newest of all of them and that one.
LEMMA NewestKept ==
  ASSUME NEW s \in Seq(Nat), NEW all \in Seq(Nat), NEW x \in Nat, EndsLike(s, all),
         Len(s) = IF Len(all) < MaxHistory THEN Len(all) ELSE MaxHistory
  PROVE  LET t == Newest(Append(s, x))
             more == Append(all, x)
         IN /\ t \in Seq(Nat) /\ EndsLike(t, more)
            /\ Len(t) = IF Len(more) < MaxHistory THEN Len(more) ELSE MaxHistory
  <1> DEFINE a == Append(s, x)
             t == Newest(a)
             more == Append(all, x)
  <1>1. /\ a \in Seq(Nat) /\ Len(a) = Len(s) + 1 /\ Len(s) \in Nat
        /\ more \in Seq(Nat) /\ Len(more) = Len(all) + 1 /\ Len(all) \in Nat
        /\ \A i \in 1 .. Len(s) : a[i] = s[i] /\ a[Len(s) + 1] = x
        /\ \A i \in 1 .. Len(all) : more[i] = all[i] /\ more[Len(all) + 1] = x
    BY AppendProperties, LenProperties, SMTT(20)
  <1>2. MaxHistory \in Nat /\ Len(s) <= Len(all) /\ \A i \in 1 .. Len(s) : s[i] = all[Len(all) - Len(s) + i]
    BY MemoryAssumption DEF EndsLike
  <1>3. \A i \in 1 .. Len(a) : a[i] = more[Len(more) - Len(a) + i]
    <2> SUFFICES ASSUME NEW i \in 1 .. Len(a) PROVE a[i] = more[Len(more) - Len(a) + i]
      OBVIOUS
    <2>1. CASE i = Len(s) + 1
      <3>1. a[i] = x /\ Len(more) - Len(a) + i = Len(all) + 1 /\ more[Len(all) + 1] = x
        <4>1. a[Len(s) + 1] = x /\ more[Len(all) + 1] = x
          BY AppendProperties
        <4> QED
          BY <1>1, <2>1, <4>1
      <3> QED
        BY <3>1
    <2>2. CASE i # Len(s) + 1
      <3> DEFINE k == Len(all) - Len(s) + i
      <3>1. i \in 1 .. Len(s) /\ k \in 1 .. Len(all) /\ Len(more) - Len(a) + i = k
        BY <1>1, <1>2, <2>2
      <3> HIDE DEF k
      <3>2. a[i] = s[i] /\ more[k] = all[k]
        BY <1>1, <3>1
      <3>3. s[i] = all[k]
        BY <1>2, <3>1 DEF k
      <3> QED
        BY <3>1, <3>2, <3>3
    <2> QED
      BY <2>1, <2>2
  <1> HIDE DEF a, more
  <1>6. /\ Len(a) \in Nat /\ Len(more) \in Nat /\ Len(s) \in Nat /\ Len(all) \in Nat
        /\ Len(a) = Len(s) + 1 /\ Len(more) = Len(all) + 1
    BY <1>1
  <1>4. CASE Len(a) <= MaxHistory
    <2>1. t = a
      <3>1. ~(Len(a) > MaxHistory)
        BY <1>2, <1>4, <1>6
      <3> QED
        BY <3>1 DEF Newest
    <2>2. Len(a) <= Len(more) /\ Len(a) = IF Len(more) < MaxHistory THEN Len(more) ELSE MaxHistory
      BY <1>2, <1>4, <1>6
    <2> QED
      BY <1>1, <1>3, <2>1, <2>2 DEF EndsLike, a, more
  <1>5. CASE ~(Len(a) <= MaxHistory)
    <2> DEFINE k == Len(a) - MaxHistory
    <2>1. t = SubSeq(a, k + 1, Len(a)) /\ k \in Nat /\ k <= Len(a)
      <3>1. Len(a) > MaxHistory /\ k \in Nat /\ k <= Len(a)
        BY <1>2, <1>5, <1>6
      <3> QED
        BY <3>1 DEF Newest
    <2> HIDE DEF k, t
    <2>2. /\ t \in Seq(Nat) /\ Len(t) = Len(a) - k
          /\ \A i \in 1 .. Len(a) - k : t[i] = a[k + i]
      <3>1. \A i \in (k + 1) .. Len(a) : a[i] \in Nat
        BY <1>1, <2>1, SMTT(20)
      <3>2. SubSeq(a, k + 1, Len(a)) \in Seq(Nat) /\ Len(SubSeq(a, k + 1, Len(a))) = Len(a) - k
        <4> DEFINE m == k + 1  n == Len(a)
        <4>1. m \in Int /\ n \in Int /\ \A i \in m .. n : a[i] \in Nat
          BY <1>6, <2>1, <3>1
        <4>2. (IF m <= n THEN n - m + 1 ELSE 0) = Len(a) - k
          BY <1>6, <2>1
        <4> HIDE DEF m, n
        <4>3. SubSeq(a, m, n) \in Seq(Nat) /\ Len(SubSeq(a, m, n)) = IF m <= n THEN n - m + 1 ELSE 0
          BY <4>1, SubSeqProperties
        <4> QED
          BY <4>2, <4>3 DEF m, n
      <3>3. \A i \in 1 .. Len(a) - k : SubSeq(a, k + 1, Len(a))[i] = a[k + i]
        BY <1>1, <2>1, <3>1, SubSeqProperties, SMTT(20)
      <3> QED
        BY <2>1, <3>2, <3>3
    <2>3. Len(t) = MaxHistory
      BY <1>1, <1>2, <2>2 DEF k
    <2>4. Len(t) <= Len(more) /\ MaxHistory = IF Len(more) < MaxHistory THEN Len(more) ELSE MaxHistory
      BY <1>1, <1>2, <1>5, <2>3
    <2>5. \A i \in 1 .. Len(t) : t[i] = more[Len(more) - Len(t) + i]
      <3> SUFFICES ASSUME NEW i \in 1 .. Len(t) PROVE t[i] = more[Len(more) - Len(t) + i]
        OBVIOUS
      <3>1. k + i \in 1 .. Len(a) /\ i \in 1 .. Len(a) - k
        <4>1. k \in Nat /\ Len(t) = Len(a) - k /\ k <= Len(a)
          BY <2>1, <2>2
        <4> QED
          BY <1>6, <4>1
      <3>2. Len(more) - Len(a) + (k + i) = Len(more) - Len(t) + i
        <4>1. k \in Nat /\ Len(t) = Len(a) - k /\ i \in Nat
          BY <2>1, <2>2, <3>1
        <4> DEFINE n == Len(a)  o == Len(t)  p == Len(more)
        <4>2. n \in Nat /\ p \in Nat /\ k \in Nat /\ o = n - k /\ i \in Nat
          BY <1>6, <4>1
        <4> HIDE DEF n, o, p
        <4>3. p - n + (k + i) = p - o + i
          BY <4>2
        <4> QED
          BY <4>3 DEF n, o, p
      <3> QED
        BY <1>3, <2>2, <3>1, <3>2
    <2> QED
      BY <2>2, <2>3, <2>4, <2>5 DEF EndsLike, t, a, more
  <1> QED
    BY <1>1, <1>2, <1>4, <1>5 DEF t, a, more

\* What raising an event does to the books of a device.
LEMMA EventIsOutstanding ==
  ASSUME MemoryTypeOK, StoredOnce, NEW d \in MemoryDevices, AddEvent(d)
  PROVE  /\ uncommitted' \in [MemoryDevices -> Seq(Nat)] /\ outstanding' \in [MemoryDevices -> Seq(Nat)]
         /\ raised' \in Nat /\ streams' = streams /\ StoredOnce'
         /\ \A e \in MemoryDevices : Len(uncommitted'[e]) = Len(uncommitted[e]) + (IF e = d THEN 1 ELSE 0)
  <1>1. /\ raised' \in Nat /\ streams' = streams
        /\ uncommitted' = [uncommitted EXCEPT ![d] = Append(@, raised')]
        /\ outstanding' = [outstanding EXCEPT ![d] = Append(@, raised')]
    BY DEF AddEvent, MemoryTypeOK, memoryStoreVars
  <1>2. \A e \in MemoryDevices :
          /\ uncommitted[e] \in Seq(Nat) /\ outstanding[e] \in Seq(Nat) /\ streams[e] \in Seq(Nat)
          /\ uncommitted'[e] = IF e = d THEN Append(uncommitted[e], raised') ELSE uncommitted[e]
          /\ outstanding'[e] = IF e = d THEN Append(outstanding[e], raised') ELSE outstanding[e]
    BY <1>1 DEF MemoryTypeOK
  <1>3. \A s \in Seq(Nat), t \in Seq(Nat), x \in Nat : s \o Append(t, x) = Append(s \o t, x)
    <2> SUFFICES ASSUME NEW s \in Seq(Nat), NEW t \in Seq(Nat), NEW x \in Nat
                 PROVE  s \o Append(t, x) = Append(s \o t, x)
      OBVIOUS
    <2>1. Append(t, x) = t \o <<x>> /\ Append(s \o t, x) = (s \o t) \o <<x>>
      BY AppendIsConcat, ConcatProperties
    <2> QED
      BY <2>1, ConcatAssociative
  <1>4. StoredOnce'
    <2> SUFFICES ASSUME NEW e \in MemoryDevices PROVE streams'[e] \o uncommitted'[e] = outstanding'[e]
      BY DEF StoredOnce
    <2>1. /\ streams[e] \o uncommitted[e] = outstanding[e] /\ streams' = streams /\ raised' \in Nat
          /\ uncommitted[e] \in Seq(Nat) /\ streams[e] \in Seq(Nat)
      BY <1>1, <1>2 DEF StoredOnce
    <2>2. streams[e] \o Append(uncommitted[e], raised') = Append(streams[e] \o uncommitted[e], raised')
      BY <1>3, <2>1
    <2>3. CASE e = d
      <3>1. /\ uncommitted'[e] = Append(uncommitted[e], raised')
            /\ outstanding'[e] = Append(outstanding[e], raised')
        BY <1>2, <2>3
      <3> QED
        BY <2>1, <2>2, <3>1, Zenon
    <2>4. CASE e # d
      <3>1. uncommitted'[e] = uncommitted[e] /\ outstanding'[e] = outstanding[e]
        BY <1>2, <2>4
      <3> QED
        BY <2>1, <3>1, Zenon
    <2> QED
      BY <2>3, <2>4
  <1>5. \A e \in MemoryDevices : Len(uncommitted'[e]) = Len(uncommitted[e]) + (IF e = d THEN 1 ELSE 0)
    <2> SUFFICES ASSUME NEW e \in MemoryDevices
                 PROVE  Len(uncommitted'[e]) = Len(uncommitted[e]) + (IF e = d THEN 1 ELSE 0)
      OBVIOUS
    <2>1. Len(uncommitted[e]) \in Nat /\ Len(Append(uncommitted[e], raised')) = Len(uncommitted[e]) + 1
      BY <1>1, <1>2, AppendProperties, LenProperties
    <2>2. uncommitted'[e] = IF e = d THEN Append(uncommitted[e], raised') ELSE uncommitted[e]
      BY <1>2
    <2>3. CASE e = d
      BY <2>1, <2>2, <2>3
    <2>4. CASE e # d
      BY <2>1, <2>2, <2>4
    <2> QED
      BY <2>3, <2>4
  <1>6. uncommitted' \in [MemoryDevices -> Seq(Nat)] /\ outstanding' \in [MemoryDevices -> Seq(Nat)]
    BY <1>1, AppendProperties DEF MemoryTypeOK
  <1> QED
    BY <1>1, <1>4, <1>5, <1>6

LEMMA MemoryKeeps == MemoryIndInv /\ [MemoryNext]_memoryVars => MemoryIndInv'
  <1> SUFFICES ASSUME MemoryIndInv, [MemoryNext]_memoryVars PROVE MemoryIndInv'
    OBVIOUS
  <1>0. /\ MemoryTypeOK /\ StoredOnce /\ VersionsCount /\ MetricsKept
        /\ \A d \in MemoryDevices : /\ versionOf[d] \in Nat
                                    /\ Len(streams[d]) \in Nat /\ Len(uncommitted[d]) \in Nat
    BY LenProperties DEF MemoryIndInv, MemoryTypeOK
  <1>1. ASSUME NEW d \in MemoryDevices, CreateDevice(d) \/ UpdateDevice(d) \/ ConfigureDevice(d) \/ RecordMetrics(d)
        PROVE  MemoryIndInv'
    <2>1. AddEvent(d)
      BY <1>1 DEF CreateDevice, UpdateDevice, ConfigureDevice, RecordMetrics
    <2>2. /\ uncommitted' \in [MemoryDevices -> Seq(Nat)] /\ outstanding' \in [MemoryDevices -> Seq(Nat)]
          /\ raised' \in Nat /\ streams' = streams /\ StoredOnce'
          /\ \A e \in MemoryDevices : Len(uncommitted'[e]) = Len(uncommitted[e]) + (IF e = d THEN 1 ELSE 0)
      BY <1>0, <2>1, EventIsOutstanding
    <2>3. /\ versionOf' \in [MemoryDevices -> Nat] /\ odd \subseteq odd'
          /\ \A e \in MemoryDevices : e \notin odd' =>
                versionOf'[e] = versionOf[e] + (IF e = d THEN 1 ELSE 0)
      <3>0. versionOf \in [MemoryDevices -> Nat]
        BY <1>0 DEF MemoryTypeOK
      <3>1. CASE ConfigureDevice(d)
        BY <3>0, <3>1 DEF ConfigureDevice
      <3>2. CASE CreateDevice(d) \/ UpdateDevice(d) \/ RecordMetrics(d)
        <4>1. odd' = odd /\ versionOf' = [versionOf EXCEPT ![d] = versionOf[d] + 1]
          BY <3>0, <3>2 DEF CreateDevice, UpdateDevice, RecordMetrics
        <4> QED
          BY <3>0, <4>1
      <3> QED
        BY <1>1, <3>1, <3>2
    <2>4. VersionsCount'
      <3> SUFFICES ASSUME NEW e \in MemoryDevices, e \notin odd'
                   PROVE  Len(streams'[e]) + Len(uncommitted'[e]) = versionOf'[e]
        BY DEF VersionsCount
      <3>1. Len(streams[e]) + Len(uncommitted[e]) = versionOf[e]
        BY <1>0, <2>3 DEF VersionsCount
      <3>2. /\ versionOf[e] \in Nat /\ Len(streams[e]) \in Nat /\ Len(uncommitted[e]) \in Nat
            /\ streams' = streams
            /\ Len(uncommitted'[e]) = Len(uncommitted[e]) + (IF e = d THEN 1 ELSE 0)
            /\ versionOf'[e] = versionOf[e] + (IF e = d THEN 1 ELSE 0)
        BY <1>0, <2>2, <2>3
      <3> DEFINE n == Len(streams[e])  k == Len(uncommitted[e])  v == versionOf[e]
      <3>3. Len(streams'[e]) = n /\ n + k = v /\ n \in Nat /\ k \in Nat /\ v \in Nat
        BY <3>1, <3>2
      <3>4. CASE e = d
        <4>1. Len(uncommitted'[e]) = k + 1 /\ versionOf'[e] = v + 1
          BY <3>2, <3>4
        <4> HIDE DEF n, k, v
        <4> QED
          BY <3>3, <4>1
      <3>5. CASE e # d
        <4>1. Len(uncommitted'[e]) = k + 0 /\ versionOf'[e] = v + 0
          BY <3>2, <3>5
        <4> HIDE DEF n, k, v
        <4> QED
          BY <3>3, <4>1
      <3> QED
        BY <3>4, <3>5
    <2>5. MetricsKept' /\ metricsOf' \in [MemoryDevices -> Seq(Nat)] /\ measured' \in [MemoryDevices -> Seq(Nat)]
      <3>1. CASE UNCHANGED <<metricsOf, measured>>
        BY <1>0, <3>1 DEF MetricsKept, MemoryTypeOK
      <3>2. CASE RecordMetrics(d)
        <4>1. /\ metricsOf' = [metricsOf EXCEPT ![d] = Newest(Append(@, raised'))]
              /\ measured' = [measured EXCEPT ![d] = Append(@, raised')]
          BY <3>2 DEF RecordMetrics
        <4>2. \A e \in MemoryDevices :
                /\ metricsOf[e] \in Seq(Nat) /\ measured[e] \in Seq(Nat) /\ EndsLike(metricsOf[e], measured[e])
                /\ Len(metricsOf[e]) = IF Len(measured[e]) < MaxHistory THEN Len(measured[e]) ELSE MaxHistory
          BY <1>0 DEF MetricsKept, MemoryTypeOK
        <4>3. /\ Newest(Append(metricsOf[d], raised')) \in Seq(Nat)
              /\ EndsLike(Newest(Append(metricsOf[d], raised')), Append(measured[d], raised'))
              /\ Len(Newest(Append(metricsOf[d], raised')))
                   = IF Len(Append(measured[d], raised')) < MaxHistory
                     THEN Len(Append(measured[d], raised')) ELSE MaxHistory
          BY <2>2, <4>2, NewestKept
        <4>4. Append(measured[d], raised') \in Seq(Nat)
          BY <2>2, <4>2, AppendProperties
        <4>5. metricsOf' \in [MemoryDevices -> Seq(Nat)] /\ measured' \in [MemoryDevices -> Seq(Nat)]
          BY <1>0, <4>1, <4>3, <4>4 DEF MemoryTypeOK
        <4>6. \A e \in MemoryDevices :
                /\ metricsOf'[e] = IF e = d THEN Newest(Append(metricsOf[d], raised')) ELSE metricsOf[e]
                /\ measured'[e] = IF e = d THEN Append(measured[d], raised') ELSE measured[e]
          BY <1>0, <4>1 DEF MemoryTypeOK
        <4> QED
          BY <4>2, <4>3, <4>5, <4>6 DEF MetricsKept
      <3> QED
        BY <1>1, <3>1, <3>2 DEF CreateDevice, UpdateDevice, ConfigureDevice
    <2>6. MemoryTypeOK'
      BY <1>0, <2>2, <2>3, <2>5 DEF MemoryTypeOK
    <2> QED
      BY <2>2, <2>4, <2>5, <2>6 DEF MemoryIndInv
  <1>2. CASE Commit
    <2> DEFINE done == {tracked[i] : i \in 1 .. Accepted(tracked)}
    <2>1. /\ streams' = [d \in MemoryDevices |-> IF d \in done THEN streams[d] \o uncommitted[d] ELSE streams[d]]
          /\ uncommitted' = [d \in MemoryDevices |-> IF d \in done THEN <<>> ELSE uncommitted[d]]
          /\ UNCHANGED <<versionOf, metricsOf, raised, outstanding, measured, odd>>
      BY <1>2 DEF Commit, Forgotten
    <2> HIDE DEF done
    <2>2. ASSUME NEW d \in MemoryDevices
          PROVE  /\ streams'[d] \in Seq(Nat) /\ uncommitted'[d] \in Seq(Nat)
                 /\ streams'[d] \o uncommitted'[d] = streams[d] \o uncommitted[d]
                 /\ Len(streams'[d]) + Len(uncommitted'[d]) = Len(streams[d]) + Len(uncommitted[d])
      <3>1. streams[d] \in Seq(Nat) /\ uncommitted[d] \in Seq(Nat)
        BY <1>0 DEF MemoryTypeOK
      <3>2. /\ streams[d] \o uncommitted[d] \in Seq(Nat)
            /\ Len(streams[d] \o uncommitted[d]) = Len(streams[d]) + Len(uncommitted[d])
        BY <3>1, ConcatProperties
      <3>3. (streams[d] \o uncommitted[d]) \o <<>> = streams[d] \o uncommitted[d] /\ Len(<<>>) = 0
        BY <3>2, ConcatEmptySeq
      <3>4. CASE d \in done
        <4>1. streams'[d] = streams[d] \o uncommitted[d] /\ uncommitted'[d] = <<>>
          BY <2>1, <3>4
        <4>2. Len(streams[d] \o uncommitted[d]) + Len(<<>>) = Len(streams[d]) + Len(uncommitted[d])
          BY <1>0, <3>2, <3>3
        <4>3. <<>> \in Seq(Nat)
          OBVIOUS
        <4> QED
          BY <3>2, <3>3, <4>1, <4>2, <4>3
      <3>5. CASE d \notin done
        BY <2>1, <3>1, <3>5
      <3> QED
        BY <3>4, <3>5
    <2>3. streams' \in [MemoryDevices -> Seq(Nat)] /\ uncommitted' \in [MemoryDevices -> Seq(Nat)]
      BY <2>1, <2>2
    <2>4. MemoryTypeOK' /\ MetricsKept'
      BY <1>0, <2>1, <2>3 DEF MemoryTypeOK, MetricsKept
    <2>5. StoredOnce' /\ VersionsCount'
      BY <1>0, <2>1, <2>2 DEF StoredOnce, VersionsCount
    <2> QED
      BY <2>4, <2>5 DEF MemoryIndInv
  <1>3. CASE ClearMemory
    <2>1. /\ streams' = [d \in MemoryDevices |-> <<>>] /\ outstanding' = uncommitted
          /\ odd' = odd \cup {d \in MemoryDevices : streams[d] # <<>>}
          /\ UNCHANGED <<versionOf, uncommitted, metricsOf, raised, measured>>
      BY <1>3 DEF ClearMemory
    <2>2. MemoryTypeOK' /\ MetricsKept'
      BY <1>0, <2>1 DEF MemoryTypeOK, MetricsKept
    <2>3. \A s \in Seq(Nat) : <<>> \o s = s
      BY ConcatEmptySeq
    <2>4. StoredOnce'
      BY <1>0, <2>1, <2>3 DEF StoredOnce, MemoryTypeOK
    <2>5. VersionsCount'
      BY <1>0, <2>1 DEF VersionsCount
    <2> QED
      BY <2>2, <2>4, <2>5 DEF MemoryIndInv
  <1>4. CASE UNCHANGED <<aggregateVars, memoryStoreVars, odd>>
    BY <1>0, <1>4 DEF aggregateVars, memoryStoreVars, MemoryIndInv, MemoryTypeOK, StoredOnce, VersionsCount,
                      MetricsKept
  <1> QED
    BY <1>1, <1>2, <1>3, <1>4 DEF MemoryNext, SaveDevice, DropDevice, Track, CommitAgain, Rollback, memoryVars,
                                  unitVars

LEMMA MemoryBooksRight == MemoryIndInv => StoredOnce /\ NeverRefusedInVain /\ LatestMetrics
  <1> SUFFICES ASSUME MemoryIndInv PROVE StoredOnce /\ NeverRefusedInVain /\ LatestMetrics
    OBVIOUS
  <1>1. NeverRefusedInVain
    BY LenProperties DEF MemoryIndInv, MemoryTypeOK, VersionsCount, NeverRefusedInVain, Refused
  <1>2. LatestMetrics
    <2> SUFFICES ASSUME NEW d \in MemoryDevices PROVE IsSuffix(metricsOf[d], measured[d])
      BY DEF MemoryIndInv, MetricsKept, LatestMetrics
    <2>1. PICK s \in Seq(Nat), all \in Seq(Nat) :
            s = metricsOf[d] /\ all = measured[d] /\ EndsLike(s, all)
      BY DEF MemoryIndInv, MemoryTypeOK, MetricsKept
    <2>2. /\ Len(s) \in Nat /\ Len(all) \in Nat /\ Len(s) <= Len(all)
          /\ \A i \in 1 .. Len(s) : s[i] = all[Len(all) - Len(s) + i]
      BY <2>1, LenProperties DEF EndsLike
    <2>3. /\ Reverse(s) \in Seq(Nat) /\ Len(Reverse(s)) = Len(s)
          /\ \A i \in 1 .. Len(s) : Reverse(s)[i] = s[Len(s) - i + 1]
      BY <2>2, SMTT(30) DEF Reverse
    <2>4. /\ Reverse(all) \in Seq(Nat) /\ Len(Reverse(all)) = Len(all)
          /\ \A i \in 1 .. Len(all) : Reverse(all)[i] = all[Len(all) - i + 1]
      BY <2>2 DEF Reverse
    <2>5. \A i \in 1 .. Len(s) : Reverse(s)[i] = Reverse(all)[i]
      <3> SUFFICES ASSUME NEW i \in 1 .. Len(s) PROVE Reverse(s)[i] = Reverse(all)[i]
        OBVIOUS
      <3>1. Len(s) - i + 1 \in 1 .. Len(s) /\ i \in 1 .. Len(all)
        BY <2>2
      <3>2. s[Len(s) - i + 1] = all[Len(all) - Len(s) + (Len(s) - i + 1)]
        BY <2>2, <3>1
      <3>3. Len(all) - Len(s) + (Len(s) - i + 1) = Len(all) - i + 1
        BY <2>2
      <3> QED
        BY <2>3, <2>4, <3>1, <3>2, <3>3
    <2>6. Reverse(s) = SubSeq(Reverse(all), 1, Len(s))
      <3>1. \A i \in 1 .. Len(s) : Reverse(all)[i] \in Nat
        <4> SUFFICES ASSUME NEW i \in 1 .. Len(s) PROVE Reverse(all)[i] \in Nat
          OBVIOUS
        <4>1. i \in 1 .. Len(Reverse(all))
          BY <2>2, <2>4
        <4> QED
          BY <2>4, <4>1, ElementOfSeq
      <3>2. /\ SubSeq(Reverse(all), 1, Len(s)) \in Seq(Nat)
            /\ Len(SubSeq(Reverse(all), 1, Len(s))) = Len(s)
            /\ \A i \in 1 .. Len(s) : SubSeq(Reverse(all), 1, Len(s))[i] = Reverse(all)[i]
        BY <2>2, <2>4, <3>1, SubSeqProperties
      <3> QED
        BY <2>3, <2>5, <3>2, SeqEqual
    <2>7. SubSeq(Reverse(s), 1, Len(s)) = Reverse(s)
      BY <2>3, SubSeqFull
    <2> QED
      BY <2>1, <2>2, <2>3, <2>4, <2>6, <2>7 DEF IsSuffix, IsPrefix
  <1> QED
    BY <1>1, <1>2 DEF MemoryIndInv

-----------------------------------------------------------------------------
(* A client that is alone *)

\* Why the versions agree for a client that is alone: its aggregate is ahead of the stored events by those it
\* has raised, and the row its session loaded is the one that is there.
Level(c) ==
    /\ pc[c] \in {"loaded", "existing", "checked"} =>
          agg[c].version = Len(events[dev[c]]) + Len(pending[c]) /\ seen[c] = Len(events[dev[c]])
    /\ pc[c] \in {"existing", "checked", "stored"} => existing[c] = rows[dev[c]]
    /\ pc[c] \in {"stored", "saved"} => agg[c].version = Len(events[dev[c]])
    /\ pc[c] = "saved" => rows[dev[c]] # NoRow /\ rows[dev[c]].version = Len(events[dev[c]])

AloneInv == TypeOK /\ VersionMatchesEvents /\ EventsNumbered /\ \A c \in Clients : Level(c)

\* Kinds of commands that do not configure: those count in a version of their own.
PlainKinds == Kinds \cap {"configure", "registerConfigured"} = {}
Alone == Clients # {} /\ \A c, o \in Clients : c = o

LEMMA AloneInitially == StoreInit => AloneInv
  BY TypeInit DEF StoreInit, AloneInv, VersionMatchesEvents, EventsNumbered, Level

\* The events a command raises are as many as it counts on the version.
LEMMA LevelCommand ==
  ASSUME AloneInv, PlainKinds, NEW c \in Clients, NEW d \in Devices, \A o \in Clients : o = c,
         \/ \E s \in Serials : Register(c, d, s)
         \/ \E kind \in Kinds : Change(c, d, kind)
  PROVE  \E entity \in Row, types \in Seq(EventTypes) :
            Begin(c, d, entity, types) /\ entity.version = Len(events[d]) + Len(types)
  <1>1. ASSUME NEW s \in Serials, Register(c, d, s)
        PROVE  \E entity \in Row, types \in Seq(EventTypes) :
                  Begin(c, d, entity, types) /\ entity.version = Len(events[d]) + Len(types)
    <2>1. Begin(c, d, NewRow(s), <<"registered">>) /\ events[d] = <<>>
      BY <1>1 DEF Register, PlainKinds
    <2>2. NewRow(s) \in Row /\ NewRow(s).version = 1 /\ <<"registered">> \in Seq(EventTypes)
          /\ Len(<<"registered">>) = 1 /\ Len(events[d]) = 0
      <3>1. <<"registered">> \in Seq(EventTypes) /\ Len(<<"registered">>) = 1
        BY DEF EventTypes
      <3>2. events[d] = <<>> => Len(events[d]) = 0
        OBVIOUS
      <3> QED
        BY <2>1, <3>1, <3>2 DEF NewRow, Row
    <2>3. NewRow(s).version = Len(events[d]) + Len(<<"registered">>)
      BY <2>2
    <2>4. PICK ts \in Seq(EventTypes) : ts = <<"registered">>
      BY <2>2
    <2> QED
      BY <2>1, <2>2, <2>3, <2>4
  <1>2. ASSUME NEW kind \in Kinds, Change(c, d, kind)
        PROVE  \E entity \in Row, types \in Seq(EventTypes) :
                  Begin(c, d, entity, types) /\ entity.version = Len(events[d]) + Len(types)
    <2>0. rows[d] # NoRow /\ pc[c] = "idle" /\ Begin(c, d, Apply(kind, rows[d]), EventsOf(kind))
          /\ kind \in Kinds \ {"register", "registerConfigured"}
      BY <1>2 DEF Change, Begin
    <2>1. rows[d] \in Row /\ kind \in {"update", "touch", "activate", "deactivate"}
      BY <2>0, StoreAssumption DEF AloneInv, TypeOK, PlainKinds, AllKinds
    <2>2. rows[d].version = Len(events[d]) /\ Len(events[d]) \in Nat
      BY <2>0 DEF AloneInv, VersionMatchesEvents, TypeOK
    <2>3. Apply(kind, rows[d]) \in Row
      BY <2>1, ApplyType DEF AllKinds
    <2>4. <<>> \in Seq(EventTypes) /\ Len(<<>>) = 0 /\ <<"changed">> \in Seq(EventTypes) /\ Len(<<"changed">>) = 1
      BY DEF EventTypes
    <2>5. CASE kind = "touch"
      <3>1. Apply(kind, rows[d]) = rows[d] /\ EventsOf(kind) = <<>>
        BY <2>5 DEF Apply, EventsOf
      <3>2. Apply(kind, rows[d]).version = Len(events[d]) + Len(EventsOf(kind))
        BY <2>2, <2>4, <3>1
      <3>3. EventsOf(kind) \in Seq(EventTypes)
        BY <2>4, <3>1
      <3> WITNESS Apply(kind, rows[d]) \in Row, EventsOf(kind) \in Seq(EventTypes)
      <3> QED
        BY <2>0, <3>2
    <2>6. CASE kind # "touch"
      <3>1. EventsOf(kind) = <<"changed">>
        BY <2>1, <2>6 DEF EventsOf
      <3>2. Apply(kind, rows[d]).version = rows[d].version + 1
        BY <2>1, <2>6 DEF Apply, UpdateVersion, Row
      <3>3. Apply(kind, rows[d]).version = Len(events[d]) + Len(EventsOf(kind))
        BY <2>2, <2>4, <3>1, <3>2
      <3>4. EventsOf(kind) \in Seq(EventTypes)
        BY <2>4, <3>1
      <3> WITNESS Apply(kind, rows[d]) \in Row, EventsOf(kind) \in Seq(EventTypes)
      <3> QED
        BY <2>0, <3>3
    <2> QED
      BY <2>5, <2>6
  <1> QED
    BY <1>1, <1>2

LEMMA AloneBegins ==
  ASSUME AloneInv, TypeOK', NEW c \in Clients, NEW d \in Devices, \A o \in Clients : o = c, NEW entity \in Row,
         NEW types \in Seq(EventTypes), Begin(c, d, entity, types), entity.version = Len(events[d]) + Len(types)
  PROVE  AloneInv'
  <1>1. /\ pc[c] = "idle" /\ pc'[c] = "loaded" /\ dev'[c] = d /\ agg'[c] = entity /\ seen'[c] = Len(events[d])
        /\ UNCHANGED <<rows, events>>
        /\ pending'[c] = [i \in DOMAIN types |-> [type |-> types[i], cmd |-> commands']]
    BY DEF Begin, AloneInv, TypeOK
  <1>2. Len(pending'[c]) = Len(types)
    <2>1. DOMAIN pending'[c] = 1 .. Len(types) /\ Len(types) \in Nat /\ pending'[c] \in Seq(Event)
      BY <1>1 DEF TypeOK
    <2> QED
      BY <2>1, LenProperties
  <1>3. Level(c)'
    BY <1>1, <1>2 DEF Level
  <1>4. VersionMatchesEvents' /\ EventsNumbered'
    BY <1>1 DEF AloneInv, VersionMatchesEvents, EventsNumbered
  <1> QED
    BY <1>3, <1>4 DEF AloneInv

\* A client that is current is not refused.
LEMMA AloneIsCurrent ==
  ASSUME AloneInv, NEW c \in Clients, pc[c] \in {"existing", "checked"}
  PROVE  IsCurrent(c) /\ Expected(c) = Len(events[dev[c]])
  <1>1. dev[c] \in Devices /\ pending[c] \in Seq(Event) /\ Level(c)
    BY DEF AloneInv, TypeOK
  <1>2. Len(events[dev[c]]) \in Nat /\ Len(pending[c]) \in Nat
    BY <1>1 DEF AloneInv, TypeOK
  <1>3. agg[c].version = Len(events[dev[c]]) + Len(pending[c])
    BY <1>1 DEF Level
  <1>4. Expected(c) = Len(events[dev[c]])
    BY <1>2, <1>3 DEF Expected
  <1> QED
    BY <1>4 DEF IsCurrent

LEMMA AloneStores ==
  ASSUME AloneInv, TypeOK', NEW c \in Clients, \A o \in Clients : o = c, StoreEvents(c)
  PROVE  AloneInv'
  <1>1. /\ pc[c] = "checked" /\ pc'[c] = "stored" /\ UNCHANGED <<rows, dev, agg, existing, seen>>
        /\ events' = [events EXCEPT ![dev[c]] = @ \o Numbered(pending[c], Expected(c))]
    BY DEF StoreEvents, AloneInv, TypeOK
  <1>2. PICK d \in Devices : d = dev[c]
    BY <1>1 DEF AloneInv, TypeOK
  <1>3. PICK b \in Nat : b = Len(events[d]) /\ events[d] \in Seq(Stored)
    BY DEF AloneInv, TypeOK
  <1>4. PICK es \in Seq(Event) : es = pending[c]
    BY DEF AloneInv, TypeOK
  <1>5. Expected(c) = b /\ agg[c].version = b + Len(es) /\ existing[c] = rows[d]
    BY <1>1, <1>2, <1>3, <1>4, AloneIsCurrent DEF AloneInv, Level
  <1> DEFINE new == Numbered(es, b)
  <1>6. new \in Seq(Stored) /\ Len(new) = Len(es)
    BY NumberedType
  <1>7. \A i \in 1 .. Len(es) : new[i].version = b + i
    BY DEF Numbered
  <1>8. events' = [events EXCEPT ![d] = events[d] \o new]
    BY <1>1, <1>2, <1>4, <1>5
  <1> HIDE DEF new
  <1>9. /\ Len(events[d] \o new) = b + Len(es)
        /\ \A i \in 1 .. b + Len(es) : (events[d] \o new)[i] = IF i <= b THEN events[d][i] ELSE new[i - b]
        /\ events[d] \o new \in Seq(Stored)
    <2>1. Len(es) \in Nat
      OBVIOUS
    <2>2. PICK old \in Seq(Stored) : old = events[d]
      BY <1>3
    <2>3. PICK added \in Seq(Stored) : added = new
      BY <1>6
    <2>4. /\ Len(old) = b /\ Len(added) = Len(es) /\ old \o added \in Seq(Stored)
          /\ Len(old \o added) = Len(old) + Len(added)
          /\ \A i \in 1 .. Len(old) + Len(added) :
                (old \o added)[i] = IF i <= Len(old) THEN old[i] ELSE added[i - Len(old)]
      BY <1>3, <1>6, <2>2, <2>3, ConcatProperties
    <2> QED
      BY <2>1, <2>2, <2>3, <2>4
  <1>10. events'[d] = events[d] \o new /\ \A e \in Devices \ {d} : events'[e] = events[e]
    BY <1>8 DEF AloneInv, TypeOK
  <1>11. EventsNumbered'
    <2> SUFFICES ASSUME NEW e \in Devices, NEW i \in DOMAIN events'[e] PROVE events'[e][i].version = i
      BY DEF EventsNumbered
    <2>1. CASE e # d
      BY <1>10, <2>1 DEF AloneInv, EventsNumbered
    <2>2. CASE e = d
      <3>1. i \in 1 .. b + Len(es) /\ Len(es) \in Nat
        BY <1>9, <1>10, <2>2
      <3>2. CASE i <= b
        BY <1>3, <1>9, <1>10, <2>2, <3>1, <3>2, SMTT(30) DEF AloneInv, EventsNumbered
      <3>3. CASE ~(i <= b)
        <4>1. i - b \in 1 .. Len(es) /\ b + (i - b) = i
          BY <3>1, <3>3
        <4>2. events'[e][i] = new[i - b]
          BY <1>9, <1>10, <2>2, <3>1, <3>3
        <4> QED
          BY <1>7, <4>1, <4>2
      <3> QED
        BY <3>2, <3>3
    <2> QED
      BY <2>1, <2>2
  <1>12. Level(c)'
    BY <1>1, <1>2, <1>5, <1>9, <1>10 DEF Level
  <1>13. VersionMatchesEvents'
    BY <1>1, <1>2, <1>10 DEF AloneInv, VersionMatchesEvents
  <1> QED
    BY <1>11, <1>12, <1>13 DEF AloneInv

LEMMA AloneCommits ==
  ASSUME AloneInv, TypeOK', NEW c \in Clients, \A o \in Clients : o = c, CommitRow(c)
  PROVE  AloneInv'
  <1>1. /\ pc[c] = "stored" /\ pc'[c] = "saved" /\ UNCHANGED <<events, dev, agg, existing, seen, pending>>
    BY DEF CommitRow, AloneInv, TypeOK
  <1>2. PICK d \in Devices : d = dev[c]
    BY <1>1 DEF AloneInv, TypeOK
  <1>3. existing[c] = rows[d] /\ agg[c].version = Len(events[d]) /\ agg[c] \in Row /\ Level(c)
    BY <1>1, <1>2 DEF AloneInv, Level, TypeOK
  <1>4. PICK theRow \in Row : rows' = [rows EXCEPT ![d] = theRow] /\ theRow.version = agg[c].version
    <2>1. CASE existing[c] = NoRow
      BY <1>2, <1>3, <2>1 DEF CommitRow
    <2>2. CASE existing[c] # NoRow
      <3> DEFINE theRow == Written(existing[c], agg[c], rows[d])
      <3>1. rows[d] \in Row
        BY <1>3, <2>2 DEF AloneInv, TypeOK
      <3>2. theRow \in Row /\ theRow.version = agg[c].version
        BY <1>3, <3>1 DEF Written, Row
      <3>3. rows' = [rows EXCEPT ![d] = theRow]
        BY <1>2, <2>2 DEF CommitRow
      <3> HIDE DEF theRow
      <3> QED
        BY <3>2, <3>3
    <2> QED
      BY <2>1, <2>2
  <1>5. theRow # NoRow /\ rows'[d] = theRow /\ \A e \in Devices \ {d} : rows'[e] = rows[e]
    BY <1>4, StoreAssumption DEF AloneInv, TypeOK
  <1>6. Level(c)'
    BY <1>1, <1>2, <1>3, <1>4, <1>5 DEF Level
  <1>7. VersionMatchesEvents' /\ EventsNumbered'
    BY <1>1, <1>2, <1>5 DEF AloneInv, VersionMatchesEvents, EventsNumbered
  <1> QED
    BY <1>6, <1>7 DEF AloneInv

LEMMA AloneLeaves ==
  ASSUME AloneInv, TypeOK', NEW c \in Clients, \A o \in Clients : o = c, Leave(c), UNCHANGED <<rows, events>>,
         pc[c] \in {"stored", "saved"} =>
             rows[dev[c]] = NoRow \/ rows[dev[c]].version = Len(events[dev[c]])
  PROVE  AloneInv'
  <1>1. pc'[c] = "idle"
    BY DEF Leave, AloneInv, TypeOK
  <1>2. Level(c)'
    BY <1>1 DEF Level
  <1>3. VersionMatchesEvents' /\ EventsNumbered'
    BY DEF AloneInv, VersionMatchesEvents, EventsNumbered
  <1> QED
    BY <1>2, <1>3 DEF AloneInv

LEMMA AloneNext ==
  ASSUME AloneInv, Alone, PlainKinds, ~Faults, [StoreNext]_vars
  PROVE  AloneInv' /\ refused' = refused
  <1>0. TypeOK'
    BY TypeNext DEF AloneInv
  <1>1. CASE UNCHANGED vars
    BY <1>0, <1>1 DEF vars, clientVars, outcomeVars, AloneInv, VersionMatchesEvents, EventsNumbered, Level
  <1>2. ASSUME NEW c \in Clients, NEW d \in Devices,
               \/ \E s \in Serials : Register(c, d, s)
               \/ \E kind \in Kinds : Change(c, d, kind)
        PROVE  AloneInv' /\ refused' = refused
    <2>1. PICK entity \in Row, types \in Seq(EventTypes) :
             Begin(c, d, entity, types) /\ entity.version = Len(events[d]) + Len(types)
      BY <1>2, LevelCommand DEF Alone
    <2> QED
      BY <1>0, <2>1, AloneBegins DEF Alone, Begin, outcomeVars
  <1>3. ASSUME NEW c \in Clients, LoadExisting(c) PROVE AloneInv' /\ refused' = refused
    <2>1. /\ pc[c] = "loaded" /\ existing'[c] = rows[dev[c]] /\ pc'[c] = IF pending[c] = <<>> THEN "stored" ELSE "existing"
          /\ UNCHANGED <<rows, events, dev, agg, pending, seen, refused>>
      BY <1>3 DEF LoadExisting, AloneInv, TypeOK, outcomeVars
    <2>2. dev[c] \in Devices /\ Len(events[dev[c]]) \in Nat /\ Level(c)
      BY <2>1 DEF AloneInv, TypeOK
    <2>3. pending[c] = <<>> => Len(pending[c]) = 0
      OBVIOUS
    <2>4. agg[c].version = Len(events[dev[c]]) + Len(pending[c]) /\ seen[c] = Len(events[dev[c]])
      BY <2>1, <2>2 DEF Level
    <2>5. pending[c] = <<>> => agg[c].version = Len(events[dev[c]])
      BY <2>2, <2>3, <2>4
    <2>6. Level(c)'
      BY <2>1, <2>4, <2>5 DEF Level
    <2>7. VersionMatchesEvents' /\ EventsNumbered'
      BY <2>1 DEF AloneInv, VersionMatchesEvents, EventsNumbered, Alone
    <2> QED
      BY <1>0, <2>1, <2>6, <2>7 DEF AloneInv, Alone
  <1>4. ASSUME NEW c \in Clients, CheckVersion(c) PROVE AloneInv' /\ refused' = refused
    <2>1. /\ pc[c] = "existing" /\ pc'[c] = "checked"
          /\ UNCHANGED <<rows, events, dev, agg, pending, existing, seen, refused>>
      BY <1>4 DEF CheckVersion, AloneInv, TypeOK, outcomeVars
    <2>2. Level(c)'
      BY <2>1 DEF AloneInv, Level
    <2>3. VersionMatchesEvents' /\ EventsNumbered'
      BY <2>1 DEF AloneInv, VersionMatchesEvents, EventsNumbered, Alone
    <2> QED
      BY <1>0, <2>1, <2>2, <2>3 DEF AloneInv, Alone
  <1>5. ASSUME NEW c \in Clients, Conflict(c) PROVE FALSE
    BY <1>5, AloneIsCurrent DEF Conflict
  <1>6. ASSUME NEW c \in Clients, StoreEvents(c) PROVE AloneInv' /\ refused' = refused
    BY <1>0, <1>6, AloneStores DEF Alone, StoreEvents, outcomeVars
  <1>7. ASSUME NEW c \in Clients, CommitRow(c) PROVE AloneInv' /\ refused' = refused
    BY <1>0, <1>7, AloneCommits DEF Alone, CommitRow, outcomeVars
  <1>8. ASSUME NEW c \in Clients, RowRefused(c) PROVE AloneInv' /\ refused' = refused
    BY <1>0, <1>8, AloneLeaves DEF Alone, RowRefused, AloneInv, Level, outcomeVars
  <1>9. ASSUME NEW c \in Clients, CommitUnitOfWork(c) PROVE AloneInv' /\ refused' = refused
    BY <1>0, <1>9, AloneLeaves DEF Alone, CommitUnitOfWork, AloneInv, Level
  <1>10. ASSUME NEW c \in Clients, Fault(c) PROVE FALSE
    BY <1>10 DEF Fault
  <1> QED
    BY <1>1, <1>2, <1>3, <1>4, <1>5, <1>6, <1>7, <1>8, <1>9, <1>10 DEF StoreNext, Save

\* Without faults, a client that is alone and does not configure sees what the documentation says: the versions
\* of rows and events agree, the events of a device are numbered without a gap, and no command is refused.
THEOREM AloneUndisturbed ==
  ASSUME Alone, PlainKinds, ~Faults
  PROVE  StoreSpec => SingleClientUndisturbed
  <1>1. AloneInv /\ [StoreNext]_vars => AloneInv'
    BY AloneNext
  <1>2. AloneInv => VersionMatchesEvents /\ EventsNumbered
    BY DEF AloneInv
  <1>3. AloneInv /\ [StoreNext]_vars =>
           [\A c \in Clients : refused' # refused /\ cmd[c] \in refused' \ refused
                                  => Len(events[dev[c]]) # seen[c]]_vars
    BY AloneNext
  <1> QED
    BY <1>1, <1>2, <1>3, AloneInitially, PTL DEF StoreSpec, SingleClientUndisturbed, NoFalseConflict


-----------------------------------------------------------------------------
(* The checks of schemas *)

SchemaType == [SchemaTables -> [SchemaColumns -> Shapes \cup {NoColumn}]]
SchemasTyped == actual \in SchemaType /\ declared \in SchemaType

LEMMA SchemasInitially == SchemasInit => SchemasTyped
  BY DEF SchemasInit, NoTables, SchemasTyped, SchemaType

\* A schema in which a column is changed is one.
LEMMA ColumnChanged ==
  ASSUME NEW m \in SchemaType, NEW t \in SchemaTables, NEW c \in SchemaColumns, NEW s \in Shapes \cup {NoColumn}
  PROVE  [m EXCEPT ![t][c] = s] \in SchemaType
  <1>1. m[t] \in [SchemaColumns -> Shapes \cup {NoColumn}]
    BY DEF SchemaType
  <1>2. [m[t] EXCEPT ![c] = s] \in [SchemaColumns -> Shapes \cup {NoColumn}]
    BY <1>1
  <1> QED
    BY <1>2 DEF SchemaType

LEMMA SchemasStepKeeps == SchemasTyped /\ [SchemasNext]_schemaVars => SchemasTyped'
  BY ColumnChanged DEF SchemasNext, AlterDatabase, Redeclare, schemaVars, SchemasTyped

\* What the parts of a comparison say of tables and columns.
LEMMA ComparedTables ==
  ASSUME NEW a, NEW b, NEW d, d = Compare(a, b)
  PROVE  /\ d.missingTables = TablesOf(b) \ TablesOf(a)
         /\ d.extraTables = TablesOf(a) \ TablesOf(b)
  BY DEF Compare

LEMMA ComparedColumns ==
  ASSUME NEW a, NEW b, NEW d, d = Compare(a, b), NEW t \in SchemaTables, NEW c \in SchemaColumns
  PROVE  /\ <<t, c>> \in d.missingColumns <=> t \in Common(a, b) /\ c \in ColumnsOf(b, t) \ ColumnsOf(a, t)
         /\ <<t, c>> \in d.extraColumns <=> t \in Common(a, b) /\ c \in ColumnsOf(a, t) \ ColumnsOf(b, t)
         /\ <<t, c>> \in d.changed <=>
               t \in Common(a, b) /\ c \in ColumnsOf(a, t) \cap ColumnsOf(b, t) /\ Differ(a[t][c], b[t][c])
  BY DEF Compare, CommonColumns, Common

\* Columns agree in type and in whether they are nullable.
AlikeColumns ==
    /\ TablesOf(actual) = TablesOf(declared)
    /\ \A t \in SchemaTables :
          /\ ColumnsOf(actual, t) = ColumnsOf(declared, t)
          /\ \A c \in ColumnsOf(actual, t) :
                actual[t][c].type = declared[t][c].type /\ actual[t][c].nullable = declared[t][c].nullable

LEMMA ColumnsInTables ==
  ASSUME NEW m, NEW t \in SchemaTables
  PROVE  /\ ColumnsOf(m, t) \subseteq SchemaColumns
         /\ t \in TablesOf(m) <=> ColumnsOf(m, t) # {}
         /\ TablesOf(m) \subseteq SchemaTables
  BY DEF ColumnsOf, TablesOf

LEMMA SilentComparison ==
  ASSUME NothingDiffers(Compare(actual, declared))
  PROVE  AlikeColumns
  <1>1. PICK d : d = Compare(actual, declared)
    OBVIOUS
  <1>2. d.missingTables = {} /\ d.extraTables = {} /\ d.missingColumns = {} /\ d.extraColumns = {} /\ d.changed = {}
    BY <1>1 DEF NothingDiffers, Compare
  <1>3. TablesOf(actual) = TablesOf(declared)
    BY <1>1, <1>2, ComparedTables
  <1>4. ASSUME NEW t \in SchemaTables
        PROVE  /\ ColumnsOf(actual, t) = ColumnsOf(declared, t)
               /\ \A c \in ColumnsOf(actual, t) : ~Differ(actual[t][c], declared[t][c])
    <2>1. CASE t \in TablesOf(actual)
      <3>1. t \in Common(actual, declared)
        BY <1>3, <2>1 DEF Common
      <3>2. \A c \in SchemaColumns : /\ c \notin ColumnsOf(declared, t) \ ColumnsOf(actual, t)
                                     /\ c \notin ColumnsOf(actual, t) \ ColumnsOf(declared, t)
                                     /\ c \in ColumnsOf(actual, t) \cap ColumnsOf(declared, t)
                                           => ~Differ(actual[t][c], declared[t][c])
        BY <1>1, <1>2, <3>1, ComparedColumns
      <3> QED
        BY <3>2, ColumnsInTables
    <2>2. CASE t \notin TablesOf(actual)
      BY <1>3, <2>2, ColumnsInTables
    <2> QED
      BY <2>1, <2>2
  <1> QED
    BY <1>3, <1>4 DEF AlikeColumns, Differ

LEMMA SilentValidator ==
  ASSUME Issues(declared, actual) = {}
  PROVE  AlikeColumns
  <1>1. TablesOf(actual) = TablesOf(declared)
    BY DEF Issues
  <1>2. ASSUME NEW t \in Common(declared, actual), NEW c \in SchemaColumns
        PROVE  /\ c \in ColumnsOf(declared, t) <=> c \in ColumnsOf(actual, t)
               /\ c \in ColumnsOf(declared, t) \cap ColumnsOf(actual, t) => ~Mismatch(declared[t][c], actual[t][c])
    <2>0. PICK k : k = <<t, c>>
      OBVIOUS
    <2>1. k \in Common(declared, actual) \X SchemaColumns /\ k[1] = t /\ k[2] = c
      BY <2>0
    <2>2. (k[2] \in ColumnsOf(declared, k[1])) = (k[2] \in ColumnsOf(actual, k[1]))
      BY <2>1 DEF Issues
    <2>3. k \notin CommonColumns(declared, actual) \/ ~Mismatch(declared[k[1]][k[2]], actual[k[1]][k[2]])
      BY <2>1 DEF Issues
    <2> QED
      BY <2>1, <2>2, <2>3 DEF CommonColumns
  <1>3. ASSUME NEW t \in SchemaTables
        PROVE  /\ ColumnsOf(actual, t) = ColumnsOf(declared, t)
               /\ \A c \in ColumnsOf(actual, t) : ~Mismatch(declared[t][c], actual[t][c])
    <2>1. CASE t \in TablesOf(actual)
      <3>1. t \in Common(declared, actual)
        BY <1>1, <2>1 DEF Common
      <3> QED
        BY <1>2, <3>1, ColumnsInTables
    <2>2. CASE t \notin TablesOf(actual)
      BY <1>1, <2>2, ColumnsInTables
    <2> QED
      BY <2>1, <2>2
  <1> QED
    BY <1>1, <1>3 DEF AlikeColumns, Mismatch

\* Shapes that are alike differ in their defaults and primary keys only.
LEMMA AlikeShapes ==
  ASSUME NEW x \in Shapes, NEW y \in Shapes, x.type = y.type, x.nullable = y.nullable
  PROVE  [x EXCEPT !.default = y.default, !.primary = y.primary] = y
  <1>1. PICK f, g, h, i : x = [type |-> f, nullable |-> g, default |-> h, primary |-> i]
    BY SchemaAssumption
  <1>2. PICK j, k, l, m : y = [type |-> j, nullable |-> k, default |-> l, primary |-> m]
    BY SchemaAssumption
  <1>3. f = j /\ g = k /\ y.default = l /\ y.primary = m
    BY <1>1, <1>2
  <1>4. PICK z : z = [x EXCEPT !.default = l, !.primary = m]
    OBVIOUS
  <1>5. x \in [type : {f}, nullable : {g}, default : {h}, primary : {i}]
    BY <1>1
  <1>6. z \in [type : {f}, nullable : {g}, default : {l}, primary : {m}]
    BY <1>4, <1>5
  <1>7. z = [type |-> f, nullable |-> g, default |-> l, primary |-> m]
    BY <1>6
  <1> QED
    BY <1>2, <1>3, <1>4, <1>7, Zenon

LEMMA SilenceAgrees == SchemasTyped => SilenceIsAgreement
  <1> SUFFICES ASSUME SchemasTyped PROVE SilenceIsAgreement
    OBVIOUS
  <1>1. ASSUME AlikeColumns, NEW t \in SchemaTables, NEW c \in ColumnsOf(actual, t)
        PROVE  [actual[t][c] EXCEPT !.default = declared[t][c].default, !.primary = declared[t][c].primary]
                   = declared[t][c]
    <2>1. c \in SchemaColumns /\ actual[t][c] # NoColumn /\ declared[t][c] # NoColumn
      BY <1>1 DEF AlikeColumns, ColumnsOf
    <2>2. actual[t][c] \in Shapes /\ declared[t][c] \in Shapes
      BY <2>1 DEF SchemasTyped, SchemaType
    <2>3. PICK x \in Shapes, y \in Shapes : x = actual[t][c] /\ y = declared[t][c]
      BY <2>2
    <2>4. x.type = y.type /\ x.nullable = y.nullable
      BY <1>1, <2>3 DEF AlikeColumns
    <2>5. [x EXCEPT !.default = y.default, !.primary = y.primary] = y
      BY <2>4, AlikeShapes
    <2> QED
      BY <2>3, <2>5, Zenon
  <1>2. AlikeColumns =>
            /\ TablesOf(actual) = TablesOf(declared)
            /\ \A t \in SchemaTables :
                  /\ ColumnsOf(actual, t) = ColumnsOf(declared, t)
                  /\ \A c \in ColumnsOf(actual, t) :
                        [actual[t][c] EXCEPT !.default = declared[t][c].default, !.primary = declared[t][c].primary]
                           = declared[t][c]
    BY <1>1 DEF AlikeColumns
  <1> QED
    BY <1>2, SilentComparison, SilentValidator, Zenon DEF SilenceIsAgreement

LEMMA ComparisonTurns == ComparisonIsSymmetric
  <1> DEFINE d == Compare(actual, declared)
             e == Compare(declared, actual)
  <1>1. d = Compare(actual, declared) /\ e = Compare(declared, actual)
    OBVIOUS
  <1> HIDE DEF d, e
  <1>2. d.missingTables = e.extraTables /\ d.extraTables = e.missingTables
    <2>1. d.missingTables = TablesOf(declared) \ TablesOf(actual) /\ d.extraTables = TablesOf(actual) \ TablesOf(declared)
      BY <1>1, ComparedTables
    <2>2. e.missingTables = TablesOf(actual) \ TablesOf(declared) /\ e.extraTables = TablesOf(declared) \ TablesOf(actual)
      BY <1>1, ComparedTables
    <2> QED
      BY <2>1, <2>2
  <1>3. Common(actual, declared) = Common(declared, actual)
    BY DEF Common
  <1>4. d.missingColumns = e.extraColumns /\ d.extraColumns = e.missingColumns
    BY <1>1, <1>3 DEF Compare
  <1>5. d.changed = e.changed
    <2>1. CommonColumns(actual, declared) = CommonColumns(declared, actual)
      BY <1>3 DEF CommonColumns
    <2>2. \A x, y : Differ(x, y) <=> Differ(y, x)
      BY DEF Differ
    <2>3. /\ d.changed = {k \in CommonColumns(actual, declared) : Differ(actual[k[1]][k[2]], declared[k[1]][k[2]])}
          /\ e.changed = {k \in CommonColumns(declared, actual) : Differ(declared[k[1]][k[2]], actual[k[1]][k[2]])}
      BY <1>1 DEF Compare
    <2> QED
      BY <2>1, <2>2, <2>3
  <1> QED
    BY <1>2, <1>4, <1>5 DEF ComparisonIsSymmetric, d, e

\* The plan to upgrade, column by column.
LEMMA Upgrading ==
  ASSUME SchemasTyped, NEW up, up = Upgraded(Compare(actual, declared), actual, declared),
         NEW t \in SchemaTables, NEW c \in SchemaColumns
  PROVE  up[t][c] = IF t \notin TablesOf(declared) THEN NoColumn
                    ELSE IF actual[t][c] = NoColumn THEN declared[t][c] ELSE actual[t][c]
  <1>1. PICK d : d = Compare(actual, declared)
    OBVIOUS
  <1>2. up[t] = IF t \in d.missingTables THEN declared[t]
                ELSE IF t \in d.extraTables THEN NoTables[t]
                ELSE [k \in SchemaColumns |-> IF <<t, k>> \in d.missingColumns THEN declared[t][k] ELSE actual[t][k]]
    BY <1>1 DEF Upgraded
  <1>3. /\ t \in d.missingTables <=> t \in TablesOf(declared) /\ t \notin TablesOf(actual)
        /\ t \in d.extraTables <=> t \in TablesOf(actual) /\ t \notin TablesOf(declared)
        /\ <<t, c>> \in d.missingColumns <=>
              t \in Common(actual, declared) /\ c \in ColumnsOf(declared, t) \ ColumnsOf(actual, t)
    BY <1>1, ComparedTables, ComparedColumns
  <1>4. \A m : t \notin TablesOf(m) => m[t][c] = NoColumn
    BY DEF TablesOf, ColumnsOf
  <1>5. NoTables[t][c] = NoColumn
    BY DEF NoTables
  <1>6. CASE t \in d.missingTables
    BY <1>2, <1>3, <1>4, <1>6
  <1>7. CASE t \in d.extraTables
    BY <1>2, <1>3, <1>5, <1>7
  <1>8. CASE t \notin d.missingTables /\ t \notin d.extraTables
    <2>1. up[t][c] = IF <<t, c>> \in d.missingColumns THEN declared[t][c] ELSE actual[t][c]
      BY <1>2, <1>8
    <2>2. CASE t \in TablesOf(declared)
      BY <1>3, <1>8, <2>1, <2>2 DEF Common, ColumnsOf
    <2>3. CASE t \notin TablesOf(declared)
      BY <1>3, <1>4, <1>8, <2>1, <2>3 DEF Common
    <2> QED
      BY <2>2, <2>3
  <1> QED
    BY <1>6, <1>7, <1>8

LEMMA PlansUndo == SchemasTyped => PlansUndoEachOther
  <1> SUFFICES ASSUME SchemasTyped PROVE PlansUndoEachOther
    OBVIOUS
  <1> DEFINE d == Compare(actual, declared)
             up == Upgraded(d, actual, declared)
             left == Compare(up, declared)
             down == Downgraded(d, actual, up)
  <1>1. \A t \in SchemaTables, c \in SchemaColumns :
           up[t][c] = IF t \notin TablesOf(declared) THEN NoColumn
                      ELSE IF actual[t][c] = NoColumn THEN declared[t][c] ELSE actual[t][c]
    BY Upgrading
  <1>2. left = Compare(up, declared) /\ d = Compare(actual, declared)
    OBVIOUS
  <1> HIDE DEF d, up, left, down
  <1>3. ASSUME NEW t \in SchemaTables
        PROVE  ColumnsOf(up, t) = IF t \in TablesOf(declared) THEN ColumnsOf(declared, t) \cup ColumnsOf(actual, t) ELSE {}
    BY <1>1 DEF ColumnsOf
  <1>4. TablesOf(up) = TablesOf(declared)
    BY <1>3, ColumnsInTables DEF TablesOf
  <1>5. left.missingTables = {} /\ left.extraTables = {}
    BY <1>2, <1>4, ComparedTables
  <1>6. left.missingColumns = {}
    <2>1. left.missingColumns = {k \in Common(up, declared) \X SchemaColumns :
                                     k[2] \in ColumnsOf(declared, k[1]) \ ColumnsOf(up, k[1])}
      BY <1>2 DEF Compare
    <2>2. ASSUME NEW t \in Common(up, declared) PROVE ColumnsOf(declared, t) \subseteq ColumnsOf(up, t)
      <3>1. t \in SchemaTables /\ t \in TablesOf(declared)
        BY <1>4 DEF Common, TablesOf
      <3> QED
        BY <1>3, <3>1
    <2> QED
      BY <2>1, <2>2
  <1>7. ASSUME NEW t \in SchemaTables, NEW c \in SchemaColumns
        PROVE  /\ <<t, c>> \in left.extraColumns <=> <<t, c>> \in d.extraColumns
               /\ <<t, c>> \in left.changed <=> <<t, c>> \in d.changed
    <2>1. /\ <<t, c>> \in left.extraColumns <=> t \in Common(up, declared) /\ c \in ColumnsOf(up, t) \ ColumnsOf(declared, t)
          /\ <<t, c>> \in d.extraColumns <=> t \in Common(actual, declared) /\ c \in ColumnsOf(actual, t) \ ColumnsOf(declared, t)
          /\ <<t, c>> \in left.changed <=>
                t \in Common(up, declared) /\ c \in ColumnsOf(up, t) \cap ColumnsOf(declared, t) /\ Differ(up[t][c], declared[t][c])
          /\ <<t, c>> \in d.changed <=>
                t \in Common(actual, declared) /\ c \in ColumnsOf(actual, t) \cap ColumnsOf(declared, t) /\ Differ(actual[t][c], declared[t][c])
      BY <1>2, ComparedColumns
    <2>2. CASE t \notin TablesOf(declared)
      BY <1>4, <2>1, <2>2 DEF Common
    <2>3. CASE t \in TablesOf(declared)
      <3>1. t \in Common(up, declared) /\ (t \in Common(actual, declared) <=> t \in TablesOf(actual))
        BY <1>4, <2>3 DEF Common
      <3>2. c \in ColumnsOf(actual, t) => t \in TablesOf(actual)
        BY ColumnsInTables
      <3>3. ColumnsOf(up, t) = ColumnsOf(declared, t) \cup ColumnsOf(actual, t)
        BY <1>3, <2>3
      <3>4. <<t, c>> \in left.extraColumns <=> <<t, c>> \in d.extraColumns
        BY <2>1, <3>1, <3>2, <3>3
      <3>5. up[t][c] = IF actual[t][c] = NoColumn THEN declared[t][c] ELSE actual[t][c]
        BY <1>1, <2>3
      <3>6. c \in ColumnsOf(actual, t) <=> actual[t][c] # NoColumn
        BY DEF ColumnsOf
      <3>7. ~Differ(declared[t][c], declared[t][c])
        BY DEF Differ
      <3> QED
        BY <2>1, <3>1, <3>2, <3>3, <3>4, <3>5, <3>6, <3>7
    <2> QED
      BY <2>2, <2>3
  <1>8. left.extraColumns = d.extraColumns /\ left.changed = d.changed
    <2> DEFINE Pairs == SchemaTables \X SchemaColumns
    <2>1. left.extraColumns \subseteq Pairs /\ d.extraColumns \subseteq Pairs
      BY <1>2 DEF Compare, Common, TablesOf
    <2>2. left.changed \subseteq Pairs /\ d.changed \subseteq Pairs
      BY <1>2 DEF Compare, CommonColumns, Common, TablesOf
    <2>3. \A k \in Pairs : \E t \in SchemaTables, c \in SchemaColumns : k = <<t, c>>
      OBVIOUS
    <2>4. \A k \in Pairs : (k \in left.extraColumns <=> k \in d.extraColumns) /\ (k \in left.changed <=> k \in d.changed)
      BY <1>7, <2>3
    <2> HIDE DEF Pairs
    <2> QED
      BY <2>1, <2>2, <2>4
  <1>9. down = actual
    <2>1. /\ \A t \in SchemaTables :
                 down[t] = IF t \in d.extraTables THEN actual[t]
                           ELSE IF t \in d.missingTables THEN NoTables[t]
                           ELSE [c \in SchemaColumns |-> IF <<t, c>> \in d.missingColumns THEN NoColumn ELSE up[t][c]]
          /\ DOMAIN down = SchemaTables /\ down = [t \in SchemaTables |-> down[t]]
      BY DEF down, Downgraded
    <2>2. ASSUME NEW t \in SchemaTables, NEW c \in SchemaColumns PROVE down[t][c] = actual[t][c]
      <3>1. /\ t \in d.missingTables <=> t \in TablesOf(declared) /\ t \notin TablesOf(actual)
            /\ t \in d.extraTables <=> t \in TablesOf(actual) /\ t \notin TablesOf(declared)
            /\ <<t, c>> \in d.missingColumns <=>
                  t \in Common(actual, declared) /\ c \in ColumnsOf(declared, t) \ ColumnsOf(actual, t)
        BY <1>2, ComparedTables, ComparedColumns
      <3>2. t \notin TablesOf(actual) => actual[t][c] = NoColumn
        BY DEF TablesOf, ColumnsOf
      <3>3. CASE t \in d.extraTables
        BY <2>1, <3>3
      <3>4. CASE t \in d.missingTables
        BY <2>1, <3>1, <3>2, <3>4 DEF NoTables
      <3>5. CASE t \notin d.extraTables /\ t \notin d.missingTables
        <4>1. down[t][c] = IF <<t, c>> \in d.missingColumns THEN NoColumn ELSE up[t][c]
          BY <2>1, <3>5
        <4>2. CASE t \in TablesOf(declared)
          <5>1. up[t][c] = IF actual[t][c] = NoColumn THEN declared[t][c] ELSE actual[t][c]
            BY <1>1, <4>2
          <5>2. t \in Common(actual, declared)
            BY <3>1, <3>5, <4>2 DEF Common
          <5> QED
            BY <3>1, <4>1, <5>1, <5>2 DEF ColumnsOf
        <4>3. CASE t \notin TablesOf(declared)
          BY <1>1, <3>1, <3>2, <3>5, <4>1, <4>3
        <4> QED
          BY <4>2, <4>3
      <3> QED
        BY <3>3, <3>4, <3>5
    <2>3. ASSUME NEW t \in SchemaTables PROVE down[t] = actual[t]
      <3>1. /\ actual[t] \in [SchemaColumns -> Shapes \cup {NoColumn}]
            /\ NoTables[t] = [c \in SchemaColumns |-> NoColumn]
        BY DEF SchemasTyped, SchemaType, NoTables
      <3>2. down[t] = [c \in SchemaColumns |-> down[t][c]]
        BY <2>1, <3>1
      <3> QED
        BY <2>2, <3>1, <3>2
    <2> QED
      BY <2>1, <2>3 DEF SchemasTyped, SchemaType
  <1> QED
    BY <1>5, <1>6, <1>8, <1>9 DEF PlansUndoEachOther, d, up, left, down

LEMMA SchemasChecked == SchemasTyped => SchemaInv
  BY SilenceAgrees, ComparisonTurns, PlansUndo DEF SchemaInv

-----------------------------------------------------------------------------
(* The checks of data *)

DataTyped ==
    /\ IsFiniteSet(DOMAIN rowsOf)
    /\ \A i \in DOMAIN rowsOf : rowsOf[i] \in Cells \X Cells

LEMMA DataInitially == DataInit => DataTyped
  BY FS_EmptySet DEF DataInit, DataTyped

LEMMA DataStepKeeps == DataTyped /\ [DataNext]_checkedVars => DataTyped'
  <1> SUFFICES ASSUME DataTyped, [DataNext]_checkedVars PROVE DataTyped'
    OBVIOUS
  <1>1. CASE rowsOf' = rowsOf
    BY <1>1 DEF DataTyped, Cells
  <1>2. ASSUME NEW i, NEW x \in Cells, NEW y \in Cells, InsertRow(i, x, y) PROVE DataTyped'
    <2>1. /\ DOMAIN rowsOf' = DOMAIN rowsOf \cup {i} /\ rowsOf'[i] = <<x, y>>
          /\ \A j \in DOMAIN rowsOf \ {i} : rowsOf'[j] = rowsOf[j]
      BY <1>2 DEF InsertRow
    <2>2. IsFiniteSet(DOMAIN rowsOf')
      BY <2>1, FS_AddElement DEF DataTyped
    <2> QED
      BY <2>1, <2>2 DEF DataTyped, Cells
  <1> QED
    BY <1>1, <1>2 DEF DataNext, InsertKey, DeleteKey, checkedVars

\* A set of one element at most has no two.
LEMMA AtMostOne ==
  ASSUME NEW S, IsFiniteSet(S), Cardinality(S) <= 1, NEW i \in S, NEW j \in S
  PROVE  i = j
  <1> SUFFICES ASSUME i # j PROVE FALSE
    OBVIOUS
  <1>1. IsFiniteSet(S \ {i}) /\ Cardinality(S \ {i}) = Cardinality(S) - 1 /\ Cardinality(S) \in Nat
    BY FS_RemoveElement, FS_CardinalityType
  <1>2. Cardinality(S \ {i}) = 0
    BY <1>1, FS_CardinalityType
  <1>3. S \ {i} = {}
    BY <1>1, <1>2, FS_EmptySet
  <1> QED
    BY <1>3

LEMMA OrphansFound == OrphansAreFound
  <1>1. ASSUME NEW i, NEW cols
        PROVE  Joined(i, cols) = {} <=> \A k \in keysOf : \E c \in cols : ~SqlEqual(rowsOf[i][c], k[c])
    BY DEF Joined
  <1>2. ASSUME NEW i \in DOMAIN rowsOf PROVE i \in Orphans({1}) <=> Broken(i, {1})
    BY <1>1 DEF Orphans, Broken, SqlEqual
  <1>3. ASSUME NEW i \in DOMAIN rowsOf PROVE Broken(i, {1, 2}) => i \in Orphans({1, 2})
    BY <1>1 DEF Orphans, Broken, SqlEqual
  <1>4. ASSUME NEW i \in Orphans({1, 2}) PROVE Broken(i, {1, 2}) \/ rowsOf[i][2] = NullValue
    BY <1>1 DEF Orphans, Broken, SqlEqual
  <1>5. \A cols : Orphans(cols) \subseteq DOMAIN rowsOf
    BY DEF Orphans
  <1> QED
    BY <1>2, <1>3, <1>4, <1>5 DEF OrphansAreFound

LEMMA RulesSuffice == DataTyped => RulesAllowConstraints
  <1> SUFFICES ASSUME DataTyped, NEW col \in {1, 2}
               PROVE  /\ RuleHolds("unique", col) =>
                            \A i, j \in Column(col) : rowsOf[i][col] = rowsOf[j][col] => i = j
                      /\ RuleHolds("not_null", col) /\ RuleHolds("range", col) =>
                            \A i \in DOMAIN rowsOf : rowsOf[i][col] \in Least .. Most
    BY DEF RulesAllowConstraints
  <1>1. \A i \in DOMAIN rowsOf : rowsOf[i][col] \in Cells
    BY DEF DataTyped
  <1>2. ASSUME UniqueHolds(col), NEW i \in Column(col), NEW j \in Column(col), rowsOf[i][col] = rowsOf[j][col]
        PROVE  i = j
    <2>1. PICK v : v = rowsOf[i][col]
      OBVIOUS
    <2>2. PICK S : S = {k \in DOMAIN rowsOf : rowsOf[k][col] = v}
      OBVIOUS
    <2>3. v \in Cells /\ i \in S /\ j \in S
      BY <1>1, <1>2, <2>1, <2>2 DEF Column
    <2>4. Cardinality(S) <= 1
      BY <1>2, <2>2, <2>3, Zenon DEF UniqueHolds
    <2>5. IsFiniteSet(S)
      BY <2>2, FS_Subset DEF DataTyped
    <2> QED
      BY <2>3, <2>4, <2>5, AtMostOne
  <1>3. ASSUME NotNullHolds(col), RangeHolds(col), NEW i \in DOMAIN rowsOf
        PROVE  rowsOf[i][col] \in Least .. Most
    <2>1. rowsOf[i][col] \in Nat
      BY <1>1, <1>3, DataAssumption DEF NotNullHolds, Cells
    <2> QED
      BY <1>3, <2>1, DataAssumption DEF RangeHolds, Column, NotNullHolds
  <1> QED
    BY <1>2, <1>3 DEF RuleHolds

LEMMA DataChecked == DataTyped => DataInv
  BY OrphansFound, RulesSuffice DEF DataInv


-----------------------------------------------------------------------------
(* The location and the health of a device *)

\* A row has the location that was registered, but for zeros, and the event told it without them.
RowFollows ==
    place # NoLocation =>
        /\ placed \in Location \cup {NoLocation} /\ place \in Location
        /\ WithoutZeros(place) = WithoutZeros(NewColumns(placed))
        /\ told = ToldLocation(placed)

LEMMA DeviceRowsInitially == DeviceRowsInit => RowFollows
  BY DEF DeviceRowsInit, RowFollows

LEMMA ZerosGone ==
  ASSUME NEW l \in Location
  PROVE  /\ WithoutZeros(l) \in Location
         /\ WithoutZeros(WithoutZeros(l)) = WithoutZeros(l)
         /\ \A f \in Fields : WithoutZeros(l)[f] = Given <=> l[f] = Given
  BY RowAssumption DEF WithoutZeros, Location

LEMMA DeviceRowsStepKeeps == RowFollows /\ [DeviceRowsNext]_deviceRowVars => RowFollows'
  <1> SUFFICES ASSUME RowFollows, [DeviceRowsNext]_deviceRowVars PROVE RowFollows'
    OBVIOUS
  <1>1. ASSUME NEW l \in Location \cup {NoLocation}, RegisterDeviceAt(l) PROVE RowFollows'
    <2>1. NewColumns(l) \in Location
      BY DEF NewColumns, Location
    <2> QED
      BY <1>1, <2>1 DEF RegisterDeviceAt, RowFollows
  <1>2. CASE SaveAgain
    <2>1. place \in Location /\ place' \in {place, WithoutZeros(place)}
      BY <1>2 DEF SaveAgain, WriteLocation, ReadLocation, RowFollows
    <2> QED
      BY <1>2, <2>1, ZerosGone DEF SaveAgain, RowFollows
  <1>3. CASE UNCHANGED deviceRowVars
    BY <1>3 DEF deviceRowVars, RowFollows
  <1> QED
    BY <1>1, <1>2, <1>3 DEF DeviceRowsNext, ChangeLocation

LEMMA DeviceRowsChecked == RowFollows => DeviceRowInv
  <1> SUFFICES ASSUME RowFollows, place # NoLocation PROVE PlaceIsKept /\ ReadAsTold
    BY DEF DeviceRowInv, PlaceIsKept, ReadAsTold
  <1>1. /\ placed \in Location \cup {NoLocation} /\ place \in Location
        /\ WithoutZeros(place) = WithoutZeros(NewColumns(placed))
        /\ told = ToldLocation(placed)
    BY DEF RowFollows
  <1>2. NewColumns(placed) \in Location
    BY <1>1 DEF NewColumns, Location
  <1>3. \A f \in Fields : place[f] = Given <=> NewColumns(placed)[f] = Given
    BY <1>1, <1>2, ZerosGone
  <1>4. CASE placed = NoLocation
    <2>1. \A f \in Fields : place[f] # Given
      BY <1>3, <1>4, RowAssumption DEF NewColumns
    <2>2. ~IsRead(place) /\ told = NoLocation
      BY <1>1, <1>4, <2>1 DEF IsRead, Fields, NumberFields, TextFields, ToldLocation
    <2> QED
      BY <1>1, <2>2 DEF PlaceIsKept, ReadAsTold, ReadLocation
  <1>5. CASE placed # NoLocation
    <2>1. placed \in Location /\ NewColumns(placed) = placed
      BY <1>1, <1>5 DEF NewColumns
    <2>2. told = WithoutZeros(placed) /\ told = WithoutZeros(place) /\ told \in Location
      BY <1>1, <1>5, <2>1, ZerosGone DEF ToldLocation
    <2>3. \A f \in Fields : told[f] = Given <=> place[f] = Given
      BY <1>1, <2>2, ZerosGone
    <2>4. IsRead(place) <=> ~(\A f \in Fields : told[f] = Given => f \in {"altitude", "floor"})
      BY <2>3 DEF IsRead, Fields, NumberFields, TextFields
    <2>5. told # NoLocation
      BY <2>2, RowAssumption
    <2> QED
      BY <1>1, <2>2, <2>4, <2>5 DEF PlaceIsKept, ReadAsTold, ReadLocation
  <1> QED
    BY <1>4, <1>5

\* A device was seen when it reported last, which is not after the latest of its reports; and what
\* was shown of a device that has not changed is what there was to show at some time since.
HealthFollows ==
    /\ lifeStatus \in LifeStatuses /\ clock \in Nat /\ changedSince \in BOOLEAN
    /\ \/ lastSeen = Unseen /\ newest = Unseen
       \/ lastSeen \in Nat /\ newest \in Nat /\ lastSeen <= newest /\ newest <= clock
    /\ shown # Unseen /\ ~changedSince =>
          \E then \in Nat : /\ then <= clock /\ shown = Dto(lifeStatus, lastSeen, then)
                            /\ lastSeen # Unseen => lastSeen <= then

LEMMA HealthInitially == DeviceHealthInit => HealthFollows
  <1> SUFFICES ASSUME DeviceHealthInit PROVE HealthFollows
    OBVIOUS
  <1>1. clock \in Nat /\ changedSince \in BOOLEAN /\ lifeStatus \in LifeStatuses
    BY DEF DeviceHealthInit
  <1>2. shown = Unseen /\ lastSeen = Unseen /\ newest = Unseen
    BY DEF DeviceHealthInit
  <1> QED
    BY <1>1, <1>2 DEF HealthFollows

LEMMA HealthStepKeeps == HealthFollows /\ [DeviceHealthNext]_healthVars => HealthFollows'
  <1> SUFFICES ASSUME HealthFollows, [DeviceHealthNext]_healthVars PROVE HealthFollows'
    OBVIOUS
  <1> USE HealthAssumption
  <1>1. ASSUME NEW status \in LifeStatuses, Becomes(status) PROVE HealthFollows'
    BY <1>1 DEF Becomes, HealthFollows
  <1>2. ActivateAgain \/ DeactivateAgain \/ Maintain => HealthFollows'
    BY <1>1 DEF ActivateAgain, DeactivateAgain, Maintain, LifeStatuses
  <1>3. ASSUME NEW time \in 0..MaxTime, Report(time) PROVE HealthFollows'
    BY <1>3 DEF Report, HealthFollows
  <1>4. CASE GetDevice
    <2>1. clock \in Nat /\ clock <= clock /\ (lastSeen # Unseen => lastSeen <= clock)
      BY DEF HealthFollows
    <2> QED
      BY <1>4, <2>1 DEF GetDevice, HealthFollows
  <1>5. CASE TimePasses
    BY <1>5 DEF TimePasses, HealthFollows
  <1>6. CASE UNCHANGED healthVars
    BY <1>6 DEF healthVars, HealthFollows
  <1> QED
    BY <1>2, <1>3, <1>4, <1>5, <1>6 DEF DeviceHealthNext

\* The older a report, the less it says for the device.
LEMMA HealthFalls ==
  ASSUME NEW last \in Nat \cup {Unseen}, NEW then \in Nat, NEW now \in Nat, then <= now,
         last # Unseen => last <= then
  PROVE  OfAge(last, now) <= OfAge(last, then) /\ (IsOnline(last, now) => IsOnline(last, then))
  <1>1. CASE last = Unseen
    BY <1>1 DEF OfAge, IsOnline
  <1>2. CASE last # Unseen
    BY <1>2, HealthAssumption DEF OfAge, IsOnline, Age
  <1> QED
    BY <1>1, <1>2

LEMMA HealthIsRight == HealthFollows => HealthToldInv
  <1> SUFFICES ASSUME HealthFollows PROVE HealthToldInv
    OBVIOUS
  <1> USE HealthAssumption
  <1>1. lifeStatus \in LifeStatuses /\ clock \in Nat
    BY DEF HealthFollows
  <1>2. OfStatus(lifeStatus) \in {0, 5, 7, 10} /\ (OfStatus(lifeStatus) = 0 <=> lifeStatus = "decommissioned")
        /\ (lifeStatus = "active" => OfStatus(lifeStatus) = 10)
    BY <1>1 DEF OfStatus, LifeStatuses
  <1>3. OfAge(lastSeen, clock) \in {2, 3, 6, 8, 10}
    BY DEF OfAge
  <1>4. Stale => OfAge(lastSeen, clock) <= 3
    BY DEF Stale, IsStale, OfAge, Age, HealthFollows
  <1>5. ~Stale => OfAge(lastSeen, clock) >= 6
    BY DEF Stale, IsStale, OfAge, Age, HealthFollows
  <1>6. Online => /\ newest # Unseen /\ clock - newest <= OnlineFor
                  /\ ~Stale /\ OfAge(lastSeen, clock) = 10
    BY DEF Online, IsOnline, Stale, IsStale, OfAge, Age, HealthFollows
  <1>7. \A a, b \in Nat : a \in {0, 5, 7, 10} /\ b \in {2, 3, 6, 8, 10} =>
            /\ b <= 3 => a * b <= 30
            /\ a = 10 /\ b >= 6 => a * b > 30
            /\ a * b = 0 <=> a = 0
    OBVIOUS
  <1>8. ScoreFollowsStaleness
    BY <1>2, <1>3, <1>4, <1>5, <1>7 DEF ScoreFollowsStaleness, Healthy, Score
  <1>9. OnlineIsHeard
    BY <1>6 DEF OnlineIsHeard, Healthy, Score
  <1>10. ShownIsTheBest
    <2> SUFFICES ASSUME shown # Unseen, ~changedSince
                 PROVE  Healthy <= shown.health /\ (Online => shown.online)
      BY DEF ShownIsTheBest
    <2>1. PICK then \in Nat : /\ then <= clock /\ shown = Dto(lifeStatus, lastSeen, then)
                              /\ lastSeen # Unseen => lastSeen <= then
      BY DEF HealthFollows
    <2>2. lastSeen \in Nat \cup {Unseen}
      BY DEF HealthFollows
    <2>3. OfAge(lastSeen, clock) <= OfAge(lastSeen, then) /\ (Online => IsOnline(lastSeen, then))
      BY <1>1, <2>1, <2>2, HealthFalls DEF Online
    <2>4. OfAge(lastSeen, then) \in {2, 3, 6, 8, 10}
      BY DEF OfAge
    <2>5. shown.health = OfStatus(lifeStatus) * OfAge(lastSeen, then) /\ shown.online = IsOnline(lastSeen, then)
      BY <2>1 DEF Dto, Score
    <2>6. Healthy = OfStatus(lifeStatus) * OfAge(lastSeen, clock)
      BY DEF Healthy, Score
    <2>7. \A a, b, c \in {0, 2, 3, 5, 6, 7, 8, 10} : b <= c => a * b <= a * c
      OBVIOUS
    <2> QED
      BY <1>2, <1>3, <2>3, <2>4, <2>5, <2>6, <2>7
  <1> QED
    BY <1>8, <1>9, <1>10 DEF HealthToldInv


-----------------------------------------------------------------------------
(* Migrations *)

\* Schemas are made of columns that models declare; Alembic's is not one of them.
Declarable == SUBSET UNION Schemas
Script == [adds : Declarable, drops : Declarable]

\* A script that takes schema a to b drops what is there and adds what is not: it can be undone.
Takes(script, a, b) ==
    a \cap script.adds = {} /\ script.drops \subseteq a /\ b = ScriptApplied(a, script)

\* The schemas at all revisions.
SchemasOf(h) ==
    /\ h \in [0 .. Len(scripts) -> Declarable] /\ h[0] = {}
    /\ \A k \in 1 .. Len(scripts) : Takes(scripts[k], h[k - 1], h[k])

MigrationsFollow ==
    /\ drifted \in BOOLEAN
    /\ ~drifted =>
        /\ models \in Schemas /\ scripts \in Seq(Script)
        /\ revision \in 0 .. Len(scripts)
        /\ \E h : SchemasOf(h) /\ schema \ {VersionColumn} = h[revision]

\* Values that start at base and become others by scripts, applied or undone.
Applied(h, q, n) == \A k \in 1 .. n : h[k] = ScriptApplied(h[k - 1], q[k])
Undone(h, q, n) == \A k \in 1 .. n : h[k] = ScriptUndone(h[k - 1], q[k])

\* The folds of the model, by name; scripts take subsets of X to subsets of X.
ValuesIn(h, X, n) == h \in [0 .. n -> SUBSET X]
ScriptsOf(q, n) == DOMAIN q = 1 .. n
ApplyIn(q, X, n) == \A k \in 1 .. n : \A s \in SUBSET X : ScriptApplied(s, q[k]) \in SUBSET X
UndoIn(q, X, n) == \A k \in 1 .. n : \A s \in SUBSET X : ScriptUndone(s, q[k]) \in SUBSET X
AppliedTo(base, q) == FoldLeft(ScriptApplied, base, q)
UndoneFrom(base, q) == FoldLeft(ScriptUndone, base, q)

LEMMA AppliedInTurn ==
  ASSUME NEW X, NEW n \in Nat, NEW q, ScriptsOf(q, n), NEW h, ValuesIn(h, X, n), ApplyIn(q, X, n), Applied(h, q, n)
  PROVE  AppliedTo(h[0], q) = h[n]
  <1>a. /\ DOMAIN q = 1 .. n /\ h \in [0 .. n -> SUBSET X]
        /\ \A k \in 1 .. n : \A s \in SUBSET X : ScriptApplied(s, q[k]) \in SUBSET X
    BY DEF ScriptsOf, ValuesIn, ApplyIn
  <1> DEFINE T == 1 .. n
             R == SUBSET X
             step == [y \in T \X R |-> ScriptApplied(y[2], q[y[1]])]
             top == [s \in SUBSET T |-> Max(s)]
  <1>1. h[0] \in R
    BY <1>a
  <1>2. step \in [T \X R -> R]
    BY <1>a
  <1>3. Tops(top, n)
    BY GreatestOfSome DEF Tops, Max
  <1>4. PICK f \in [SUBSET T -> R], g \in [0 .. n -> R] :
           Folded(f, T, h[0], step, top) /\ Steps(g, n, h[0], step) /\ f[T] = g[n]
    <2>1. HasFold(n, R, h[0], step, top)
      <3> HIDE DEF R, step, top
      <3> QED
        BY <1>1, <1>2, <1>3, SequenceFold
    <2> QED
      BY <2>1 DEF HasFold
  <1>5. \A s \in SUBSET T : s # {} => top[s] = Max(s) /\ Max(s) \in T /\ s \ {Max(s)} \in SUBSET T
    BY <1>3 DEF Tops
  <1>6. ASSUME NEW s \in SUBSET T
        PROVE  f[s] = IF s = {} THEN h[0] ELSE ScriptApplied(f[s \ {Max(s)}], q[Max(s)])
    <2>1. s # {} => f[s \ {Max(s)}] \in R
      BY <1>5
    <2>2. \A k \in T, v \in R : step[<<k, v>>] = ScriptApplied(v, q[k])
      OBVIOUS
    <2> HIDE DEF step, T, R, top
    <2> QED
      BY <1>4, <1>5, <2>1, <2>2 DEF Folded
  <1> DEFINE Fold(it) == [s \in SUBSET T |-> IF s = {} THEN h[0] ELSE ScriptApplied(it[s \ {Max(s)}], q[Max(s)])]
             it == CHOOSE it : it = Fold(it)
  <1>7. it = Fold(it)
    <2>1. f = Fold(f)
      BY <1>6
    <2> HIDE DEF Fold
    <2> QED
      BY <2>1
  <1>8. AppliedTo(h[0], q) = it[T]
    BY <1>a DEF AppliedTo, FoldLeft, MapThenFoldSet
  <1>9. it[T] = f[T]
    <2>1. ASSUME NEW s \in SUBSET T, s # {} => it[s \ {top[s]}] = f[s \ {top[s]}] PROVE it[s] = f[s]
      <3>1. it[s] = IF s = {} THEN h[0] ELSE ScriptApplied(it[s \ {Max(s)}], q[Max(s)])
        <4> HIDE DEF it
        <4> QED
          BY <1>7
      <3> HIDE DEF it, top
      <3> QED
        BY <1>5, <1>6, <2>1, <3>1
    <2> HIDE DEF it, top
    <2>2. SameFold(it, f, T, top)
      BY <2>1 DEF SameFold
    <2>3. Picks(top, T)
      BY <1>3 DEF Picks, Tops
    <2>4. IsFiniteSet(T)
      BY FS_Interval
    <2> HIDE DEF T
    <2> QED
      BY <2>2, <2>3, <2>4, FoldsAgree
  <1>10. AppliedTo(h[0], q) = g[n]
    <2> HIDE DEF it
    <2> QED
      BY <1>4, <1>8, <1>9
  <1> DEFINE P == {k \in Nat : k <= n => g[k] = h[k]}
  <1>11. 0 \in P
    BY <1>4 DEF Steps
  <1>12. ASSUME NEW k \in Nat, k \in P PROVE k + 1 \in P
    <2> SUFFICES ASSUME k + 1 <= n PROVE g[k + 1] = h[k + 1]
      OBVIOUS
    <2>1. k \in 0 .. n /\ k + 1 \in T /\ (k + 1) - 1 = k
      OBVIOUS
    <2>2. h[k] \in R /\ g[k] = h[k]
      BY <1>a, <1>12, <2>1
    <2>3. g[k + 1] = step[<<k + 1, g[k]>>]
      <3> HIDE DEF step
      <3> QED
        BY <1>4, <2>1 DEF Steps
    <2> QED
      BY <2>1, <2>2, <2>3 DEF Applied
  <1>13. Nat \subseteq P
    <2> HIDE DEF P
    <2> QED
      BY <1>11, <1>12, NatHolds
  <1> QED
    BY <1>10, <1>13

LEMMA UndoneInTurn ==
  ASSUME NEW X, NEW n \in Nat, NEW q, ScriptsOf(q, n), NEW h, ValuesIn(h, X, n), UndoIn(q, X, n), Undone(h, q, n)
  PROVE  UndoneFrom(h[0], q) = h[n]
  <1>a. /\ DOMAIN q = 1 .. n /\ h \in [0 .. n -> SUBSET X]
        /\ \A k \in 1 .. n : \A s \in SUBSET X : ScriptUndone(s, q[k]) \in SUBSET X
    BY DEF ScriptsOf, ValuesIn, UndoIn
  <1> DEFINE T == 1 .. n
             R == SUBSET X
             step == [y \in T \X R |-> ScriptUndone(y[2], q[y[1]])]
             top == [s \in SUBSET T |-> Max(s)]
  <1>1. h[0] \in R
    BY <1>a
  <1>2. step \in [T \X R -> R]
    BY <1>a
  <1>3. Tops(top, n)
    BY GreatestOfSome DEF Tops, Max
  <1>4. PICK f \in [SUBSET T -> R], g \in [0 .. n -> R] :
           Folded(f, T, h[0], step, top) /\ Steps(g, n, h[0], step) /\ f[T] = g[n]
    <2>1. HasFold(n, R, h[0], step, top)
      <3> HIDE DEF R, step, top
      <3> QED
        BY <1>1, <1>2, <1>3, SequenceFold
    <2> QED
      BY <2>1 DEF HasFold
  <1>5. \A s \in SUBSET T : s # {} => top[s] = Max(s) /\ Max(s) \in T /\ s \ {Max(s)} \in SUBSET T
    BY <1>3 DEF Tops
  <1>6. ASSUME NEW s \in SUBSET T
        PROVE  f[s] = IF s = {} THEN h[0] ELSE ScriptUndone(f[s \ {Max(s)}], q[Max(s)])
    <2>1. s # {} => f[s \ {Max(s)}] \in R
      BY <1>5
    <2>2. \A k \in T, v \in R : step[<<k, v>>] = ScriptUndone(v, q[k])
      OBVIOUS
    <2> HIDE DEF step, T, R, top
    <2> QED
      BY <1>4, <1>5, <2>1, <2>2 DEF Folded
  <1> DEFINE Fold(it) == [s \in SUBSET T |-> IF s = {} THEN h[0] ELSE ScriptUndone(it[s \ {Max(s)}], q[Max(s)])]
             it == CHOOSE it : it = Fold(it)
  <1>7. it = Fold(it)
    <2>1. f = Fold(f)
      BY <1>6
    <2> HIDE DEF Fold
    <2> QED
      BY <2>1
  <1>8. UndoneFrom(h[0], q) = it[T]
    BY <1>a DEF UndoneFrom, FoldLeft, MapThenFoldSet
  <1>9. it[T] = f[T]
    <2>1. ASSUME NEW s \in SUBSET T, s # {} => it[s \ {top[s]}] = f[s \ {top[s]}] PROVE it[s] = f[s]
      <3>1. it[s] = IF s = {} THEN h[0] ELSE ScriptUndone(it[s \ {Max(s)}], q[Max(s)])
        <4> HIDE DEF it
        <4> QED
          BY <1>7
      <3> HIDE DEF it, top
      <3> QED
        BY <1>5, <1>6, <2>1, <3>1
    <2> HIDE DEF it, top
    <2>2. SameFold(it, f, T, top)
      BY <2>1 DEF SameFold
    <2>3. Picks(top, T)
      BY <1>3 DEF Picks, Tops
    <2>4. IsFiniteSet(T)
      BY FS_Interval
    <2> HIDE DEF T
    <2> QED
      BY <2>2, <2>3, <2>4, FoldsAgree
  <1>10. UndoneFrom(h[0], q) = g[n]
    <2> HIDE DEF it
    <2> QED
      BY <1>4, <1>8, <1>9
  <1> DEFINE P == {k \in Nat : k <= n => g[k] = h[k]}
  <1>11. 0 \in P
    BY <1>4 DEF Steps
  <1>12. ASSUME NEW k \in Nat, k \in P PROVE k + 1 \in P
    <2> SUFFICES ASSUME k + 1 <= n PROVE g[k + 1] = h[k + 1]
      OBVIOUS
    <2>1. k \in 0 .. n /\ k + 1 \in T /\ (k + 1) - 1 = k
      OBVIOUS
    <2>2. h[k] \in R /\ g[k] = h[k]
      BY <1>a, <1>12, <2>1
    <2>3. g[k + 1] = step[<<k + 1, g[k]>>]
      <3> HIDE DEF step
      <3> QED
        BY <1>4, <2>1 DEF Steps
    <2> QED
      BY <2>1, <2>2, <2>3 DEF Undone
  <1>13. Nat \subseteq P
    <2> HIDE DEF P
    <2> QED
      BY <1>11, <1>12, NatHolds
  <1> QED
    BY <1>10, <1>13

\* A script and its undoing leave Alembic's column alone.
Apart(v) == v \cap UNION Schemas = {}
With(a, v) == a \cup v

LEMMA ScriptTakes ==
  ASSUME NEW s \in Script, NEW a, NEW b, Takes(s, a, b), NEW v, Apart(v)
  PROVE  ScriptApplied(With(a, v), s) = With(b, v) /\ ScriptUndone(With(b, v), s) = With(a, v)
  BY DEF Apart, With, Takes, ScriptApplied, ScriptUndone, Script, Declarable

LEMMA ScriptTyped ==
  ASSUME NEW s \in Script, NEW v, NEW a \in SUBSET ((UNION Schemas) \cup v)
  PROVE  /\ ScriptApplied(a, s) \in SUBSET ((UNION Schemas) \cup v)
         /\ ScriptUndone(a, s) \in SUBSET ((UNION Schemas) \cup v)
  BY DEF ScriptApplied, ScriptUndone, Script, Declarable

\* Migrating to a revision, up or down, makes the schema of that revision.
LEMMA SchemaAtRevision ==
  ASSUME scripts \in Seq(Script), revision \in 0 .. Len(scripts), NEW h, SchemasOf(h),
         schema \ {VersionColumn} = h[revision], NEW n \in 0 .. Len(scripts)
  PROVE  SchemaAt(n) \ {VersionColumn} = h[n]
  <1> DEFINE v == schema \cap {VersionColumn}
             X == (UNION Schemas) \cup v
             len == Len(scripts)
  <1>1. len \in Nat /\ revision \in Nat /\ n \in Nat /\ revision <= len /\ n <= len
        /\ \A i \in 1 .. len : scripts[i] \in Script
    OBVIOUS
  <1>2. v \cap UNION Schemas = {}
    BY MigrationAssumption
  <1>3. schema = h[revision] \cup v
    OBVIOUS
  <1>4. \A k \in 0 .. len : h[k] \in Declarable
    BY DEF SchemasOf
  <1>5. \A k \in 0 .. len : VersionColumn \notin h[k] /\ (h[k] \cup v) \ {VersionColumn} = h[k]
                            /\ h[k] \cup v \in SUBSET X
    <2> SUFFICES ASSUME NEW k \in 0 .. len
                 PROVE  VersionColumn \notin h[k] /\ (h[k] \cup v) \ {VersionColumn} = h[k] /\ h[k] \cup v \in SUBSET X
      OBVIOUS
    <2>1. h[k] \subseteq UNION Schemas
      BY <1>4 DEF Declarable
    <2>2. VersionColumn \notin h[k]
      <3> SUFFICES ASSUME VersionColumn \in h[k] PROVE FALSE
        OBVIOUS
      <3> QED
        BY <2>1, MigrationAssumption, Zenon
    <2> QED
      BY <2>1, <2>2
  <1>6. \A k \in 1 .. len : /\ ScriptApplied(h[k - 1] \cup v, scripts[k]) = h[k] \cup v
                            /\ ScriptUndone(h[k] \cup v, scripts[k]) = h[k - 1] \cup v
    <2> SUFFICES ASSUME NEW k \in 1 .. len
                 PROVE  /\ ScriptApplied(h[k - 1] \cup v, scripts[k]) = h[k] \cup v
                        /\ ScriptUndone(h[k] \cup v, scripts[k]) = h[k - 1] \cup v
      OBVIOUS
    <2>1. Takes(scripts[k], h[k - 1], h[k]) /\ scripts[k] \in Script
      BY <1>1 DEF SchemasOf
    <2>2. PICK a, b, s : a = h[k - 1] /\ b = h[k] /\ s = scripts[k]
      OBVIOUS
    <2>3. a \in Declarable /\ b \in Declarable
      BY <1>4, <2>2, <1>1 DEF Takes
    <2>4. Apart(v)
      BY <1>2 DEF Apart
    <2> HIDE DEF v
    <2>5. Takes(s, a, b) /\ s \in Script
      BY <2>1, <2>2
    <2>6. ScriptApplied(With(a, v), s) = With(b, v) /\ ScriptUndone(With(b, v), s) = With(a, v)
      BY <2>4, <2>5, ScriptTakes
    <2>7. With(a, v) = h[k - 1] \cup v /\ With(b, v) = h[k] \cup v
      BY <2>2, Zenon DEF With
    <2> QED
      BY <2>2, <2>6, <2>7, Zenon
  <1> HIDE DEF v, len
  <1>7. CASE n >= revision
    <2> DEFINE m == n - revision
               q == SubSeq(scripts, revision + 1, n)
               g == [k \in 0 .. m |-> h[revision + k] \cup v]
    <2>1. m \in Nat /\ n = revision + m
      BY <1>1, <1>7
    <2>2. DOMAIN q = 1 .. m /\ \A k \in 1 .. m : q[k] = scripts[revision + k] /\ q[k] \in Script
      <3>1. \A i \in revision + 1 .. n : scripts[i] \in Script
        BY <1>1
      <3>2. /\ q \in Seq(Script) /\ Len(q) = (IF revision + 1 <= n THEN n - (revision + 1) + 1 ELSE 0)
            /\ \A k \in 1 .. n - (revision + 1) + 1 : q[k] = scripts[(revision + 1) + k - 1]
        BY <1>1, <3>1, SubSeqProperties
      <3>3. Len(q) = m /\ n - (revision + 1) + 1 = m
        BY <1>1, <1>7, <3>2
      <3>4. \A k \in 1 .. m : (revision + 1) + k - 1 = revision + k
        BY <1>1, <2>1
      <3> HIDE DEF q, m
      <3>5. DOMAIN q = 1 .. m
        BY <3>2, <3>3
      <3> QED
        BY <3>2, <3>3, <3>4, <3>5
    <2>3. \A k \in 0 .. m : revision + k \in 0 .. len
      BY <1>1, <2>1
    <2>4. g \in [0 .. m -> SUBSET X]
      BY <1>5, <2>3
    <2>5. Applied(g, q, m)
      <3> SUFFICES ASSUME NEW k \in 1 .. m PROVE g[k] = ScriptApplied(g[k - 1], q[k])
        BY DEF Applied
      <3>1. k - 1 \in 0 .. m /\ k \in 0 .. m /\ revision + k \in 1 .. len /\ revision + (k - 1) = (revision + k) - 1
        BY <1>1, <2>1
      <3>2. g[k] = h[revision + k] \cup v /\ g[k - 1] = h[(revision + k) - 1] \cup v
        BY <3>1
      <3> HIDE DEF g, q
      <3> QED
        BY <1>6, <2>2, <3>1, <3>2
    <2>6. \A k \in 1 .. m : \A s \in SUBSET X : ScriptApplied(s, q[k]) \in SUBSET X
      <3> HIDE DEF q, m
      <3> QED
        BY <2>2, ScriptTyped
    <2>7. g[0] = schema /\ g[m] = h[n] \cup v
      <3>1. 0 \in 0 .. m /\ m \in 0 .. m /\ revision + 0 = revision /\ revision + m = n
        BY <1>1, <2>1
      <3> HIDE DEF m
      <3> QED
        BY <1>3, <3>1
    <2> HIDE DEF g, q, m
    <2>8. AppliedTo(g[0], q) = g[m]
      <3> HIDE DEF X
      <3>1. ScriptsOf(q, m)
        BY <2>2 DEF ScriptsOf
      <3>2. ValuesIn(g, X, m)
        BY <2>4 DEF ValuesIn
      <3>3. ApplyIn(q, X, m)
        BY <2>6 DEF ApplyIn
      <3> QED
        BY <2>1, <2>5, <3>1, <3>2, <3>3, AppliedInTurn
    <2>9. SchemaAt(n) = AppliedTo(schema, q)
      BY <1>7, Zenon DEF SchemaAt, AppliedTo, UndoneFrom, q
    <2>10. SchemaAt(n) = h[n] \cup v
      BY <2>7, <2>8, <2>9, Zenon
    <2> QED
      BY <1>1, <1>5, <2>10 DEF len
  <1>8. CASE n < revision
    <2> DEFINE m == revision - n
               p == SubSeq(scripts, n + 1, revision)
               q == Reverse(p)
               g == [k \in 0 .. m |-> h[revision - k] \cup v]
    <2>1. m \in Nat /\ n = revision - m
      BY <1>1, <1>8
    <2>2. DOMAIN q = 1 .. m /\ \A k \in 1 .. m : q[k] = scripts[revision - k + 1] /\ q[k] \in Script
      <3>1. \A i \in n + 1 .. revision : scripts[i] \in Script
        BY <1>1
      <3>2. /\ p \in Seq(Script) /\ Len(p) = (IF n + 1 <= revision THEN revision - (n + 1) + 1 ELSE 0)
            /\ \A k \in 1 .. revision - (n + 1) + 1 : p[k] = scripts[(n + 1) + k - 1]
        BY <1>1, <3>1, SubSeqProperties
      <3>3. Len(p) = m /\ revision - (n + 1) + 1 = m
        BY <1>1, <1>8, <3>2
      <3>4. DOMAIN q = 1 .. m /\ \A k \in 1 .. m : q[k] = p[(m - k) + 1]
        BY <3>3 DEF Reverse
      <3>5. \A k \in 1 .. m : (m - k) + 1 \in 1 .. m /\ (n + 1) + ((m - k) + 1) - 1 = revision - k + 1
                              /\ revision - k + 1 \in 1 .. len
        BY <1>1, <2>1
      <3> HIDE DEF p, q, m
      <3> QED
        BY <1>1, <3>2, <3>3, <3>4, <3>5, ZenonT(40) DEF len
    <2>3. \A k \in 0 .. m : revision - k \in 0 .. len
      BY <1>1, <2>1
    <2>4. g \in [0 .. m -> SUBSET X]
      BY <1>5, <2>3
    <2>5. Undone(g, q, m)
      <3> SUFFICES ASSUME NEW k \in 1 .. m PROVE g[k] = ScriptUndone(g[k - 1], q[k])
        BY DEF Undone
      <3>1. k - 1 \in 0 .. m /\ k \in 0 .. m /\ revision - k + 1 \in 1 .. len /\ revision - (k - 1) = revision - k + 1
            /\ (revision - k + 1) - 1 = revision - k
        BY <1>1, <2>1
      <3>2. g[k] = h[revision - k] \cup v /\ g[k - 1] = h[revision - k + 1] \cup v
        BY <3>1
      <3> HIDE DEF g, q
      <3> QED
        BY <1>6, <2>2, <3>1, <3>2
    <2>6. \A k \in 1 .. m : \A s \in SUBSET X : ScriptUndone(s, q[k]) \in SUBSET X
      <3> HIDE DEF q, m
      <3> QED
        BY <2>2, ScriptTyped
    <2>7. g[0] = schema /\ g[m] = h[n] \cup v
      <3>1. 0 \in 0 .. m /\ m \in 0 .. m /\ revision - 0 = revision /\ revision - m = n
        BY <1>1, <2>1
      <3> HIDE DEF m
      <3> QED
        BY <1>3, <3>1
    <2> HIDE DEF g, q, m
    <2>8. UndoneFrom(g[0], q) = g[m]
      <3> HIDE DEF X
      <3>1. ScriptsOf(q, m)
        BY <2>2 DEF ScriptsOf
      <3>2. ValuesIn(g, X, m)
        BY <2>4 DEF ValuesIn
      <3>3. UndoIn(q, X, m)
        BY <2>6 DEF UndoIn
      <3> QED
        BY <2>1, <2>5, <3>1, <3>2, <3>3, UndoneInTurn
    <2>9. SchemaAt(n) = UndoneFrom(schema, q)
      <3>1. ~(n >= revision)
        BY <1>1, <1>8
      <3> QED
        BY <3>1, Zenon DEF SchemaAt, AppliedTo, UndoneFrom, q
    <2>10. SchemaAt(n) = h[n] \cup v
      BY <2>7, <2>8, <2>9, Zenon
    <2> QED
      BY <1>1, <1>5, <2>10 DEF len
  <1> QED
    BY <1>1, <1>7, <1>8

LEMMA MigrationsInitially == MigrationsInit => MigrationsFollow
  <1> SUFFICES ASSUME MigrationsInit PROVE MigrationsFollow
    OBVIOUS
  <1> DEFINE h == [k \in 0 .. 0 |-> {}]
  <1>1. scripts = <<>> /\ schema = {} /\ revision = 0 /\ models \in Schemas /\ drifted = FALSE
    BY DEF MigrationsInit
  <1>2. scripts \in Seq(Script) /\ Len(scripts) = 0
    BY <1>1
  <1>3. SchemasOf(h)
    BY <1>2 DEF SchemasOf, Declarable
  <1>4. schema \ {VersionColumn} = h[revision]
    BY <1>1
  <1> HIDE DEF h
  <1>5. drifted \in BOOLEAN
    BY <1>1
  <1>6. revision \in 0 .. Len(scripts)
    BY <1>1, <1>2
  <1> QED
    BY <1>1, <1>2, <1>3, <1>4, <1>5, <1>6 DEF MigrationsFollow

LEMMA MigrationsStepKeeps == MigrationsFollow /\ [MigrationsNext]_migVars => MigrationsFollow'
  <1> SUFFICES ASSUME MigrationsFollow, [MigrationsNext]_migVars PROVE MigrationsFollow'
    OBVIOUS
  <1>1. ASSUME ~drifted, NEW n, UNCHANGED <<models, scripts, drifted>>, n \in 0 .. Len(scripts),
               schema' = SchemaAt(n), revision' = n
        PROVE  MigrationsFollow'
    <2>1. PICK h : SchemasOf(h) /\ schema \ {VersionColumn} = h[revision]
      BY <1>1 DEF MigrationsFollow
    <2>2. SchemaAt(n) \ {VersionColumn} = h[n]
      BY <1>1, <2>1, SchemaAtRevision DEF MigrationsFollow
    <2> QED
      BY <1>1, <2>1, <2>2 DEF MigrationsFollow, SchemasOf
  <1>2. ASSUME NEW copied \in BOOLEAN, NEW n \in 0 .. MaxScripts,
               MigrateToLatest(copied, n) \/ RollbackToRevision(copied, n)
        PROVE  MigrationsFollow'
    <2>1. UNCHANGED <<models, scripts, drifted>> /\ schema' = SchemaAt(n) /\ revision' = n
      BY <1>2 DEF MigrateToLatest, RollbackToRevision
    <2>2. ~drifted => n \in 0 .. Len(scripts)
      BY <1>2 DEF MigrateToLatest, RollbackToRevision, MigrationsFollow
    <2>3. CASE drifted
      BY <2>1, <2>3 DEF MigrationsFollow
    <2>4. CASE ~drifted
      BY <1>1, <2>1, <2>2, <2>4
    <2> QED
      BY <2>3, <2>4
  <1>3. CASE GenerateMigration
    <2> SUFFICES ASSUME ~drifted' PROVE MigrationsFollow'
      BY <1>3 DEF MigrationsFollow, GenerateMigration
    <2> DEFINE s == schema \ {VersionColumn}
               script == [adds |-> models \ s, drops |-> s \ models]
               len == Len(scripts)
    <2>1. ~drifted /\ models \in Schemas /\ scripts \in Seq(Script) /\ len \in Nat
      BY <1>3 DEF GenerateMigration, MigrationsFollow
    <2>2. PICK h : SchemasOf(h) /\ s = h[revision]
      BY <2>1 DEF MigrationsFollow
    <2>3. /\ revision = len /\ scripts' = Append(scripts, script) /\ schema' = schema \cup {VersionColumn}
          /\ UNCHANGED <<models, revision, drifted>>
      BY <1>3 DEF GenerateMigration
    <2>4. /\ h \in [0 .. len -> Declarable] /\ h[0] = {}
          /\ \A k \in 1 .. len : Takes(scripts[k], h[k - 1], h[k])
      BY <2>2 DEF SchemasOf
    <2>5. s \in Declarable /\ models \in Declarable
      BY <2>1, <2>2, <2>3, <2>4 DEF Declarable
    <2>6. script \in Script
      BY <2>5 DEF Script, Declarable
    <2>7. Takes(script, s, models)
      <3>1. PICK sc : sc = script
        OBVIOUS
      <3>2. sc.adds = models \ s /\ sc.drops = s \ models
        BY <3>1
      <3>3. Takes(sc, s, models)
        BY <3>2 DEF Takes, ScriptApplied
      <3> QED
        BY <3>1, <3>3
    <2> HIDE DEF script, len, s
    <2>8. /\ scripts' \in Seq(Script) /\ Len(scripts') = len + 1 /\ scripts'[len + 1] = script
          /\ \A k \in 1 .. len : scripts'[k] = scripts[k]
      BY <2>1, <2>3, <2>6, AppendProperties DEF len
    <2>g. PICK g : g = [k \in 0 .. len + 1 |-> IF k = len + 1 THEN models ELSE h[k]]
      OBVIOUS
    <2>9. g \in [0 .. len + 1 -> Declarable]
      BY <2>1, <2>4, <2>5, <2>g
    <2>10. g[0] = {} /\ g[len] = s /\ g[len + 1] = models /\ \A k \in 0 .. len : g[k] = h[k]
      BY <2>1, <2>2, <2>3, <2>4, <2>g
    <2>11. ASSUME NEW k \in 1 .. len + 1 PROVE Takes(scripts'[k], g[k - 1], g[k])
      <3>1. CASE k = len + 1
        <4>1. k - 1 = len
          BY <2>1, <3>1
        <4> QED
          BY <2>7, <2>8, <2>10, <3>1, <4>1
      <3>2. CASE k # len + 1
        <4>1. k \in 1 .. len /\ k \in 0 .. len /\ k - 1 \in 0 .. len
          BY <2>1, <3>2
        <4> QED
          BY <2>4, <2>8, <2>10, <4>1
      <3> QED
        BY <3>1, <3>2
    <2>12. SchemasOf(g)'
      BY <2>8, <2>9, <2>10, <2>11 DEF SchemasOf
    <2>13. schema' \ {VersionColumn} = g[revision']
      BY <2>3, <2>10 DEF s
    <2>14. revision' \in 0 .. Len(scripts') /\ models' \in Schemas
      BY <2>1, <2>3, <2>8
    <2>15. drifted' \in BOOLEAN
      BY <2>3 DEF MigrationsFollow
    <2> QED
      BY <2>8, <2>12, <2>13, <2>14, <2>15 DEF MigrationsFollow
  <1>4. CASE CreateTables \/ DropTables
    BY <1>4 DEF CreateTables, DropTables, MigrationsFollow
  <1>5. ASSUME NEW m \in Schemas, ModelsChange(m) PROVE MigrationsFollow'
    BY <1>5 DEF ModelsChange, MigrationsFollow, SchemasOf
  <1>6. CASE SecondPasses \/ UNCHANGED migVars
    BY <1>6 DEF SecondPasses, migVars, MigrationsFollow, SchemasOf
  <1> QED
    BY <1>2, <1>3, <1>4, <1>5, <1>6 DEF MigrationsNext

LEMMA MigrationsChecked == MigrationsFollow => SchemaFollowsRevision
  <1> SUFFICES ASSUME MigrationsFollow, ~drifted
               PROVE  schema \ {VersionColumn} = AppliedTo({}, SubSeq(scripts, 1, revision))
    BY DEF SchemaFollowsRevision, AppliedTo
  <1>1. scripts \in Seq(Script) /\ revision \in 0 .. Len(scripts)
    BY DEF MigrationsFollow
  <1>2. PICK h : SchemasOf(h) /\ schema \ {VersionColumn} = h[revision]
    BY DEF MigrationsFollow
  <1> DEFINE X == UNION Schemas
             q == SubSeq(scripts, 1, revision)
             g == [k \in 0 .. revision |-> h[k]]
  <1>3. Len(scripts) \in Nat /\ revision \in Nat /\ revision <= Len(scripts)
        /\ \A i \in 1 .. Len(scripts) : scripts[i] \in Script
    BY <1>1
  <1>4. DOMAIN q = 1 .. revision /\ \A k \in 1 .. revision : q[k] = scripts[k] /\ q[k] \in Script
    <2>1. \A i \in 1 .. revision : scripts[i] \in Script
      BY <1>3
    <2>2. /\ q \in Seq(Script) /\ Len(q) = (IF 1 <= revision THEN revision - 1 + 1 ELSE 0)
          /\ \A k \in 1 .. revision - 1 + 1 : q[k] = scripts[1 + k - 1]
      BY <1>3, <2>1, SubSeqProperties
    <2>3. Len(q) = revision /\ revision - 1 + 1 = revision /\ \A k \in 1 .. revision : 1 + k - 1 = k
      BY <1>3, <2>2
    <2> HIDE DEF q
    <2> QED
      BY <2>1, <2>2, <2>3
  <1>5. g \in [0 .. revision -> SUBSET X] /\ g[0] = {} /\ g[revision] = h[revision]
    <2>1. \A k \in 0 .. revision : k \in 0 .. Len(scripts)
      BY <1>3
    <2>2. \A k \in 0 .. revision : h[k] \in SUBSET X
      BY <1>2, <2>1 DEF SchemasOf, Declarable
    <2>3. 0 \in 0 .. revision /\ revision \in 0 .. revision
      BY <1>3
    <2>4. h[0] = {}
      BY <1>2 DEF SchemasOf
    <2> HIDE DEF X
    <2> QED
      BY <2>2, <2>3, <2>4
  <1>6. Applied(g, q, revision)
    <2> SUFFICES ASSUME NEW k \in 1 .. revision PROVE g[k] = ScriptApplied(g[k - 1], q[k])
      BY DEF Applied
    <2>1. k \in 1 .. Len(scripts) /\ k \in 0 .. revision /\ k - 1 \in 0 .. revision
      BY <1>3
    <2> HIDE DEF q
    <2> QED
      BY <1>2, <1>4, <2>1 DEF SchemasOf, Takes
  <1>7. \A k \in 1 .. revision : \A s \in SUBSET X : ScriptApplied(s, q[k]) \in SUBSET X
    <2> HIDE DEF q
    <2> QED
      BY <1>4 DEF ScriptApplied, Script, Declarable
  <1> HIDE DEF g, q, X
  <1>8. AppliedTo(g[0], q) = g[revision]
    <2>1. PICK n : n = revision
      OBVIOUS
    <2>2. n \in Nat
      BY <1>3, <2>1
    <2>3. ScriptsOf(q, n)
      BY <1>4, <2>1 DEF ScriptsOf
    <2>4. ValuesIn(g, X, n)
      BY <1>5, <2>1 DEF ValuesIn
    <2>5. Applied(g, q, n)
      BY <1>6, <2>1
    <2>6. ApplyIn(q, X, n)
      BY <1>7, <2>1 DEF ApplyIn
    <2>7. AppliedTo(g[0], q) = g[n]
      BY <2>2, <2>3, <2>4, <2>5, <2>6, AppliedInTurn
    <2> QED
      BY <2>1, <2>7
  <1> QED
    BY <1>2, <1>5, <1>8, Zenon DEF q


-----------------------------------------------------------------------------
(* Rows of alerts *)

Columns5 == {"status", "count", "acked", "resolved", "deleted"}
Agrees(r) ==
    /\ r.status \in Ended => r.resolved
    /\ r.status \in Unended => ~r.resolved
    /\ r.status = "acknowledged" => r.acked

\* What a session has written is a part of a row.
IsPart(w) == \E S \in SUBSET Columns5 : \E a \in AlertRow : w = [c \in S |-> a[c]]

\* A session with object o, loaded values l, written columns w and n occurrences; the row is r.
InTheirOrder(r, total, late, o, l, w, n) ==
    /\ o \in AlertRow \cup {NoObject} /\ l \in AlertRow \cup {NoObject} /\ IsPart(w) /\ n \in Nat
    /\ o = NoObject <=> l = NoObject
    /\ o = NoObject => w = <<>> /\ n = 0
    /\ Over(w, r).count <= 1 + total + n
    /\ o # NoObject => o.count <= 1 + total + n
    /\ ~late /\ o # NoObject =>
        /\ Agrees(o)
        /\ w = <<>> => o.count = l.count + n
        /\ w # <<>> => l = Over(w, r) /\ o.count = 1 + total + n

RowInOrder(r, total, late) ==
    /\ r \in AlertRow /\ total \in Nat /\ late \in BOOLEAN
    /\ r.count <= 1 + total
    /\ ~late => r.count = 1 + total /\ Agrees(r)

AlertFollows ==
    /\ RowInOrder(row, recorded, raced)
    /\ object = [s \in AlertSessions |-> object[s]] /\ loaded = [s \in AlertSessions |-> loaded[s]]
    /\ written = [s \in AlertSessions |-> written[s]] /\ occurred = [s \in AlertSessions |-> occurred[s]]
    /\ \A s \in AlertSessions : InTheirOrder(row, recorded, raced, object[s], loaded[s], written[s], occurred[s])
    /\ \A s, t \in AlertSessions : s # t => written[s] = <<>> \/ written[t] = <<>>

LEMMA RowIsItsColumns ==
  ASSUME NEW a \in AlertRow
  PROVE  a = [c \in Columns5 |-> a[c]] /\ DOMAIN a = Columns5
  BY DEF AlertRow, Columns5

LEMMA ColumnsMakeRow ==
  ASSUME NEW a \in AlertRow, NEW b \in AlertRow, NEW S \in SUBSET Columns5
  PROVE  [c \in Columns5 |-> IF c \in S THEN a[c] ELSE b[c]] \in AlertRow
  BY DEF AlertRow, Columns5

\* The columns of a part are those of the part, the others those of the row.
LEMMA PartOnRow ==
  ASSUME NEW w, IsPart(w), NEW r \in AlertRow
  PROVE  /\ Over(w, r) \in AlertRow
         /\ DOMAIN w \subseteq Columns5
         /\ \A c \in Columns5 : Over(w, r)[c] = IF c \in DOMAIN w THEN w[c] ELSE r[c]
  <1>1. PICK S \in SUBSET Columns5, a \in AlertRow : w = [c \in S |-> a[c]]
    BY DEF IsPart
  <1>2. DOMAIN w = S /\ DOMAIN r = Columns5
    BY <1>1, RowIsItsColumns
  <1>3. Over(w, r) = [c \in DOMAIN w \cup DOMAIN r |-> IF c \in DOMAIN w THEN w[c] ELSE r[c]]
    BY DEF Over
  <1>4. Over(w, r) = [c \in Columns5 |-> IF c \in S THEN a[c] ELSE r[c]]
    BY <1>1, <1>2, <1>3
  <1>5. [c \in Columns5 |-> IF c \in S THEN a[c] ELSE r[c]] \in AlertRow
    BY ColumnsMakeRow
  <1> QED
    BY <1>1, <1>2, <1>4, <1>5

LEMMA NothingOnRow ==
  ASSUME NEW r \in AlertRow
  PROVE  IsPart(<<>>) /\ Over(<<>>, r) = r
  <1>1. <<>> = [c \in {} |-> r[c]]
    OBVIOUS
  <1>2. IsPart(<<>>)
    BY <1>1 DEF IsPart
  <1>3. Over(<<>>, r) = [c \in DOMAIN <<>> \cup DOMAIN r |-> IF c \in DOMAIN <<>> THEN <<>>[c] ELSE r[c]]
    BY DEF Over
  <1>4. Over(<<>>, r) = [c \in DOMAIN r |-> r[c]]
    BY <1>3
  <1> QED
    BY <1>2, <1>4, RowIsItsColumns

\* Rows with the same columns are the same.
LEMMA SameColumns ==
  ASSUME NEW a \in AlertRow, NEW b \in AlertRow, \A c \in Columns5 : a[c] = b[c]
  PROVE  a = b
  <1>1. a = [c \in Columns5 |-> a[c]] /\ b = [c \in Columns5 |-> b[c]]
    BY RowIsItsColumns
  <1> QED
    BY <1>1

\* What is flushed: the columns in which the object differs from what was loaded, on what was written.
Flushed(o, l, w) == Over([c \in {c \in Columns5 : o[c] # l[c]} |-> o[c]], w)

LEMMA FlushedIsPart ==
  ASSUME NEW o \in AlertRow, NEW l \in AlertRow, NEW w, IsPart(w)
  PROVE  /\ IsPart(Flushed(o, l, w))
         /\ Flushed(o, l, w) = <<>> => w = <<>> /\ o = l
         /\ \A r \in AlertRow : \A c \in Columns5 :
                Over(Flushed(o, l, w), r)[c] = IF o[c] # l[c] THEN o[c] ELSE Over(w, r)[c]
  <1>1. PICK S \in SUBSET Columns5, a \in AlertRow : w = [c \in S |-> a[c]]
    BY DEF IsPart
  <1> DEFINE D == {c \in Columns5 : o[c] # l[c]}
             T == D \cup S
             b == [c \in Columns5 |-> IF c \in D THEN o[c] ELSE a[c]]
             f == Flushed(o, l, w)
  <1>2. b \in AlertRow
    <2>1. D \in SUBSET Columns5
      OBVIOUS
    <2> HIDE DEF D
    <2> QED
      BY <2>1, ColumnsMakeRow
  <1>3. f = [c \in T |-> b[c]]
    <2> DEFINE e == [c \in D |-> o[c]]
    <2>1. f = [c \in DOMAIN e \cup DOMAIN w |-> IF c \in DOMAIN e THEN e[c] ELSE w[c]]
      BY DEF Flushed, Over
    <2>2. DOMAIN e = D /\ DOMAIN w = S /\ D \subseteq Columns5
      BY <1>1
    <2> HIDE DEF D, f
    <2> QED
      BY <1>1, <2>1, <2>2
  <1>4. T \in SUBSET Columns5 /\ DOMAIN f = T
    BY <1>3
  <1>5. IsPart(f)
    <2> HIDE DEF f, T, b
    <2> QED
      BY <1>2, <1>3, <1>4 DEF IsPart
  <1>6. f = <<>> => w = <<>> /\ o = l
    <2> SUFFICES ASSUME f = <<>> PROVE w = <<>> /\ o = l
      OBVIOUS
    <2>1. T = {}
      BY <1>4
    <2>2. w = <<>>
      BY <1>1, <2>1
    <2>3. \A c \in Columns5 : o[c] = l[c]
      BY <2>1
    <2> QED
      BY <2>2, <2>3, SameColumns
  <1>7. ASSUME NEW r \in AlertRow, NEW c \in Columns5
        PROVE  Over(f, r)[c] = IF o[c] # l[c] THEN o[c] ELSE Over(w, r)[c]
    <2>1. Over(f, r)[c] = IF c \in DOMAIN f THEN f[c] ELSE r[c]
      <3> HIDE DEF f
      <3> QED
        BY <1>5, PartOnRow
    <2>2. Over(w, r)[c] = IF c \in S THEN a[c] ELSE r[c]
      BY <1>1, PartOnRow
    <2>3. f[c] = b[c] \/ c \notin T
      BY <1>3
    <2> HIDE DEF f
    <2> QED
      BY <1>4, <2>1, <2>2, <2>3
  <1> QED
    BY <1>5, <1>6, <1>7

\* Nothing changes for a session but that another one may have been late.
LEMMA StillInOrder ==
  ASSUME NEW r, NEW total, NEW late, NEW later, late => later, later \in BOOLEAN,
         NEW o, NEW l, NEW w, NEW n, InTheirOrder(r, total, late, o, l, w, n)
  PROVE  InTheirOrder(r, total, later, o, l, w, n)
  BY DEF InTheirOrder

LEMMA RowStillInOrder ==
  ASSUME NEW r, NEW total, NEW late, NEW later, late => later, later \in BOOLEAN, RowInOrder(r, total, late)
  PROVE  RowInOrder(r, total, later)
  BY DEF RowInOrder

\* Another session has committed: this one has nothing written.
LEMMA OthersInOrder ==
  ASSUME NEW r, NEW total, NEW q, NEW grown, NEW late, NEW o, NEW l, NEW n,
         RowInOrder(r, total, late), RowInOrder(q, grown, late), total <= grown,
         InTheirOrder(r, total, late, o, l, <<>>, n)
  PROVE  InTheirOrder(q, grown, late, o, l, <<>>, n)
  <1>1. r \in AlertRow /\ q \in AlertRow /\ total \in Nat /\ grown \in Nat /\ q.count <= 1 + grown /\ n \in Nat
    BY DEF RowInOrder, InTheirOrder
  <1>2. Over(<<>>, r) = r /\ Over(<<>>, q) = q
    BY <1>1, NothingOnRow
  <1>3. r.count \in Nat /\ q.count \in Nat
    BY <1>1 DEF AlertRow
  <1>4. Over(<<>>, q).count <= 1 + grown + n
    BY <1>1, <1>2, <1>3
  <1>5. o # NoObject => o.count <= 1 + grown + n
    <2>1. o # NoObject => o.count \in Nat /\ o.count <= 1 + total + n
      BY DEF InTheirOrder, AlertRow
    <2> QED
      BY <1>1, <2>1
  <1> QED
    BY <1>4, <1>5 DEF InTheirOrder

\* A session loads the row, or has it refreshed with nothing written.
LEMMA FreshInOrder ==
  ASSUME NEW r, NEW total, NEW late, RowInOrder(r, total, late)
  PROVE  /\ InTheirOrder(r, total, late, r, r, <<>>, 0)
         /\ InTheirOrder(r, total, late, NoObject, NoObject, <<>>, 0)
  <1>1. r \in AlertRow /\ IsPart(<<>>) /\ Over(<<>>, r) = r /\ r # NoObject
    BY NothingOnRow, AlertRowAssumption DEF RowInOrder
  <1>2. r.count \in Nat /\ total \in Nat /\ r.count <= 1 + total
    BY <1>1 DEF AlertRow, RowInOrder
  <1> QED
    BY <1>1, <1>2 DEF InTheirOrder, RowInOrder

\* What is flushed to a row the session is up to date with is its object; late, it may be anything.
LEMMA FlushedInOrder ==
  ASSUME NEW r, NEW total, NEW late, RowInOrder(r, total, late),
         NEW o \in AlertRow, NEW l \in AlertRow, NEW w, NEW n, InTheirOrder(r, total, late, o, l, w, n),
         NEW f, f = Flushed(o, l, w), o # l, NEW later, later = (late \/ l # Over(w, r))
  PROVE  /\ InTheirOrder(r, total, later, o, o, f, n)
         /\ InTheirOrder(r, total, later, Over(f, r), Over(f, r), f, n)
         /\ f # <<>>
  <1>1. /\ r \in AlertRow /\ total \in Nat /\ n \in Nat /\ IsPart(w) /\ late \in BOOLEAN
        /\ o # NoObject /\ o.count \in Nat /\ o.count <= 1 + total + n
        /\ Over(w, r).count <= 1 + total + n
    BY AlertRowAssumption DEF RowInOrder, InTheirOrder, AlertRow
  <1>2. /\ IsPart(f) /\ f # <<>>
        /\ \A c \in Columns5 : Over(f, r)[c] = IF o[c] # l[c] THEN o[c] ELSE Over(w, r)[c]
    BY <1>1, FlushedIsPart
  <1>3. PICK v : v = Over(f, r)
    OBVIOUS
  <1>4. v \in AlertRow /\ v # NoObject /\ Over(w, r) \in AlertRow
    BY <1>1, <1>2, <1>3, PartOnRow, AlertRowAssumption
  <1>5. v.count = (IF o.count # l.count THEN o.count ELSE Over(w, r).count) /\ v.count \in Nat
    BY <1>2, <1>3, <1>4 DEF Columns5, AlertRow
  <1>6. v.count <= 1 + total + n
    BY <1>1, <1>5
  <1>7. ~later => v = o /\ ~late /\ l = Over(w, r)
    <2> SUFFICES ASSUME ~later PROVE v = o /\ ~late /\ l = Over(w, r)
      OBVIOUS
    <2>1. ~late /\ l = Over(w, r)
      BY <1>1
    <2>2. \A c \in Columns5 : v[c] = o[c]
      BY <1>2, <1>3, <2>1
    <2> QED
      BY <1>4, <2>1, <2>2, SameColumns
  <1>8. ~later => Agrees(o) /\ o.count = 1 + total + n
    <2> SUFFICES ASSUME ~later PROVE Agrees(o) /\ o.count = 1 + total + n
      OBVIOUS
    <2>1. Agrees(o) /\ (w = <<>> => o.count = l.count + n) /\ (w # <<>> => o.count = 1 + total + n)
      BY <1>1, <1>7 DEF InTheirOrder
    <2>2. w = <<>> => l = r /\ r.count = 1 + total
      BY <1>1, <1>7, NothingOnRow DEF RowInOrder
    <2> QED
      BY <1>1, <2>1, <2>2
  <1>9. later \in BOOLEAN
    BY <1>1
  <1> HIDE DEF Flushed
  <1>10. InTheirOrder(r, total, later, o, o, f, n)
    BY <1>1, <1>2, <1>3, <1>6, <1>7, <1>8 DEF InTheirOrder
  <1>11. InTheirOrder(r, total, later, v, v, f, n)
    BY <1>1, <1>2, <1>3, <1>4, <1>6, <1>7, <1>8 DEF InTheirOrder
  <1> QED
    BY <1>2, <1>3, <1>10, <1>11

\* An object that has not changed is refreshed.
LEMMA RefreshedInOrder ==
  ASSUME NEW r, NEW total, NEW late, RowInOrder(r, total, late),
         NEW o \in AlertRow, NEW w, NEW n, InTheirOrder(r, total, late, o, o, w, n)
  PROVE  InTheirOrder(r, total, late, Over(w, r), Over(w, r), w, n)
  <1>1. PICK v : v = Over(w, r)
    OBVIOUS
  <1>2. /\ r \in AlertRow /\ total \in Nat /\ n \in Nat /\ IsPart(w) /\ v.count <= 1 + total + n /\ o # NoObject
        /\ o.count \in Nat
    BY <1>1, AlertRowAssumption DEF RowInOrder, InTheirOrder, AlertRow
  <1>3. v \in AlertRow /\ v # NoObject /\ v.count \in Nat
    BY <1>1, <1>2, PartOnRow, AlertRowAssumption DEF AlertRow
  <1>4. w = <<>> => v = r
    BY <1>1, <1>2, NothingOnRow
  <1>5. ~late /\ w = <<>> => Agrees(v) /\ n = 0
    <2>1. ~late /\ w = <<>> => o.count = o.count + n /\ Agrees(r)
      BY <1>2 DEF InTheirOrder, RowInOrder
    <2> QED
      BY <1>2, <1>4, <2>1
  <1>6. ~late /\ w # <<>> => Agrees(v) /\ v.count = 1 + total + n
    BY <1>1, <1>2 DEF InTheirOrder
  <1>7. InTheirOrder(r, total, late, v, v, w, n)
    BY <1>1, <1>2, <1>3, <1>5, <1>6 DEF InTheirOrder
  <1> QED
    BY <1>1, <1>7

\* A session commits what it has written.
LEMMA CommittedInOrder ==
  ASSUME NEW r, NEW total, NEW late, RowInOrder(r, total, late),
         NEW o \in AlertRow, NEW w, w # <<>>, NEW n, InTheirOrder(r, total, late, o, o, w, n)
  PROVE  /\ RowInOrder(Over(w, r), total + n, late)
         /\ InTheirOrder(Over(w, r), total + n, late, o, o, <<>>, 0)
         /\ total <= total + n
  <1>1. PICK v : v = Over(w, r)
    OBVIOUS
  <1>2. /\ r \in AlertRow /\ total \in Nat /\ n \in Nat /\ IsPart(w) /\ v.count <= 1 + total + n /\ o # NoObject
        /\ o.count \in Nat /\ o.count <= 1 + total + n /\ late \in BOOLEAN
    BY <1>1, AlertRowAssumption DEF RowInOrder, InTheirOrder, AlertRow
  <1>3. v \in AlertRow /\ v.count \in Nat
    BY <1>1, <1>2, PartOnRow DEF AlertRow
  <1>4. ~late => Agrees(o) /\ o = v /\ o.count = 1 + total + n
    BY <1>1, <1>2 DEF InTheirOrder
  <1>5. IsPart(<<>>) /\ Over(<<>>, v) = v
    BY <1>3, NothingOnRow
  <1>6. PICK grown : grown = total + n
    OBVIOUS
  <1>7. RowInOrder(v, grown, late)
    BY <1>2, <1>3, <1>4, <1>6 DEF RowInOrder
  <1>8. InTheirOrder(v, grown, late, o, o, <<>>, 0)
    BY <1>2, <1>3, <1>4, <1>5, <1>6 DEF InTheirOrder
  <1> QED
    BY <1>1, <1>2, <1>6, <1>7, <1>8

\* A method takes a row to one that agrees with its times, too, with the same count.
LEMMA MethodAgrees ==
  ASSUME NEW o \in AlertRow, NEW m \in Methods(o)
  PROVE  m \in AlertRow /\ m.count = o.count /\ (Agrees(o) => Agrees(m))
  <1>1. CASE m = Acknowledged(o)
    <2>1. m \in AlertRow /\ m.count = o.count
      BY <1>1 DEF AlertRow, Ended, Unended, Acknowledged
    <2>2. Agrees(o) => Agrees(m)
      BY <1>1 DEF AlertRow, Agrees, Ended, Unended, Acknowledged
    <2> QED
      BY <2>1, <2>2
  <1>2. CASE m = Started(o)
    <2>1. m \in AlertRow /\ m.count = o.count
      BY <1>2 DEF AlertRow, Ended, Unended, Started
    <2>2. Agrees(o) => Agrees(m)
      BY <1>2 DEF AlertRow, Agrees, Ended, Unended, Started
    <2> QED
      BY <2>1, <2>2
  <1>3. CASE m = Resolved(o)
    <2>1. m \in AlertRow /\ m.count = o.count
      BY <1>3 DEF AlertRow, Ended, Unended, Resolved
    <2>2. Agrees(o) => Agrees(m)
      BY <1>3 DEF AlertRow, Agrees, Ended, Unended, Resolved
    <2> QED
      BY <2>1, <2>2
  <1>4. CASE m = Closed(o)
    <2>1. m \in AlertRow /\ m.count = o.count
      BY <1>4 DEF AlertRow, Ended, Unended, Closed
    <2>2. Agrees(o) => Agrees(m)
      BY <1>4 DEF AlertRow, Agrees, Ended, Unended, Closed
    <2> QED
      BY <2>1, <2>2
  <1>5. CASE m = Suppressed(o)
    <2>1. m \in AlertRow /\ m.count = o.count
      BY <1>5 DEF AlertRow, Ended, Unended, Suppressed
    <2>2. Agrees(o) => Agrees(m)
      BY <1>5 DEF AlertRow, Agrees, Ended, Unended, Suppressed
    <2> QED
      BY <2>1, <2>2
  <1>6. CASE m = Deleted(o)
    <2>1. m \in AlertRow /\ m.count = o.count
      BY <1>6 DEF AlertRow, Ended, Unended, Deleted
    <2>2. Agrees(o) => Agrees(m)
      BY <1>6 DEF AlertRow, Agrees, Ended, Unended, Deleted
    <2> QED
      BY <2>1, <2>2
  <1>7. CASE m = Restored(o)
    <2>1. m \in AlertRow /\ m.count = o.count
      BY <1>7 DEF AlertRow, Ended, Unended, Restored
    <2>2. Agrees(o) => Agrees(m)
      BY <1>7 DEF AlertRow, Agrees, Ended, Unended, Restored
    <2> QED
      BY <2>1, <2>2
  <1> QED
    BY <1>1, <1>2, <1>3, <1>4, <1>5, <1>6, <1>7 DEF Methods

LEMMA OccurrenceAgrees ==
  ASSUME NEW o \in AlertRow, NEW m, m = Reopened(Recurred(o))
  PROVE  m \in AlertRow /\ m.count = o.count + 1 /\ (Agrees(o) => Agrees(m))
  <1>1. PICK c : c = Recurred(o)
    OBVIOUS
  <1>2. c \in AlertRow /\ c.count = o.count + 1 /\ (Agrees(o) => Agrees(c))
    <2>1. c \in AlertRow /\ c.count = o.count + 1
      BY <1>1 DEF AlertRow, Recurred
    <2>2. c.status = o.status /\ c.resolved = o.resolved /\ c.acked = o.acked
      BY <1>1 DEF AlertRow, Recurred
    <2> QED
      BY <2>1, <2>2 DEF Agrees
  <1>3. m = Reopened(c)
    BY <1>1
  <1>4. m \in AlertRow /\ m.count = c.count
    BY <1>2, <1>3, ZenonT(40) DEF Reopened, AlertRow, Ended, Unended
  <1>5. Agrees(c) => Agrees(m)
    BY <1>2, <1>3 DEF Reopened, AlertRow, Agrees, Ended, Unended
  <1> QED
    BY <1>2, <1>4, <1>5

LEMMA MethodInOrder ==
  ASSUME NEW r, NEW total, NEW late, RowInOrder(r, total, late),
         NEW o \in AlertRow, NEW l, NEW w, NEW n, InTheirOrder(r, total, late, o, l, w, n),
         NEW k \in {0, 1}, NEW m \in AlertRow, m.count = o.count + k, Agrees(o) => Agrees(m)
  PROVE  InTheirOrder(r, total, late, m, l, w, n + k)
  <1>1. /\ r \in AlertRow /\ total \in Nat /\ n \in Nat /\ IsPart(w) /\ o # NoObject /\ l # NoObject
        /\ o.count \in Nat /\ o.count <= 1 + total + n /\ m # NoObject
        /\ l \in AlertRow /\ l.count \in Nat /\ m.count \in Nat
    BY AlertRowAssumption DEF RowInOrder, InTheirOrder, AlertRow
  <1>2. Over(w, r).count <= 1 + total + n /\ Over(w, r).count \in Nat
    BY <1>1, PartOnRow DEF InTheirOrder, AlertRow
  <1>3. n + k \in Nat /\ Over(w, r).count <= 1 + total + (n + k) /\ m.count <= 1 + total + (n + k)
    BY <1>1, <1>2
  <1>4. ~late => Agrees(m)
                 /\ (w = <<>> => m.count = l.count + (n + k))
                 /\ (w # <<>> => l = Over(w, r) /\ m.count = 1 + total + (n + k))
    <2> SUFFICES ASSUME ~late PROVE Agrees(m)
                 /\ (w = <<>> => m.count = l.count + (n + k))
                 /\ (w # <<>> => l = Over(w, r) /\ m.count = 1 + total + (n + k))
      OBVIOUS
    <2>1. Agrees(o) /\ (w = <<>> => o.count = l.count + n) /\ (w # <<>> => l = Over(w, r) /\ o.count = 1 + total + n)
      BY <1>1 DEF InTheirOrder
    <2> QED
      BY <1>1, <2>1
  <1> QED
    BY <1>1, <1>3, <1>4 DEF InTheirOrder

LEMMA AlertInitially == AlertRowsInit => AlertFollows
  <1> SUFFICES ASSUME AlertRowsInit PROVE AlertFollows
    OBVIOUS
  <1>1. row = NewAlert /\ recorded = 0 /\ raced = FALSE
    BY DEF AlertRowsInit
  <1>2. row \in AlertRow /\ row.count = 1 /\ Agrees(row)
    BY <1>1 DEF NewAlert, AlertRow, Agrees, Ended, Unended
  <1>3. RowInOrder(row, recorded, raced)
    <2>1. raced \in BOOLEAN
      BY <1>1
    <2> QED
      BY <1>1, <1>2, <2>1 DEF RowInOrder
  <1>4. \A s \in AlertSessions :
            object[s] = NoObject /\ loaded[s] = NoObject /\ written[s] = <<>> /\ occurred[s] = 0
    BY DEF AlertRowsInit
  <1>5. InTheirOrder(row, recorded, raced, NoObject, NoObject, <<>>, 0)
    BY <1>3, FreshInOrder
  <1>6. /\ object = [s \in AlertSessions |-> object[s]] /\ loaded = [s \in AlertSessions |-> loaded[s]]
        /\ written = [s \in AlertSessions |-> written[s]] /\ occurred = [s \in AlertSessions |-> occurred[s]]
    BY DEF AlertRowsInit
  <1> QED
    BY <1>3, <1>4, <1>5, <1>6 DEF AlertFollows

\* A step of session s leaves all in order if it does its own, and with it the others.
LEMMA SessionSteps ==
  ASSUME AlertFollows, NEW s \in AlertSessions,
         NEW o, NEW l, NEW w, NEW n,
         object' = [object EXCEPT ![s] = o], loaded' = [loaded EXCEPT ![s] = l],
         written' = [written EXCEPT ![s] = w], occurred' = [occurred EXCEPT ![s] = n],
         RowInOrder(row', recorded', raced'), InTheirOrder(row', recorded', raced', o, l, w, n),
         w = <<>> \/ written[s] # <<>> \/ MayWrite(s),
         \A t \in AlertSessions \ {s} : InTheirOrder(row', recorded', raced', object[t], loaded[t], written[t], occurred[t])
  PROVE  AlertFollows'
  <1>1. /\ object = [t \in AlertSessions |-> object[t]] /\ loaded = [t \in AlertSessions |-> loaded[t]]
        /\ written = [t \in AlertSessions |-> written[t]] /\ occurred = [t \in AlertSessions |-> occurred[t]]
    BY DEF AlertFollows
  <1>2. /\ object' = [t \in AlertSessions |-> IF t = s THEN o ELSE object[t]]
        /\ loaded' = [t \in AlertSessions |-> IF t = s THEN l ELSE loaded[t]]
        /\ written' = [t \in AlertSessions |-> IF t = s THEN w ELSE written[t]]
        /\ occurred' = [t \in AlertSessions |-> IF t = s THEN n ELSE occurred[t]]
    BY <1>1
  <1>3. /\ object' = [t \in AlertSessions |-> object'[t]] /\ loaded' = [t \in AlertSessions |-> loaded'[t]]
        /\ written' = [t \in AlertSessions |-> written'[t]] /\ occurred' = [t \in AlertSessions |-> occurred'[t]]
    BY <1>2
  <1>4. \A t \in AlertSessions : InTheirOrder(row', recorded', raced', object'[t], loaded'[t], written'[t], occurred'[t])
    BY <1>2
  <1>5. \A t, u \in AlertSessions : t # u => written'[t] = <<>> \/ written'[u] = <<>>
    <2>1. \A t, u \in AlertSessions : t # u => written[t] = <<>> \/ written[u] = <<>>
      BY DEF AlertFollows
    <2>2. w # <<>> => \A t \in AlertSessions \ {s} : written[t] = <<>>
      BY <2>1 DEF MayWrite
    <2> QED
      BY <1>2, <2>1, <2>2
  <1> QED
    BY <1>3, <1>4, <1>5 DEF AlertFollows

LEMMA Unchanged4 ==
  ASSUME NEW f, NEW S, f = [t \in S |-> f[t]], NEW s \in S
  PROVE  f = [f EXCEPT ![s] = f[s]]
  OBVIOUS

LEMMA AlertStepKeeps == AlertFollows /\ [AlertRowsNext]_alertRowVars => AlertFollows'
  <1> SUFFICES ASSUME AlertFollows, [AlertRowsNext]_alertRowVars PROVE AlertFollows'
    OBVIOUS
  <1>1. CASE UNCHANGED alertRowVars
    BY <1>1 DEF alertRowVars, AlertFollows
  <1>2. CASE AlertRowsNext
    <2>1. PICK s \in AlertSessions :
              \/ \E all \in BOOLEAN : LoadAlert(s, all)
              \/ FlushAlert(s) \/ UpdateAlert(s) \/ CommitAlert(s) \/ RollbackAlert(s) \/ CallMethod(s)
              \/ RecordOccurrence(s)
      BY <1>2 DEF AlertRowsNext
    <2>2. /\ RowInOrder(row, recorded, raced) /\ row \in AlertRow /\ recorded \in Nat /\ raced \in BOOLEAN
          /\ \A t \in AlertSessions : InTheirOrder(row, recorded, raced, object[t], loaded[t], written[t], occurred[t])
          /\ \A t \in AlertSessions : occurred[t] \in Nat
      BY DEF AlertFollows, RowInOrder, InTheirOrder
    <2>3. /\ object[s] # NoObject => object[s] \in AlertRow /\ loaded[s] \in AlertRow /\ IsPart(written[s])
          /\ object[s] = NoObject => written[s] = <<>> /\ occurred[s] = 0 /\ loaded[s] = NoObject
      BY <2>2 DEF InTheirOrder
    <2>4. /\ object = [object EXCEPT ![s] = object[s]] /\ loaded = [loaded EXCEPT ![s] = loaded[s]]
          /\ written = [written EXCEPT ![s] = written[s]] /\ occurred = [occurred EXCEPT ![s] = occurred[s]]
      BY Unchanged4 DEF AlertFollows
    <2>5. object[s] # NoObject => Changed(s) = {c \in Columns5 : object[s][c] # loaded[s][c]}
      BY <2>2, RowIsItsColumns DEF Changed
    <2>6. View(s) = Over(written[s], row)
      BY DEF View
    <2>7. object[s] # NoObject /\ Changed(s) = {} => object[s] = loaded[s]
      <3>1. object[s] # NoObject /\ Changed(s) = {} => \A c \in Columns5 : object[s][c] = loaded[s][c]
        BY <2>5
      <3> QED
        BY <2>3, <3>1, SameColumns
    <2>8. object[s] # NoObject /\ Changed(s) # {} => object[s] # loaded[s]
      BY <2>5
    <2>a. Changed(s) # {} => object[s] # NoObject
      BY DEF Changed
    <2>b. object[s] # NoObject =>
              Over([c \in Changed(s) |-> object[s][c]], written[s]) = Flushed(object[s], loaded[s], written[s])
      BY <2>5 DEF Flushed
    <2>9. CASE \E all \in BOOLEAN : LoadAlert(s, all)
      <3>1. /\ object[s] = NoObject /\ object' = [object EXCEPT ![s] = row] /\ loaded' = [loaded EXCEPT ![s] = row]
            /\ UNCHANGED <<row, written, occurred, recorded, methods, raced>>
        BY <2>2, <2>3, <2>6, <2>9, NothingOnRow DEF LoadAlert
      <3>2. InTheirOrder(row, recorded, raced, row, row, <<>>, 0)
        BY <2>2, FreshInOrder
      <3>3. written' = [written EXCEPT ![s] = <<>>] /\ occurred' = [occurred EXCEPT ![s] = 0]
        BY <2>3, <2>4, <3>1
      <3> QED
        BY <2>2, <3>1, <3>2, <3>3, SessionSteps
    <2>10. CASE FlushAlert(s)
      <3>1. PICK o, l, w, f : o = object[s] /\ l = loaded[s] /\ w = written[s] /\ f = Flushed(o, l, w)
        OBVIOUS
      <3>2. /\ o \in AlertRow /\ l \in AlertRow /\ o # l /\ MayWrite(s)
            /\ InTheirOrder(row, recorded, raced, o, l, w, occurred[s])
        BY <2>2, <2>3, <2>8, <2>a, <2>10, <3>1 DEF FlushAlert
      <3>3. /\ written' = [written EXCEPT ![s] = f] /\ loaded' = [loaded EXCEPT ![s] = o]
            /\ raced' = (raced \/ l # Over(w, row))
            /\ UNCHANGED <<row, object, occurred, recorded, methods>>
        BY <2>a, <2>b, <2>6, <2>10, <3>1 DEF FlushAlert, OutOfDate
      <3>4. InTheirOrder(row, recorded, raced', o, o, f, occurred[s])
        BY <2>2, <3>1, <3>2, <3>3, FlushedInOrder
      <3>5. raced' \in BOOLEAN /\ (raced => raced')
        BY <2>2, <3>3
      <3>6. /\ RowInOrder(row', recorded', raced')
            /\ \A t \in AlertSessions \ {s} :
                   InTheirOrder(row', recorded', raced', object[t], loaded[t], written[t], occurred[t])
        BY <2>2, <3>3, <3>5, StillInOrder, RowStillInOrder
      <3>7. object' = [object EXCEPT ![s] = o] /\ occurred' = [occurred EXCEPT ![s] = occurred[s]]
        BY <2>4, <3>1, <3>3
      <3>8. InTheirOrder(row', recorded', raced', o, o, f, occurred[s])
        BY <3>3, <3>4
      <3> QED
        BY <3>2, <3>3, <3>6, <3>7, <3>8, SessionSteps
    <2>11. CASE UpdateAlert(s)
      <3>1. PICK o, l, w, n : o = object[s] /\ l = loaded[s] /\ w = written[s] /\ n = occurred[s]
        OBVIOUS
      <3>2. PICK f : f = Flushed(o, l, w)
        OBVIOUS
      <3>3. /\ o # NoObject /\ o \in AlertRow /\ l \in AlertRow /\ MayWrite(s) /\ IsPart(w)
            /\ InTheirOrder(row, recorded, raced, o, l, w, n)
        BY <2>2, <2>3, <2>11, <3>1 DEF UpdateAlert
      <3>4. /\ written' = [written EXCEPT ![s] = f] /\ object' = [object EXCEPT ![s] = Over(f, row)]
            /\ loaded' = [loaded EXCEPT ![s] = Over(f, row)]
            /\ raced' = (raced \/ (o # l /\ l # Over(w, row)))
            /\ UNCHANGED <<row, occurred, recorded, methods>>
        <4>1. Over([c \in Changed(s) |-> object[s][c]], written[s]) = f
          BY <2>b, <3>1, <3>2, <3>3
        <4>2. Changed(s) # {} <=> o # l
          BY <2>7, <2>8, <3>1, <3>3
        <4> QED
          BY <2>6, <2>11, <3>1, <4>1, <4>2 DEF UpdateAlert, OutOfDate
      <3>5. InTheirOrder(row, recorded, raced', Over(f, row), Over(f, row), f, n)
        <4>1. CASE o # l
          <5>1. raced' = (raced \/ l # Over(w, row))
            BY <3>4, <4>1
          <5> QED
            BY <2>2, <3>2, <3>3, <4>1, <5>1, FlushedInOrder
        <4>2. CASE o = l
          <5>1. f = w
            <6>1. {c \in Columns5 : o[c] # l[c]} = {}
              BY <4>2
            <6>2. f = [c \in {} \cup DOMAIN w |-> IF c \in {} THEN o[c] ELSE w[c]]
              BY <3>2, <6>1 DEF Flushed, Over
            <6>3. w = [c \in DOMAIN w |-> w[c]]
              BY <3>3 DEF IsPart
            <6> QED
              BY <6>2, <6>3
          <5>2. InTheirOrder(row, recorded, raced, Over(w, row), Over(w, row), w, n)
            BY <2>2, <3>3, <4>2, RefreshedInOrder
          <5>3. raced' = raced
            BY <2>2, <3>4, <4>2
          <5> QED
            BY <5>1, <5>2, <5>3
        <4> QED
          BY <4>1, <4>2
      <3>6. raced' \in BOOLEAN /\ (raced => raced')
        BY <2>2, <3>4
      <3>7. /\ RowInOrder(row', recorded', raced')
            /\ \A t \in AlertSessions \ {s} :
                   InTheirOrder(row', recorded', raced', object[t], loaded[t], written[t], occurred[t])
        BY <2>2, <3>4, <3>6, StillInOrder, RowStillInOrder
      <3>8. occurred' = [occurred EXCEPT ![s] = n]
        BY <2>4, <3>1, <3>4
      <3>9. InTheirOrder(row', recorded', raced', Over(f, row), Over(f, row), f, n)
        BY <3>4, <3>5
      <3> QED
        BY <3>3, <3>4, <3>7, <3>8, <3>9, SessionSteps
    <2>12. CASE CommitAlert(s)
      <3>1. PICK o, w, n : o = object[s] /\ w = written[s] /\ n = occurred[s]
        OBVIOUS
      <3>2. /\ w # <<>> /\ o \in AlertRow /\ loaded[s] = o /\ InTheirOrder(row, recorded, raced, o, o, w, n)
        BY <2>2, <2>3, <2>7, <2>12, <3>1 DEF CommitAlert
      <3>3. /\ row' = Over(w, row) /\ written' = [written EXCEPT ![s] = <<>>] /\ recorded' = recorded + n
            /\ occurred' = [occurred EXCEPT ![s] = 0] /\ UNCHANGED <<object, loaded, methods, raced>>
        BY <2>6, <2>12, <3>1 DEF CommitAlert
      <3>4. /\ RowInOrder(row', recorded', raced) /\ InTheirOrder(row', recorded', raced, o, o, <<>>, 0)
            /\ recorded <= recorded'
        BY <2>2, <3>2, <3>3, CommittedInOrder
      <3>5. \A t \in AlertSessions \ {s} : InTheirOrder(row', recorded', raced, object[t], loaded[t], written[t], occurred[t])
        <4> SUFFICES ASSUME NEW t \in AlertSessions \ {s}
                     PROVE  InTheirOrder(row', recorded', raced, object[t], loaded[t], written[t], occurred[t])
          OBVIOUS
        <4>1. written[t] = <<>>
          BY <3>1, <3>2 DEF AlertFollows
        <4>2. InTheirOrder(row, recorded, raced, object[t], loaded[t], <<>>, occurred[t])
          BY <2>2, <4>1
        <4>3. InTheirOrder(row', recorded', raced, object[t], loaded[t], <<>>, occurred[t])
          BY <2>2, <3>4, <4>2, OthersInOrder
        <4> QED
          BY <4>1, <4>3
      <3>6. object' = [object EXCEPT ![s] = o] /\ loaded' = [loaded EXCEPT ![s] = o] /\ raced' = raced
        BY <2>4, <3>1, <3>2, <3>3
      <3>7. /\ RowInOrder(row', recorded', raced') /\ InTheirOrder(row', recorded', raced', o, o, <<>>, 0)
            /\ \A t \in AlertSessions \ {s} :
                   InTheirOrder(row', recorded', raced', object[t], loaded[t], written[t], occurred[t])
        BY <3>4, <3>5, <3>6
      <3> QED
        BY <3>3, <3>6, <3>7, SessionSteps
    <2>13. CASE RollbackAlert(s)
      <3>1. /\ object' = [object EXCEPT ![s] = NoObject] /\ loaded' = [loaded EXCEPT ![s] = NoObject]
            /\ written' = [written EXCEPT ![s] = <<>>] /\ occurred' = [occurred EXCEPT ![s] = 0]
            /\ UNCHANGED <<row, recorded, methods, raced>>
        BY <2>13 DEF RollbackAlert
      <3>2. InTheirOrder(row, recorded, raced, NoObject, NoObject, <<>>, 0)
        BY <2>2, FreshInOrder
      <3> QED
        BY <2>2, <3>1, <3>2, SessionSteps
    <2>14. CASE CallMethod(s)
      <3>1. PICK m \in Methods(object[s]) : object' = [object EXCEPT ![s] = m]
        BY <2>14 DEF CallMethod
      <3>2. /\ object[s] \in AlertRow /\ loaded' = loaded /\ written' = written /\ occurred' = occurred
            /\ UNCHANGED <<row, recorded, raced>>
        BY <2>3, <2>14 DEF CallMethod
      <3>3. m \in AlertRow /\ m.count = object[s].count /\ (Agrees(object[s]) => Agrees(m))
        BY <3>2, MethodAgrees
      <3>4. m.count = object[s].count + 0 /\ occurred[s] + 0 = occurred[s]
        BY <2>2, <3>2, <3>3 DEF AlertRow
      <3>5. InTheirOrder(row, recorded, raced, m, loaded[s], written[s], occurred[s] + 0)
        BY <2>2, <3>2, <3>3, <3>4, MethodInOrder
      <3>6. /\ RowInOrder(row', recorded', raced')
            /\ InTheirOrder(row', recorded', raced', m, loaded[s], written[s], occurred[s])
            /\ \A t \in AlertSessions \ {s} :
                   InTheirOrder(row', recorded', raced', object[t], loaded[t], written[t], occurred[t])
        <4>1. InTheirOrder(row, recorded, raced, m, loaded[s], written[s], occurred[s])
          BY <3>4, <3>5
        <4> QED
          BY <2>2, <3>2, <4>1
      <3>7. /\ loaded' = [loaded EXCEPT ![s] = loaded[s]] /\ written' = [written EXCEPT ![s] = written[s]]
            /\ occurred' = [occurred EXCEPT ![s] = occurred[s]]
        BY <2>4, <3>2
      <3> QED
        BY <3>1, <3>6, <3>7, SessionSteps
    <2>15. CASE RecordOccurrence(s)
      <3>1. PICK m : m = Reopened(Recurred(object[s]))
        OBVIOUS
      <3>2. /\ object[s] \in AlertRow /\ object' = [object EXCEPT ![s] = m] /\ loaded' = loaded /\ written' = written
            /\ occurred' = [occurred EXCEPT ![s] = occurred[s] + 1] /\ UNCHANGED <<row, recorded, raced>>
        <4>1. object' = [object EXCEPT ![s] = m]
          BY <2>15, <3>1 DEF RecordOccurrence
        <4> QED
          BY <2>3, <2>15, <4>1 DEF RecordOccurrence
      <3>3. m \in AlertRow /\ m.count = object[s].count + 1 /\ (Agrees(object[s]) => Agrees(m))
        BY <3>1, <3>2, OccurrenceAgrees
      <3>4. InTheirOrder(row, recorded, raced, m, loaded[s], written[s], occurred[s] + 1)
        BY <2>2, <3>2, <3>3, MethodInOrder
      <3>5. /\ RowInOrder(row', recorded', raced')
            /\ InTheirOrder(row', recorded', raced', m, loaded[s], written[s], occurred[s] + 1)
            /\ \A t \in AlertSessions \ {s} :
                   InTheirOrder(row', recorded', raced', object[t], loaded[t], written[t], occurred[t])
        BY <2>2, <3>2, <3>4
      <3>6. loaded' = [loaded EXCEPT ![s] = loaded[s]] /\ written' = [written EXCEPT ![s] = written[s]]
        BY <2>4, <3>2
      <3>7. object' = [object EXCEPT ![s] = m] /\ occurred' = [occurred EXCEPT ![s] = occurred[s] + 1]
        BY <3>2
      <3> QED
        BY <3>5, <3>6, <3>7, SessionSteps
    <2> QED
      BY <2>1, <2>9, <2>10, <2>11, <2>12, <2>13, <2>14, <2>15
  <1> QED
    BY <1>1, <1>2

LEMMA AlertChecked == AlertFollows => AlertRowInv
  BY DEF AlertFollows, RowInOrder, Agrees, AlertRowInv, OccurrencesCounted, StatusAgreesWithTimes


-----------------------------------------------------------------------------
(* Groups *)

MembersIn(at, g) == {d \in GroupedDevices : at[d] = g}
Moved(at, d, g) == [at EXCEPT ![d] = g]
More(S, d) == S \cup {d}
Fewer(S, d) == S \ {d}
Counting == [devices : Nat, active : Nat]

Covers(at, n, again) ==
    \A g \in Groups :
        /\ n[g].devices >= Cardinality(MembersIn(at, g))
        /\ again \/ n[g].devices = Cardinality(MembersIn(at, g))

Follows(at, n, on) == \A g \in Groups : n[g].active = Cardinality(MembersIn(at, g) \cap on)

Grouping(at, n) ==
    /\ at \in [GroupedDevices -> Groups \cup {NoGroup}]
    /\ n \in [Groups -> Counting]

GroupsFollow ==
    /\ online \in SUBSET GroupedDevices /\ seenOnline \in SUBSET GroupedDevices
    /\ strayed \in BOOLEAN /\ readded \in BOOLEAN /\ committed.readded \in BOOLEAN
    /\ committed = [group |-> committed.group, counts |-> committed.counts, readded |-> committed.readded]
    /\ Grouping(group, counts) /\ Grouping(committed.group, committed.counts)
    /\ Covers(group, counts, readded) /\ Covers(committed.group, committed.counts, committed.readded)
    /\ ~strayed /\ ~readded => Follows(group, counts, online)
    /\ ~strayed /\ ~committed.readded => Follows(committed.group, committed.counts, online)

LEMMA SubsetsAreFinite ==
  ASSUME NEW S \in SUBSET GroupedDevices
  PROVE  IsFiniteSet(S) /\ Cardinality(S) \in Nat
  <1>1. IsFiniteSet(GroupedDevices)
    BY GroupAssumption
  <1>2. IsFiniteSet(S)
    BY <1>1, FS_Subset
  <1> QED
    BY <1>2, FS_CardinalityType

\* One device more, or less, in a set of devices.
LEMMA OneDevice ==
  ASSUME NEW S \in SUBSET GroupedDevices, NEW d \in GroupedDevices
  PROVE  /\ d \notin S => Cardinality(More(S, d)) = Cardinality(S) + 1
         /\ d \in S => Cardinality(More(S, d)) = Cardinality(S)
         /\ d \in S => Cardinality(Fewer(S, d)) = Cardinality(S) - 1 /\ Cardinality(S) > 0
         /\ d \notin S => Cardinality(Fewer(S, d)) = Cardinality(S)
  <1>1. IsFiniteSet(S) /\ Cardinality(S) \in Nat
    BY SubsetsAreFinite
  <1>2. d \notin S => Cardinality(S \cup {d}) = Cardinality(S) + 1
    BY <1>1, FS_AddElement
  <1>3. d \in S => S \cup {d} = S
    OBVIOUS
  <1>4. d \notin S => S \ {d} = S
    OBVIOUS
  <1>5. d \in S => Cardinality(S \ {d}) = Cardinality(S) - 1
    BY <1>1, FS_RemoveElement
  <1>6. d \in S => Cardinality(S) > 0
    <2>1. S \ {d} \in SUBSET GroupedDevices
      OBVIOUS
    <2>2. Cardinality(S \ {d}) \in Nat
      BY <2>1, SubsetsAreFinite
    <2> QED
      BY <1>1, <1>5, <2>2
  <1> QED
    BY <1>2, <1>3, <1>4, <1>5, <1>6, Zenon DEF More, Fewer

\* A device that gets a group is of it and of no other.
LEMMA MembersChange ==
  ASSUME NEW at, NEW n, Grouping(at, n), NEW d \in GroupedDevices,
         NEW g \in Groups \cup {NoGroup}, NEW other, other = Moved(at, d, g), NEW h \in Groups
  PROVE  /\ MembersIn(at, h) \in SUBSET GroupedDevices
         /\ d \in MembersIn(at, h) <=> at[d] = h
         /\ MembersIn(other, h) = IF h = g THEN More(MembersIn(at, h), d) ELSE Fewer(MembersIn(at, h), d)
  BY DEF MembersIn, More, Fewer, Moved, Grouping

LEMMA AddCovers ==
  ASSUME NEW at, NEW n, NEW again \in BOOLEAN, Grouping(at, n), Covers(at, n, again),
         NEW g \in Groups, NEW d \in GroupedDevices, NEW other, other = Moved(at, d, g),
         NEW m, \A h \in Groups : m[h].devices = n[h].devices + IF h = g THEN 1 ELSE 0
  PROVE  Covers(other, m, again \/ at[d] # NoGroup)
  <1> SUFFICES ASSUME NEW h \in Groups
               PROVE  /\ m[h].devices >= Cardinality(MembersIn(other, h))
                      /\ ~again /\ at[d] = NoGroup => m[h].devices = Cardinality(MembersIn(other, h))
    BY DEF Covers
  <1>1. PICK S, T : S = MembersIn(at, h) /\ T = MembersIn(other, h)
    OBVIOUS
  <1>2. /\ S \in SUBSET GroupedDevices /\ (d \in S <=> at[d] = h)
        /\ T = IF h = g THEN More(S, d) ELSE Fewer(S, d)
    BY <1>1, MembersChange
  <1>3. /\ n[h].devices \in Nat /\ n[h].devices >= Cardinality(S) /\ Cardinality(S) \in Nat
        /\ ~again => n[h].devices = Cardinality(S)
    BY <1>1, <1>2, SubsetsAreFinite DEF Covers, Grouping, Counting
  <1>4. at[d] = NoGroup => d \notin S
    BY <1>2, GroupAssumption
  <1>5. Cardinality(T) \in {Cardinality(S), Cardinality(S) + 1, Cardinality(S) - 1}
        /\ (h # g => Cardinality(T) <= Cardinality(S))
        /\ (d \notin S => Cardinality(T) = Cardinality(S) + IF h = g THEN 1 ELSE 0)
        /\ Cardinality(T) <= Cardinality(S) + 1
    <2>1. CASE h = g /\ d \in S
      BY <1>2, <1>3, <2>1, OneDevice
    <2>2. CASE h = g /\ d \notin S
      BY <1>2, <1>3, <2>2, OneDevice
    <2>3. CASE h # g /\ d \in S
      BY <1>2, <1>3, <2>3, OneDevice
    <2>4. CASE h # g /\ d \notin S
      BY <1>2, <1>3, <2>4, OneDevice
    <2> QED
      BY <2>1, <2>2, <2>3, <2>4
  <1>6. m[h].devices = n[h].devices + IF h = g THEN 1 ELSE 0
    OBVIOUS
  <1> QED
    BY <1>1, <1>3, <1>4, <1>5, <1>6

LEMMA RemoveCovers ==
  ASSUME NEW at, NEW n, NEW again \in BOOLEAN, Grouping(at, n), Covers(at, n, again),
         NEW g \in Groups, NEW d \in GroupedDevices, at[d] = g,
         NEW other, other = Moved(at, d, NoGroup),
         NEW m, \A h \in Groups : m[h].devices = IF h = g THEN Less(n[h].devices) ELSE n[h].devices
  PROVE  Covers(other, m, again)
  <1> SUFFICES ASSUME NEW h \in Groups
               PROVE  /\ m[h].devices >= Cardinality(MembersIn(other, h))
                      /\ ~again => m[h].devices = Cardinality(MembersIn(other, h))
    BY DEF Covers
  <1>1. PICK S, T : S = MembersIn(at, h) /\ T = MembersIn(other, h)
    OBVIOUS
  <1>2. /\ S \in SUBSET GroupedDevices /\ (d \in S <=> h = g)
        /\ T = Fewer(S, d)
    BY <1>1, MembersChange, GroupAssumption
  <1>3. /\ n[h].devices \in Nat /\ n[h].devices >= Cardinality(S) /\ Cardinality(S) \in Nat
        /\ ~again => n[h].devices = Cardinality(S)
    BY <1>1, <1>2, SubsetsAreFinite DEF Covers, Grouping, Counting
  <1>4. /\ h = g => Cardinality(T) = Cardinality(S) - 1 /\ Cardinality(S) > 0
        /\ h # g => Cardinality(T) = Cardinality(S)
    BY <1>2, OneDevice
  <1>5. m[h].devices = IF h = g THEN Less(n[h].devices) ELSE n[h].devices
    OBVIOUS
  <1>6. h = g => Less(n[h].devices) = n[h].devices - 1
    BY <1>3, <1>4 DEF Less
  <1> QED
    BY <1>1, <1>3, <1>4, <1>5, <1>6

LEMMA AddFollows ==
  ASSUME NEW at, NEW n, NEW on \in SUBSET GroupedDevices, Grouping(at, n), Follows(at, n, on),
         NEW g \in Groups, NEW d \in GroupedDevices, at[d] = NoGroup, NEW other, other = Moved(at, d, g),
         NEW m, \A h \in Groups : m[h].active = n[h].active + IF h = g /\ d \in on THEN 1 ELSE 0
  PROVE  Follows(other, m, on)
  <1> SUFFICES ASSUME NEW h \in Groups
               PROVE  m[h].active = Cardinality(MembersIn(other, h) \cap on)
    BY DEF Follows
  <1>1. PICK S, T : S = MembersIn(at, h) /\ T = MembersIn(other, h)
    OBVIOUS
  <1>2. /\ S \in SUBSET GroupedDevices /\ d \notin S
        /\ T = IF h = g THEN More(S, d) ELSE Fewer(S, d)
    BY <1>1, MembersChange, GroupAssumption
  <1>3. PICK A, B : A = S \cap on /\ B = T \cap on
    OBVIOUS
  <1>4. /\ A \in SUBSET GroupedDevices /\ d \notin A
        /\ B = IF d \in on /\ h = g THEN More(A, d) ELSE A
    BY <1>2, <1>3 DEF More, Fewer
  <1>5. Cardinality(B) = Cardinality(A) + IF h = g /\ d \in on THEN 1 ELSE 0
    <2>1. Cardinality(A) \in Nat /\ Cardinality(More(A, d)) = Cardinality(A) + 1
      BY <1>4, SubsetsAreFinite, OneDevice
    <2> QED
      BY <1>4, <2>1
  <1>6. n[h].active = Cardinality(A)
    BY <1>1, <1>3 DEF Follows
  <1> QED
    BY <1>1, <1>3, <1>5, <1>6

LEMMA RemoveFollows ==
  ASSUME NEW at, NEW n, NEW on \in SUBSET GroupedDevices, Grouping(at, n), Follows(at, n, on),
         NEW g \in Groups, NEW d \in GroupedDevices, at[d] = g, NEW other, other = Moved(at, d, NoGroup),
         NEW m, \A h \in Groups : m[h].active = IF h = g /\ d \in on THEN Less(n[h].active) ELSE n[h].active
  PROVE  Follows(other, m, on)
  <1> SUFFICES ASSUME NEW h \in Groups
               PROVE  m[h].active = Cardinality(MembersIn(other, h) \cap on)
    BY DEF Follows
  <1>1. PICK S, T : S = MembersIn(at, h) /\ T = MembersIn(other, h)
    OBVIOUS
  <1>2. /\ S \in SUBSET GroupedDevices /\ (d \in S <=> h = g)
        /\ T = Fewer(S, d)
    BY <1>1, MembersChange, GroupAssumption
  <1>3. PICK A, B : A = S \cap on /\ B = T \cap on
    OBVIOUS
  <1>4. /\ A \in SUBSET GroupedDevices /\ (d \in A <=> h = g /\ d \in on)
        /\ B = Fewer(A, d)
    BY <1>2, <1>3 DEF Fewer
  <1>5. /\ Cardinality(A) \in Nat
        /\ h = g /\ d \in on => Cardinality(B) = Cardinality(A) - 1 /\ Cardinality(A) > 0
        /\ ~(h = g /\ d \in on) => Cardinality(B) = Cardinality(A)
    BY <1>4, SubsetsAreFinite, OneDevice
  <1>6. n[h].active = Cardinality(A)
    BY <1>1, <1>3 DEF Follows
  <1>7. h = g /\ d \in on => Less(n[h].active) = Cardinality(A) - 1
    BY <1>5, <1>6 DEF Less
  <1> QED
    BY <1>1, <1>3, <1>5, <1>6, <1>7

\* Devices of no group come and go: no count changes.
LEMMA OthersFollow ==
  ASSUME NEW at, NEW n, NEW on \in SUBSET GroupedDevices, NEW off \in SUBSET GroupedDevices,
         NEW ds \in SUBSET GroupedDevices, \A d \in GroupedDevices \ ds : d \in on <=> d \in off,
         \A d \in ds : at[d] = NoGroup, Follows(at, n, on)
  PROVE  Follows(at, n, off)
  <1> SUFFICES ASSUME NEW h \in Groups
               PROVE  n[h].active = Cardinality(MembersIn(at, h) \cap off)
    BY DEF Follows
  <1>1. MembersIn(at, h) \cap off = MembersIn(at, h) \cap on
    BY GroupAssumption DEF MembersIn
  <1> QED
    BY <1>1 DEF Follows

LEMMA GroupsInitially == GroupsInit => GroupsFollow
  <1> SUFFICES ASSUME GroupsInit PROVE GroupsFollow
    OBVIOUS
  <1>1. /\ Grouping(group, counts) /\ \A g \in Groups : counts[g].devices = 0 /\ counts[g].active = 0
        /\ \A d \in GroupedDevices : group[d] = NoGroup
    BY DEF GroupsInit, Grouping, Counting
  <1>2. \A g \in Groups : MembersIn(group, g) = {}
    BY <1>1, GroupAssumption DEF MembersIn
  <1>3. \A g \in Groups : Cardinality(MembersIn(group, g)) = 0 /\ Cardinality(MembersIn(group, g) \cap online) = 0
    <2>1. {} \cap online = {}
      OBVIOUS
    <2> QED
      BY <1>2, <2>1, FS_EmptySet
  <1>4. Covers(group, counts, readded) /\ Follows(group, counts, online)
    <2>1. \A g \in Groups : counts[g].devices >= 0
      BY <1>1
    <2>2. Covers(group, counts, readded)
      BY <1>1, <1>3, <2>1 DEF Covers
    <2> QED
      BY <1>1, <1>3, <2>2 DEF Follows
  <1>5. /\ committed = [group |-> group, counts |-> counts, readded |-> FALSE] /\ readded = FALSE /\ strayed = FALSE
        /\ online \in SUBSET GroupedDevices /\ seenOnline \in SUBSET GroupedDevices
    BY DEF GroupsInit
  <1>6. committed.group = group /\ committed.counts = counts /\ committed.readded = FALSE
    BY <1>5
  <1>7. Covers(committed.group, committed.counts, committed.readded)
    BY <1>4, <1>5, <1>6
  <1>8. strayed \in BOOLEAN /\ readded \in BOOLEAN /\ committed.readded \in BOOLEAN
    BY <1>5, <1>6
  <1>9. committed = [group |-> committed.group, counts |-> committed.counts, readded |-> committed.readded]
    BY <1>5, <1>6
  <1> QED
    BY <1>1, <1>4, <1>5, <1>6, <1>7, <1>8, <1>9 DEF GroupsFollow

LEMMA StatusKeeps ==
  ASSUME GroupsFollow, NEW ds \in SUBSET GroupedDevices, Stray(ds), UNCHANGED sessionVars,
         online' \in SUBSET GroupedDevices, \A d \in GroupedDevices \ ds : d \in online <=> d \in online'
  PROVE  GroupsFollow'
  <1>1. /\ online \in SUBSET GroupedDevices /\ strayed \in BOOLEAN
        /\ ~strayed /\ ~readded => Follows(group, counts, online)
        /\ ~strayed /\ ~committed.readded => Follows(committed.group, committed.counts, online)
    BY DEF GroupsFollow
  <1>2. UNCHANGED <<seenOnline, group, counts, committed, readded>> /\ strayed' \in BOOLEAN
    BY <1>1 DEF Stray, sessionVars
  <1>3. ~strayed' => ~strayed /\ \A d \in ds : group[d] = NoGroup /\ committed.group[d] = NoGroup
    BY DEF Stray
  <1>4. ~strayed' /\ ~readded => Follows(group, counts, online')
    BY <1>1, <1>3, OthersFollow
  <1>5. ~strayed' /\ ~committed.readded => Follows(committed.group, committed.counts, online')
    BY <1>1, <1>3, OthersFollow
  <1>6. /\ Grouping(group, counts)' /\ Grouping(committed.group, committed.counts)'
        /\ Covers(group, counts, readded)' /\ Covers(committed.group, committed.counts, committed.readded)'
    BY <1>2 DEF GroupsFollow, Grouping, Covers, MembersIn
  <1>7. /\ (~strayed /\ ~readded => Follows(group, counts, online))'
        /\ (~strayed /\ ~committed.readded => Follows(committed.group, committed.counts, online))'
    BY <1>2, <1>4, <1>5 DEF Follows, MembersIn
  <1> QED
    BY <1>2, <1>6, <1>7 DEF GroupsFollow

LEMMA GroupsStepKeeps == GroupsFollow /\ [GroupsNext]_groupVars => GroupsFollow'
  <1> SUFFICES ASSUME GroupsFollow, [GroupsNext]_groupVars PROVE GroupsFollow'
    OBVIOUS
  <1>a. /\ online \in SUBSET GroupedDevices /\ seenOnline \in SUBSET GroupedDevices
        /\ strayed \in BOOLEAN /\ readded \in BOOLEAN /\ committed.readded \in BOOLEAN
        /\ committed = [group |-> committed.group, counts |-> committed.counts, readded |-> committed.readded]
        /\ Grouping(group, counts) /\ Covers(group, counts, readded)
        /\ group \in [GroupedDevices -> Groups \cup {NoGroup}] /\ counts \in [Groups -> Counting]
    BY DEF GroupsFollow, Grouping
  <1>b. /\ Grouping(committed.group, committed.counts)
        /\ Covers(committed.group, committed.counts, committed.readded)
        /\ ~strayed /\ ~readded => Follows(group, counts, online)
        /\ ~strayed /\ ~committed.readded => Follows(committed.group, committed.counts, online)
    BY DEF GroupsFollow
  <1>1. CASE UNCHANGED groupVars
    BY <1>1 DEF groupVars, sessionVars, GroupsFollow, Grouping, Covers, Follows, MembersIn
  <1>2. ASSUME NEW d \in GroupedDevices, Heartbeat(d) PROVE GroupsFollow'
    <2>1. {d} \in SUBSET GroupedDevices /\ online' \in SUBSET GroupedDevices
          /\ \A e \in GroupedDevices \ {d} : e \in online <=> e \in online'
      BY <1>a, <1>2 DEF Heartbeat
    <2> QED
      BY <1>2, <2>1, StatusKeeps DEF Heartbeat
  <1>3. ASSUME NEW ds \in SUBSET GroupedDevices, MarkDevicesOffline(ds) PROVE GroupsFollow'
    <2>1. online' \in SUBSET GroupedDevices /\ \A e \in GroupedDevices \ ds : e \in online <=> e \in online'
      BY <1>a, <1>3 DEF MarkDevicesOffline
    <2> QED
      BY <1>3, <2>1, StatusKeeps DEF MarkDevicesOffline
  <1>4. ASSUME NEW d \in GroupedDevices, LoadDevice(d) PROVE GroupsFollow'
    <2>1. seenOnline' \in SUBSET GroupedDevices /\ UNCHANGED <<online, group, counts, committed, readded, strayed>>
      BY <1>a, <1>4 DEF LoadDevice
    <2> QED
      BY <2>1 DEF GroupsFollow, Grouping, Covers, Follows, MembersIn
  <1>5. ASSUME NEW g \in Groups, NEW d \in GroupedDevices, AddDevice(g, d) PROVE GroupsFollow'
    <2>1. PICK at, n, other, m : at = group /\ n = counts /\ other = group' /\ m = counts'
      OBVIOUS
    <2>2. /\ other = Moved(at, d, g) /\ UNCHANGED <<seenOnline, committed, online>>
          /\ strayed' = (strayed \/ (d \in online) # (d \in seenOnline))
          /\ readded' = (readded \/ at[d] # NoGroup)
      BY <1>5, <2>1 DEF AddDevice, Seen, Moved
    <2>3. /\ m \in [Groups -> Counting]
          /\ \A h \in Groups : m[h].devices = n[h].devices + IF h = g THEN 1 ELSE 0
          /\ \A h \in Groups : m[h].active = n[h].active + IF h = g /\ d \in seenOnline THEN 1 ELSE 0
      BY <1>a, <1>5, <2>1 DEF AddDevice, Counting
    <2>4. other \in [GroupedDevices -> Groups \cup {NoGroup}]
      BY <1>a, <2>1, <2>2 DEF Moved
    <2>5. Grouping(other, m)
      BY <2>3, <2>4 DEF Grouping
    <2>6. Covers(other, m, readded \/ at[d] # NoGroup)
      BY <1>a, <2>1, <2>2, <2>3, AddCovers
    <2>7. ~strayed' /\ ~readded' => Follows(other, m, online)
      <3> SUFFICES ASSUME ~strayed', ~readded' PROVE Follows(other, m, online)
        OBVIOUS
      <3>1. /\ ~strayed /\ ~readded /\ at[d] = NoGroup /\ (d \in online <=> d \in seenOnline)
        BY <1>a, <2>2
      <3>2. \A h \in Groups : m[h].active = n[h].active + IF h = g /\ d \in online THEN 1 ELSE 0
        BY <2>3, <3>1
      <3>3. Grouping(at, n) /\ Follows(at, n, online)
        BY <1>a, <1>b, <2>1, <3>1
      <3> QED
        BY <1>a, <2>2, <3>1, <3>2, <3>3, AddFollows
    <2>8. strayed' \in BOOLEAN /\ readded' \in BOOLEAN
      BY <2>2
    <2>9. Covers(other, m, readded')
      <3>1. \A again : Covers(other, m, again) <=>
                \A h \in Groups : /\ m[h].devices >= Cardinality(MembersIn(other, h))
                                  /\ again \/ m[h].devices = Cardinality(MembersIn(other, h))
        BY DEF Covers
      <3> QED
        BY <2>2, <2>6, <3>1
    <2>10. /\ Grouping(group, counts)' /\ Covers(group, counts, readded)'
           /\ (~strayed /\ ~readded => Follows(group, counts, online))'
      BY <2>1, <2>2, <2>5, <2>7, <2>9 DEF Grouping, Covers, Follows, MembersIn
    <2>11. /\ Grouping(committed.group, committed.counts)'
           /\ Covers(committed.group, committed.counts, committed.readded)'
           /\ (~strayed /\ ~committed.readded => Follows(committed.group, committed.counts, online))'
      BY <1>a, <1>b, <2>2 DEF Grouping, Covers, Follows, MembersIn
    <2>12. /\ online' \in SUBSET GroupedDevices /\ seenOnline' \in SUBSET GroupedDevices /\ committed'.readded \in BOOLEAN
           /\ committed' = [group |-> committed'.group, counts |-> committed'.counts, readded |-> committed'.readded]
      BY <1>a, <2>2
    <2> QED
      BY <2>8, <2>10, <2>11, <2>12 DEF GroupsFollow
  <1>6. ASSUME NEW g \in Groups, NEW d \in GroupedDevices, RemoveDevice(g, d) PROVE GroupsFollow'
    <2>1. PICK at, n, other, m : at = group /\ n = counts /\ other = group' /\ m = counts'
      OBVIOUS
    <2>2. /\ other = Moved(at, d, NoGroup) /\ UNCHANGED <<seenOnline, committed, online, readded>>
          /\ strayed' = (strayed \/ (d \in online) # (d \in seenOnline))
          /\ at[d] = g
      BY <1>6, <2>1 DEF RemoveDevice, MayRemove, Seen, Moved
    <2>a. \A i \in Nat : Less(i) \in Nat
      BY DEF Less
    <2>3. /\ m \in [Groups -> Counting]
          /\ \A h \in Groups : m[h].devices = IF h = g THEN Less(n[h].devices) ELSE n[h].devices
          /\ \A h \in Groups : m[h].active = IF h = g /\ d \in seenOnline THEN Less(n[h].active) ELSE n[h].active
      BY <1>a, <1>6, <2>1, <2>a DEF RemoveDevice, Counting
    <2>4. other \in [GroupedDevices -> Groups \cup {NoGroup}]
      BY <1>a, <2>1, <2>2 DEF Moved
    <2>5. Grouping(other, m)
      BY <2>3, <2>4 DEF Grouping
    <2>6. Covers(other, m, readded)
      BY <1>a, <2>1, <2>2, <2>3, RemoveCovers
    <2>7. ~strayed' /\ ~readded => Follows(other, m, online)
      <3> SUFFICES ASSUME ~strayed', ~readded PROVE Follows(other, m, online)
        OBVIOUS
      <3>1. ~strayed /\ (d \in online <=> d \in seenOnline)
        BY <1>a, <2>2
      <3>2. \A h \in Groups : m[h].active = IF h = g /\ d \in online THEN Less(n[h].active) ELSE n[h].active
        BY <2>3, <3>1
      <3>3. Grouping(at, n) /\ Follows(at, n, online)
        BY <1>a, <1>b, <2>1, <3>1
      <3> QED
        BY <1>a, <2>2, <3>1, <3>2, <3>3, RemoveFollows
    <2>8. strayed' \in BOOLEAN
      BY <2>2
    <2>10. /\ Grouping(group, counts)' /\ Covers(group, counts, readded)'
           /\ (~strayed /\ ~readded => Follows(group, counts, online))'
      BY <2>1, <2>2, <2>5, <2>6, <2>7 DEF Grouping, Covers, Follows, MembersIn
    <2>11. /\ Grouping(committed.group, committed.counts)'
           /\ Covers(committed.group, committed.counts, committed.readded)'
           /\ (~strayed /\ ~committed.readded => Follows(committed.group, committed.counts, online))'
      BY <1>a, <1>b, <2>2 DEF Grouping, Covers, Follows, MembersIn
    <2>12. /\ online' \in SUBSET GroupedDevices /\ seenOnline' \in SUBSET GroupedDevices /\ committed'.readded \in BOOLEAN
           /\ committed' = [group |-> committed'.group, counts |-> committed'.counts, readded |-> committed'.readded]
           /\ readded' \in BOOLEAN
      BY <1>a, <2>2
    <2> QED
      BY <2>8, <2>10, <2>11, <2>12 DEF GroupsFollow
  <1>7. CASE CommitGroups
    <2>1. /\ committed' = [group |-> group, counts |-> counts, readded |-> readded]
          /\ UNCHANGED <<online, seenOnline, group, counts, readded, strayed>>
      BY <1>7 DEF CommitGroups, InSession
    <2>2. committed'.group = group /\ committed'.counts = counts /\ committed'.readded = readded
      BY <2>1
    <2>3. /\ Grouping(group, counts)' /\ Covers(group, counts, readded)'
          /\ (~strayed /\ ~readded => Follows(group, counts, online))'
      BY <1>a, <1>b, <2>1 DEF Grouping, Covers, Follows, MembersIn
    <2>4. /\ Grouping(committed.group, committed.counts)'
          /\ Covers(committed.group, committed.counts, committed.readded)'
          /\ (~strayed /\ ~committed.readded => Follows(committed.group, committed.counts, online))'
      BY <1>a, <1>b, <2>1, <2>2 DEF Grouping, Covers, Follows, MembersIn
    <2>5. /\ online' \in SUBSET GroupedDevices /\ seenOnline' \in SUBSET GroupedDevices /\ committed'.readded \in BOOLEAN
          /\ committed' = [group |-> committed'.group, counts |-> committed'.counts, readded |-> committed'.readded]
          /\ readded' \in BOOLEAN /\ strayed' \in BOOLEAN
      BY <1>a, <2>1, <2>2
    <2> QED
      BY <2>3, <2>4, <2>5 DEF GroupsFollow
  <1>8. CASE RollbackGroups
    <2>1. /\ group' = committed.group /\ counts' = committed.counts /\ readded' = committed.readded
          /\ seenOnline' = online /\ UNCHANGED <<online, committed, strayed>>
      BY <1>8 DEF RollbackGroups
    <2>3. /\ Grouping(group, counts)' /\ Covers(group, counts, readded)'
          /\ (~strayed /\ ~readded => Follows(group, counts, online))'
      BY <1>a, <1>b, <2>1 DEF Grouping, Covers, Follows, MembersIn
    <2>4. /\ Grouping(committed.group, committed.counts)'
          /\ Covers(committed.group, committed.counts, committed.readded)'
          /\ (~strayed /\ ~committed.readded => Follows(committed.group, committed.counts, online))'
      BY <1>a, <1>b, <2>1 DEF Grouping, Covers, Follows, MembersIn
    <2>5. /\ online' \in SUBSET GroupedDevices /\ seenOnline' \in SUBSET GroupedDevices /\ committed'.readded \in BOOLEAN
          /\ committed' = [group |-> committed'.group, counts |-> committed'.counts, readded |-> committed'.readded]
          /\ readded' \in BOOLEAN /\ strayed' \in BOOLEAN
      BY <1>a, <2>1
    <2> QED
      BY <2>3, <2>4, <2>5 DEF GroupsFollow
  <1> QED
    BY <1>1, <1>2, <1>3, <1>4, <1>5, <1>6, <1>7, <1>8 DEF GroupsNext

LEMMA GroupsChecked == GroupsFollow => GroupInv
  <1> SUFFICES ASSUME GroupsFollow PROVE GroupInv
    OBVIOUS
  <1>1. \A g : Members(g) = MembersIn(committed.group, g)
    BY DEF Members, MembersIn
  <1>2. CountsCoverMembers
    BY <1>1 DEF GroupsFollow, Covers, CountsCoverMembers
  <1>3. ActiveFollowsMembers
    BY <1>1 DEF GroupsFollow, Follows, ActiveFollowsMembers
  <1> QED
    BY <1>2, <1>3 DEF GroupInv


-----------------------------------------------------------------------------
(* Secrets *)

IsCall(c) ==
    c = [op |-> c.op, step |-> c.step, name |-> c.name, value |-> c.value, data |-> c.data, load |-> c.load]

\* All values are encrypted with key k; all have been stored.
WithKey(d, k) == \A n \in DOMAIN d : d[n].key = k /\ k # NoKey
WereStored(d, ever) == \A n \in DOMAIN d : <<n, d[n].value>> \in ever
CacheOK(e, ever) == \A n \in DOMAIN e : <<n, e[n]>> \in ever

\* Call c of a process that holds key h.
CallOK(c, h, k, ever) ==
    /\ IsCall(c) /\ WithKey(c.data, k)
    /\ c.step \in {"use", "rekey", "update"} => h = k /\ k # NoKey
    /\ c.op = "get" => WereStored(c.data, ever)
    /\ c.op = "get" /\ c.step \in {"key", "create", "use"} => c.name \in DOMAIN c.data
    /\ c.step = "update" =>
        c.op = "rotate" \/ (c.op = "set" /\ c.name \in DOMAIN c.data /\ c.data[c.name].value = c.value)

StoreOK(s, k, ever) == s # NoSecrets => WithKey(s, k) /\ WereStored(s, ever)

SecretsFollow ==
    /\ doing = [p \in Processes |-> doing[p]] /\ held = [p \in Processes |-> held[p]]
    /\ cached = [p \in Processes |-> cached[p]]
    /\ StoreOK(storedSecrets, storedKey, everStored)
    /\ \A p \in Processes : /\ CallOK(doing[p], held[p], storedKey, everStored)
                            /\ held[p] \in {NoKey, storedKey}
                            /\ CacheOK(cached[p], everStored)

\* A call that has read nothing yet.
Unread(c) == IsCall(c) /\ c.data = Nothing /\ c.step \in {"none", "check", "read"}

LEMMA UnreadOK ==
  ASSUME NEW c, Unread(c), NEW h, NEW k, NEW ever
  PROVE  CallOK(c, h, k, ever)
  BY DEF Unread, CallOK, Nothing, WithKey, WereStored

LEMMA CallingIsUnread ==
  ASSUME NEW op, NEW step \in {"none", "check", "read"}
  PROVE  Unread(Calling(op, step))
  BY DEF Unread, Calling, IsCall

LEMMA AtRestIsUnread == Unread(AtRest)
  BY CallingIsUnread DEF AtRest

LEMMA WithName ==
  ASSUME NEW c, Unread(c), NEW n
  PROVE  Unread([c EXCEPT !.name = n])
  BY DEF Unread, IsCall

LEMMA WithLoad ==
  ASSUME NEW c, Unread(c), NEW n
  PROVE  Unread([c EXCEPT !.load = n])
  BY DEF Unread, IsCall

LEMMA WithValue ==
  ASSUME NEW c, Unread(c), NEW n
  PROVE  Unread([c EXCEPT !.value = n])
  BY DEF Unread, IsCall

LEMMA LoadingIsUnread == \A p, i : Unread(Loading(p, i))
  <1> SUFFICES ASSUME NEW p, NEW i PROVE Unread(Loading(p, i))
    OBVIOUS
  <1>1. \A j : Unread([Calling("get", "read") EXCEPT !.name = SecretNames[j], !.load = j])
    <2> SUFFICES ASSUME NEW j PROVE Unread([Calling("get", "read") EXCEPT !.name = SecretNames[j], !.load = j])
      OBVIOUS
    <2>1. PICK a : a = Calling("get", "read")
      OBVIOUS
    <2>2. PICK b : b = [a EXCEPT !.name = SecretNames[j]]
      OBVIOUS
    <2>3. Unread(a)
      BY <2>1, CallingIsUnread
    <2>4. Unread(b)
      BY <2>2, <2>3, WithName
    <2>5. Unread([b EXCEPT !.load = j])
      BY <2>4, WithLoad
    <2>6. [b EXCEPT !.load = j] = [Calling("get", "read") EXCEPT !.name = SecretNames[j], !.load = j]
      BY <2>1, <2>2
    <2> QED
      BY <2>5, <2>6
  <1> QED
    BY <1>1, AtRestIsUnread DEF Loading

\* More has been stored; or the key has been made.
LEMMA StillOK ==
  ASSUME NEW c, NEW h, NEW k, NEW ever, NEW more, ever \subseteq more, CallOK(c, h, k, ever)
  PROVE  CallOK(c, h, k, more)
  BY DEF CallOK, WereStored

LEMMA OKWithNewKey ==
  ASSUME NEW c, NEW h, NEW k, NEW ever, CallOK(c, h, NoKey, ever)
  PROVE  CallOK(c, h, k, ever) /\ c.step \notin {"use", "rekey", "update"}
  BY DEF CallOK, WithKey

LEMMA StoreOKWithNewKey ==
  ASSUME NEW s, NEW k, NEW ever, StoreOK(s, NoKey, ever)
  PROVE  StoreOK(s, k, ever)
  BY DEF StoreOK, WithKey

LEMMA SecretsInitially == SecretsInit => SecretsFollow
  <1> SUFFICES ASSUME SecretsInit PROVE SecretsFollow
    OBVIOUS
  <1>1. /\ doing = [p \in Processes |-> doing[p]] /\ held = [p \in Processes |-> held[p]]
        /\ cached = [p \in Processes |-> cached[p]]
        /\ \A p \in Processes : doing[p] = AtRest /\ held[p] = NoKey /\ cached[p] = Nothing
    BY DEF SecretsInit
  <1>2. \A p \in Processes : CallOK(doing[p], held[p], storedKey, everStored)
    BY <1>1, AtRestIsUnread, UnreadOK
  <1>3. CacheOK(Nothing, everStored)
    BY DEF CacheOK, Nothing
  <1>4. StoreOK(storedSecrets, storedKey, everStored)
    BY DEF SecretsInit, StoreOK
  <1> QED
    BY <1>1, <1>2, <1>3, <1>4 DEF SecretsFollow

\* A step of process p leaves what holds if it does for p, the store, and the others' calls.
LEMMA ProcessSteps ==
  ASSUME SecretsFollow, NEW p \in Processes, NEW c, NEW h, NEW e,
         doing' = [doing EXCEPT ![p] = c], held' = [held EXCEPT ![p] = h], cached' = [cached EXCEPT ![p] = e],
         CallOK(c, h, storedKey', everStored'), h \in {NoKey, storedKey'}, CacheOK(e, everStored'),
         everStored \subseteq everStored', StoreOK(storedSecrets', storedKey', everStored'),
         storedKey' = storedKey \/ storedKey = NoKey
  PROVE  SecretsFollow'
  <1>1. /\ doing = [q \in Processes |-> doing[q]] /\ held = [q \in Processes |-> held[q]]
        /\ cached = [q \in Processes |-> cached[q]]
        /\ \A q \in Processes : /\ CallOK(doing[q], held[q], storedKey, everStored)
                                /\ held[q] \in {NoKey, storedKey}
                                /\ CacheOK(cached[q], everStored)
    BY DEF SecretsFollow
  <1>2. /\ doing' = [q \in Processes |-> IF q = p THEN c ELSE doing[q]]
        /\ held' = [q \in Processes |-> IF q = p THEN h ELSE held[q]]
        /\ cached' = [q \in Processes |-> IF q = p THEN e ELSE cached[q]]
    BY <1>1
  <1>3. ASSUME NEW q \in Processes, q # p
        PROVE  CallOK(doing[q], held[q], storedKey', everStored') /\ held[q] \in {NoKey, storedKey'}
    <2>1. CallOK(doing[q], held[q], storedKey, everStored')
      BY <1>1, StillOK
    <2>2. CASE storedKey' = storedKey
      BY <1>1, <2>1, <2>2
    <2>3. CASE storedKey = NoKey
      <3>1. CallOK(doing[q], held[q], NoKey, everStored')
        BY <2>1, <2>3
      <3> QED
        BY <1>1, <2>3, <3>1, OKWithNewKey
    <2> QED
      BY <2>2, <2>3
  <1>4. \A q \in Processes : CacheOK(cached[q], everStored')
    BY <1>1 DEF CacheOK
  <1>5. \A q \in Processes : /\ CallOK(doing'[q], held'[q], storedKey', everStored')
                             /\ held'[q] \in {NoKey, storedKey'}
                             /\ CacheOK(cached'[q], everStored')
    BY <1>2, <1>3, <1>4
  <1>6. /\ doing' = [q \in Processes |-> doing'[q]] /\ held' = [q \in Processes |-> held'[q]]
        /\ cached' = [q \in Processes |-> cached'[q]]
    BY <1>2
  <1> QED
    BY <1>5, <1>6 DEF SecretsFollow

\* The same, when the store stays as it is.
LEMMA ProcessStepsAlone ==
  ASSUME SecretsFollow, NEW p \in Processes, NEW c, NEW h, NEW e,
         doing' = [doing EXCEPT ![p] = c], held' = [held EXCEPT ![p] = h], cached' = [cached EXCEPT ![p] = e],
         CallOK(c, h, storedKey, everStored), h \in {NoKey, storedKey}, CacheOK(e, everStored), UNCHANGED storeVars
  PROVE  SecretsFollow'
  <1>1. UNCHANGED <<storedKey, storedSecrets, everStored>>
    BY DEF storeVars
  <1>2. StoreOK(storedSecrets', storedKey', everStored')
    BY <1>1 DEF SecretsFollow
  <1>3. CallOK(c, h, storedKey', everStored') /\ CacheOK(e, everStored')
    BY <1>1
  <1> QED
    BY <1>1, <1>2, <1>3, ProcessSteps

LEMMA CacheGrows ==
  ASSUME NEW e, NEW ever, CacheOK(e, ever), NEW n, NEW v, <<n, v>> \in ever
  PROVE  CacheOK([m \in DOMAIN e \cup {n} |-> IF m = n THEN v ELSE e[m]], ever)
  BY DEF CacheOK

LEMMA NothingCached == \A ever : CacheOK(Nothing, ever)
  BY DEF CacheOK, Nothing

\* A call goes on: its step changes, and what it has read.
Stepped(c, s) == [c EXCEPT !.step = s]
SteppedWith(c, s, d) == [c EXCEPT !.step = s, !.data = d]

LEMMA StepChanges ==
  ASSUME NEW c, IsCall(c), NEW s, NEW t, t = Stepped(c, s)
  PROVE  IsCall(t) /\ t.step = s /\ t.op = c.op /\ t.data = c.data /\ t.name = c.name /\ t.value = c.value
  BY DEF IsCall, Stepped

LEMMA DataChanges ==
  ASSUME NEW c, IsCall(c), NEW s, NEW d, NEW t, t = SteppedWith(c, s, d)
  PROVE  IsCall(t) /\ t.step = s /\ t.op = c.op /\ t.data = d /\ t.name = c.name /\ t.value = c.value
  <1>1. PICK a : a = [c EXCEPT !.data = d]
    OBVIOUS
  <1>2. IsCall(a) /\ a.op = c.op /\ a.data = d /\ a.name = c.name /\ a.value = c.value
    BY <1>1 DEF IsCall
  <1>3. t = Stepped(a, s)
    BY <1>1 DEF Stepped, SteppedWith
  <1> QED
    BY <1>2, <1>3, StepChanges

\* Whatever ends a call.
LEMMA EndKeeps ==
  ASSUME SecretsFollow, NEW p \in Processes, NEW c, Unread(c), NEW h \in {NoKey, storedKey}, NEW e,
         doing' = [doing EXCEPT ![p] = c], held' = [held EXCEPT ![p] = h], cached' = [cached EXCEPT ![p] = e],
         CacheOK(e, everStored), UNCHANGED storeVars
  PROVE  SecretsFollow'
  <1>1. CallOK(c, h, storedKey, everStored)
    BY UnreadOK
  <1> QED
    BY <1>1, ProcessStepsAlone

LEMMA CallBegins ==
  ASSUME SecretsFollow, NEW p \in Processes,
         \/ LoadConfig(p) \/ RotateEncryptionKey(p) \/ Restart(p) \/ CheckRotationNeeded(p) \/ RequestFails(p)
         \/ \E n \in Configured : GetSecret(p, n) \/ \E v \in SecretValues : SetSecret(p, n, v)
  PROVE  SecretsFollow'
  <1>1. /\ held = [held EXCEPT ![p] = held[p]] /\ cached = [cached EXCEPT ![p] = cached[p]]
        /\ held[p] \in {NoKey, storedKey} /\ CacheOK(cached[p], everStored) /\ IsCall(doing[p])
        /\ WithKey(doing[p].data, storedKey) /\ CallOK(doing[p], held[p], storedKey, everStored)
    BY DEF SecretsFollow, CallOK
  <1>2. CASE LoadConfig(p)
    <2>1. PICK a : a = Calling("check", "check")
      OBVIOUS
    <2>2. Unread([a EXCEPT !.load = 1])
      BY <2>1, CallingIsUnread, WithLoad
    <2>3. doing' = [doing EXCEPT ![p] = [a EXCEPT !.load = 1]] /\ held' = [held EXCEPT ![p] = NoKey]
          /\ cached' = [cached EXCEPT ![p] = Nothing] /\ UNCHANGED storeVars
      BY <1>2, <2>1 DEF LoadConfig
    <2> QED
      BY <2>2, <2>3, NothingCached, EndKeeps
  <1>3. CASE RotateEncryptionKey(p)
    <2>1. Unread(Calling("rotate", "read"))
      BY CallingIsUnread
    <2>2. /\ doing' = [doing EXCEPT ![p] = Calling("rotate", "read")] /\ UNCHANGED storeVars
          /\ held' = [held EXCEPT ![p] = held[p]] /\ cached' = [cached EXCEPT ![p] = cached[p]]
      BY <1>1, <1>3 DEF RotateEncryptionKey
    <2> QED
      BY <1>1, <2>1, <2>2, EndKeeps
  <1>4. CASE Restart(p)
    <2>1. doing' = [doing EXCEPT ![p] = AtRest] /\ held' = [held EXCEPT ![p] = NoKey]
          /\ cached' = [cached EXCEPT ![p] = Nothing] /\ UNCHANGED storeVars
      BY <1>4 DEF Restart
    <2> QED
      BY <2>1, AtRestIsUnread, NothingCached, EndKeeps
  <1>5. CASE CheckRotationNeeded(p)
    <2>1. /\ UNCHANGED storeVars
          /\ held' = [held EXCEPT ![p] = held[p]] /\ cached' = [cached EXCEPT ![p] = cached[p]]
      BY <1>1, <1>5 DEF CheckRotationNeeded
    <2>2. CASE storedKey = NoKey \/ aged
      <3>1. PICK c, t : c = doing[p] /\ t = [c EXCEPT !.op = "rotate", !.step = "read"]
        OBVIOUS
      <3>2. doing' = [doing EXCEPT ![p] = t]
        BY <1>5, <2>2, <3>1 DEF CheckRotationNeeded
      <3>3. PICK a : a = [c EXCEPT !.op = "rotate"]
        OBVIOUS
      <3>4. IsCall(a) /\ a.op = "rotate" /\ a.data = c.data
        BY <1>1, <3>1, <3>3 DEF IsCall
      <3>5. t = Stepped(a, "read")
        BY <3>1, <3>3 DEF Stepped
      <3>6. IsCall(t) /\ t.op = "rotate" /\ t.step = "read" /\ t.data = c.data
        BY <3>4, <3>5, StepChanges
      <3>7. CallOK(t, held[p], storedKey, everStored)
        BY <1>1, <3>1, <3>6 DEF CallOK
      <3> QED
        BY <1>1, <2>1, <3>2, <3>7, ProcessStepsAlone
    <2>3. CASE ~(storedKey = NoKey \/ aged)
      <3>1. doing' = [doing EXCEPT ![p] = Loading(p, 1)]
        BY <1>5, <2>3 DEF CheckRotationNeeded
      <3>2. PICK c : c = Loading(p, 1)
        OBVIOUS
      <3>3. Unread(c)
        BY <3>2, LoadingIsUnread
      <3> QED
        BY <1>1, <2>1, <3>1, <3>2, <3>3, EndKeeps
    <2> QED
      BY <2>2, <2>3
  <1>6. CASE RequestFails(p)
    <2>1. /\ doing' = [doing EXCEPT ![p] = AtRest] /\ UNCHANGED storeVars
          /\ held' = [held EXCEPT ![p] = held[p]] /\ cached' = [cached EXCEPT ![p] = cached[p]]
      BY <1>1, <1>6 DEF RequestFails, Raises
    <2> QED
      BY <1>1, <2>1, AtRestIsUnread, EndKeeps
  <1>7. ASSUME NEW n \in Configured, GetSecret(p, n) PROVE SecretsFollow'
    <2>1. PICK a : a = Calling("get", "read")
      OBVIOUS
    <2>2. Unread([a EXCEPT !.name = n])
      BY <2>1, CallingIsUnread, WithName
    <2>3. /\ doing' = [doing EXCEPT ![p] = [a EXCEPT !.name = n]] /\ UNCHANGED storeVars
          /\ held' = [held EXCEPT ![p] = held[p]] /\ cached' = [cached EXCEPT ![p] = cached[p]]
      BY <1>1, <1>7, <2>1 DEF GetSecret
    <2> QED
      BY <1>1, <2>2, <2>3, EndKeeps
  <1>8. ASSUME NEW n \in Configured, NEW v \in SecretValues, SetSecret(p, n, v) PROVE SecretsFollow'
    <2>1. PICK a : a = Calling("set", "read")
      OBVIOUS
    <2>2. PICK b : b = [a EXCEPT !.name = n]
      OBVIOUS
    <2>3. Unread(b)
      BY <2>1, <2>2, CallingIsUnread, WithName
    <2>4. Unread([b EXCEPT !.value = v])
      BY <2>3, WithValue
    <2>5. [b EXCEPT !.value = v] = [a EXCEPT !.name = n, !.value = v]
      BY <2>2
    <2>6. /\ doing' = [doing EXCEPT ![p] = [b EXCEPT !.value = v]] /\ UNCHANGED storeVars
          /\ held' = [held EXCEPT ![p] = held[p]] /\ cached' = [cached EXCEPT ![p] = cached[p]]
      BY <1>1, <1>8, <2>1, <2>5 DEF SetSecret
    <2> QED
      BY <1>1, <2>4, <2>6, EndKeeps
  <1> QED
    BY <1>2, <1>3, <1>4, <1>5, <1>6, <1>7, <1>8

\* A call ends, or goes on with the next name of a load.
LEMMA EndsWithUnread ==
  ASSUME NEW p, Ends(p)
  PROVE  \E c : Unread(c) /\ doing' = [doing EXCEPT ![p] = c]
  <1>1. PICK c : c = IF doing[p].load = 0 THEN AtRest
                     ELSE Loading(p, doing[p].load + (IF doing[p].op = "get" THEN 1 ELSE 0))
    OBVIOUS
  <1>2. Unread(c)
    BY <1>1, AtRestIsUnread, LoadingIsUnread
  <1>3. doing' = [doing EXCEPT ![p] = c]
    BY <1>1 DEF Ends
  <1> QED
    BY <1>2, <1>3

LEMMA ReadSecretsKeeps ==
  ASSUME SecretsFollow, NEW p \in Processes, ReadSecrets(p)
  PROVE  SecretsFollow'
  <1>1. /\ held = [held EXCEPT ![p] = held[p]] /\ cached = [cached EXCEPT ![p] = cached[p]]
        /\ held[p] \in {NoKey, storedKey} /\ CacheOK(cached[p], everStored)
        /\ CallOK(doing[p], held[p], storedKey, everStored)
        /\ StoreOK(storedSecrets, storedKey, everStored)
    BY DEF SecretsFollow
  <1>2. PICK c, data : c = doing[p] /\ data = IF storedSecrets = NoSecrets THEN Nothing ELSE storedSecrets
    OBVIOUS
  <1>3. /\ c.step = "read" /\ UNCHANGED storeVars
        /\ \/ c.op = "rotate" /\ storedSecrets = NoSecrets /\ Raises(p)
           \/ c.op = "get" /\ c.name \notin DOMAIN data /\ UNCHANGED <<held, cached>> /\ Ends(p)
           \/ /\ c.op = "get" => c.name \in DOMAIN data
              /\ doing' = [doing EXCEPT ![p].step = IF held[p] = NoKey THEN "key" ELSE "use", ![p].data = data]
              /\ UNCHANGED <<held, cached>>
    BY <1>2 DEF ReadSecrets
  <1>4. CASE Raises(p)
    <2>1. /\ doing' = [doing EXCEPT ![p] = AtRest]
          /\ held' = [held EXCEPT ![p] = held[p]] /\ cached' = [cached EXCEPT ![p] = cached[p]]
      BY <1>1, <1>4 DEF Raises
    <2> QED
      BY <1>1, <1>3, <2>1, AtRestIsUnread, EndKeeps
  <1>5. CASE UNCHANGED <<held, cached>> /\ Ends(p)
    <2>1. PICK d : Unread(d) /\ doing' = [doing EXCEPT ![p] = d]
      BY <1>5, EndsWithUnread
    <2>2. held' = [held EXCEPT ![p] = held[p]] /\ cached' = [cached EXCEPT ![p] = cached[p]]
      BY <1>1, <1>5
    <2> QED
      BY <1>1, <1>3, <2>1, <2>2, EndKeeps
  <1>6. CASE /\ c.op = "get" => c.name \in DOMAIN data
             /\ doing' = [doing EXCEPT ![p].step = IF held[p] = NoKey THEN "key" ELSE "use", ![p].data = data]
             /\ UNCHANGED <<held, cached>>
    <2>1. PICK s, t : /\ s = (IF held[p] = NoKey THEN "key" ELSE "use")
                      /\ t = SteppedWith(c, s, data)
      OBVIOUS
    <2>2. doing' = [doing EXCEPT ![p] = t]
      BY <1>2, <1>6, <2>1 DEF SteppedWith
    <2>3. IsCall(t) /\ t.step = s /\ t.op = c.op /\ t.data = data /\ t.name = c.name
      BY <1>1, <1>2, <2>1, DataChanges DEF CallOK
    <2>4. WithKey(data, storedKey) /\ WereStored(data, everStored)
      BY <1>1, <1>2 DEF StoreOK, Nothing, WithKey, WereStored
    <2>5. s = "key" \/ (s = "use" /\ held[p] = storedKey /\ storedKey # NoKey)
      BY <1>1, <2>1
    <2>6. CallOK(t, held[p], storedKey, everStored)
      BY <1>6, <2>3, <2>4, <2>5 DEF CallOK
    <2>7. held' = [held EXCEPT ![p] = held[p]] /\ cached' = [cached EXCEPT ![p] = cached[p]]
      BY <1>1, <1>6
    <2> QED
      BY <1>1, <1>3, <2>2, <2>6, <2>7, ProcessStepsAlone
  <1> QED
    BY <1>3, <1>4, <1>5, <1>6

LEMMA ReadKeyKeeps ==
  ASSUME SecretsFollow, NEW p \in Processes, ReadKey(p)
  PROVE  SecretsFollow'
  <1>1. /\ held = [held EXCEPT ![p] = held[p]] /\ cached = [cached EXCEPT ![p] = cached[p]]
        /\ held[p] \in {NoKey, storedKey} /\ CacheOK(cached[p], everStored)
        /\ CallOK(doing[p], held[p], storedKey, everStored)
    BY DEF SecretsFollow
  <1>2. PICK c, s : c = doing[p] /\ s = (IF storedKey = NoKey THEN "create" ELSE "use")
    OBVIOUS
  <1>3. PICK t, h : t = Stepped(c, s) /\ h = (IF storedKey = NoKey THEN held[p] ELSE storedKey)
    OBVIOUS
  <1>4. /\ c.step = "key" /\ UNCHANGED storeVars
        /\ doing' = [doing EXCEPT ![p] = t] /\ held' = [held EXCEPT ![p] = h]
        /\ cached' = [cached EXCEPT ![p] = cached[p]]
    BY <1>1, <1>2, <1>3 DEF ReadKey, GoesTo, Stepped
  <1>5. IsCall(t) /\ t.step = s /\ t.op = c.op /\ t.data = c.data /\ t.name = c.name
    BY <1>1, <1>2, <1>3, StepChanges DEF CallOK
  <1>6. s = "create" \/ (s = "use" /\ h = storedKey /\ storedKey # NoKey)
    BY <1>2, <1>3
  <1>7. CallOK(t, h, storedKey, everStored)
    BY <1>1, <1>2, <1>4, <1>5, <1>6 DEF CallOK
  <1>8. h \in {NoKey, storedKey}
    BY <1>1, <1>3
  <1> QED
    BY <1>1, <1>4, <1>7, <1>8, ProcessStepsAlone

LEMMA CreateKeyKeeps ==
  ASSUME SecretsFollow, NEW p \in Processes, NEW k \in Keys, CreateKey(p, k)
  PROVE  SecretsFollow'
  <1>1. /\ held = [held EXCEPT ![p] = held[p]] /\ cached = [cached EXCEPT ![p] = cached[p]]
        /\ held[p] \in {NoKey, storedKey} /\ CacheOK(cached[p], everStored)
        /\ CallOK(doing[p], held[p], storedKey, everStored)
        /\ StoreOK(storedSecrets, storedKey, everStored)
    BY DEF SecretsFollow
  <1>2. /\ doing[p].step = "create" /\ storedKey = NoKey /\ storedKey' = k /\ k # NoKey
        /\ UNCHANGED <<storedSecrets, everStored>>
    BY SecretAssumption DEF CreateKey, MayCreate
  <1>3. StoreOK(storedSecrets', storedKey', everStored')
    <2>1. StoreOK(storedSecrets, k, everStored)
      BY <1>1, <1>2, StoreOKWithNewKey
    <2> QED
      BY <1>2, <2>1
  <1>4. CASE GoesTo(p, "use") /\ held' = [held EXCEPT ![p] = k] /\ UNCHANGED cached
    <2>1. PICK c, t : c = doing[p] /\ t = Stepped(c, "use")
      OBVIOUS
    <2>2. doing' = [doing EXCEPT ![p] = t] /\ cached' = [cached EXCEPT ![p] = cached[p]]
      BY <1>1, <1>4, <2>1 DEF GoesTo, Stepped
    <2>3. IsCall(t) /\ t.step = "use" /\ t.op = c.op /\ t.data = c.data /\ t.name = c.name
      BY <1>1, <2>1, StepChanges DEF CallOK
    <2>4. CallOK(c, held[p], k, everStored)
      BY <1>1, <1>2, <2>1, OKWithNewKey
    <2>5. CallOK(t, k, k, everStored)
      BY <1>2, <2>1, <2>3, <2>4 DEF CallOK
    <2>6. CallOK(t, k, storedKey', everStored') /\ CacheOK(cached[p], everStored') /\ k \in {NoKey, storedKey'}
          /\ everStored \subseteq everStored'
      BY <1>1, <1>2, <2>5
    <2> QED
      BY <1>2, <1>3, <1>4, <2>2, <2>6, ProcessSteps
  <1>5. CASE Raises(p)
    <2>1. doing' = [doing EXCEPT ![p] = AtRest] /\ held' = [held EXCEPT ![p] = held[p]]
          /\ cached' = [cached EXCEPT ![p] = cached[p]]
      BY <1>1, <1>5 DEF Raises
    <2>2. CallOK(AtRest, held[p], storedKey', everStored') /\ CacheOK(cached[p], everStored')
          /\ held[p] \in {NoKey, storedKey'} /\ everStored \subseteq everStored'
      BY <1>1, <1>2, AtRestIsUnread, UnreadOK
    <2> QED
      BY <1>2, <1>3, <2>1, <2>2, ProcessSteps
  <1> QED
    BY <1>4, <1>5 DEF CreateKey

LEMMA UseKeyKeeps ==
  ASSUME SecretsFollow, NEW p \in Processes, UseKey(p)
  PROVE  SecretsFollow'
  <1>1. /\ held = [held EXCEPT ![p] = held[p]] /\ cached = [cached EXCEPT ![p] = cached[p]]
        /\ held[p] \in {NoKey, storedKey} /\ CacheOK(cached[p], everStored)
        /\ CallOK(doing[p], held[p], storedKey, everStored)
    BY DEF SecretsFollow
  <1>2. PICK c, h, e : c = doing[p] /\ h = held[p] /\ e = cached[p]
    OBVIOUS
  <1>3. c.step = "use" /\ UNCHANGED storeVars /\ held' = [held EXCEPT ![p] = h] /\ h = storedKey /\ storedKey # NoKey
    BY <1>1, <1>2 DEF UseKey, CallOK
  <1>4. CASE c.op = "set"
    <2>1. PICK d : d = [n \in DOMAIN c.data \cup {c.name} |-> IF n = c.name THEN Encrypted(h, c.value) ELSE c.data[n]]
      OBVIOUS
    <2>2. PICK t : t = SteppedWith(c, "update", d)
      OBVIOUS
    <2>3. doing' = [doing EXCEPT ![p] = t] /\ cached' = [cached EXCEPT ![p] = e]
      <3>1. /\ doing' = [doing EXCEPT
                   ![p].data = [n \in DOMAIN c.data \cup {c.name} |->
                                    IF n = c.name THEN Encrypted(held[p], c.value) ELSE c.data[n]],
                   ![p].step = "update"]
            /\ UNCHANGED cached
        BY <1>2, <1>4 DEF UseKey
      <3>2. d = [n \in DOMAIN c.data \cup {c.name} |->
                     IF n = c.name THEN Encrypted(held[p], c.value) ELSE c.data[n]]
        BY <1>2, <2>1
      <3>3. doing' = [doing EXCEPT ![p].data = d, ![p].step = "update"]
        BY <3>1, <3>2, Zenon
      <3>4. doing' = [doing EXCEPT ![p] = t]
        BY <1>2, <2>2, <3>3 DEF SteppedWith
      <3> QED
        BY <1>1, <1>2, <3>1, <3>4
    <2>4. IsCall(t) /\ t.step = "update" /\ t.op = "set" /\ t.data = d /\ t.name = c.name /\ t.value = c.value
      BY <1>1, <1>2, <1>4, <2>2, DataChanges DEF CallOK
    <2>5. WithKey(d, storedKey) /\ c.name \in DOMAIN d /\ d[c.name].value = c.value
      BY <1>1, <1>2, <1>3, <2>1 DEF CallOK, WithKey, Encrypted
    <2>6. CallOK(t, h, storedKey, everStored)
      BY <1>3, <2>4, <2>5 DEF CallOK
    <2> QED
      BY <1>1, <1>2, <1>3, <2>3, <2>6, ProcessStepsAlone
  <1>5. CASE c.op = "get"
    <2>1. CASE c.data[c.name].key # held[p]
      <3>1. doing' = [doing EXCEPT ![p] = AtRest] /\ cached' = [cached EXCEPT ![p] = e]
        BY <1>1, <1>2, <1>5, <2>1 DEF UseKey, Raises
      <3> QED
        BY <1>1, <1>2, <1>3, <3>1, AtRestIsUnread, EndKeeps
    <2>2. CASE c.data[c.name].key = held[p]
      <3>1. /\ cached' = [cached EXCEPT ![p] = [n \in DOMAIN @ \cup {c.name} |->
                                                   IF n = c.name THEN c.data[n].value ELSE @[n]]]
            /\ Ends(p)
        BY <1>2, <1>5, <2>2 DEF UseKey
      <3>2. PICK v : v = c.data[c.name].value
        OBVIOUS
      <3>3. PICK f : f = [n \in DOMAIN e \cup {c.name} |-> IF n = c.name THEN v ELSE e[n]]
        OBVIOUS
      <3>4. cached' = [cached EXCEPT ![p] = f]
        <4>1. f = [n \in DOMAIN e \cup {c.name} |-> IF n = c.name THEN c.data[n].value ELSE e[n]]
          BY <3>2, <3>3
        <4> QED
          BY <1>2, <3>1, <4>1
      <3>5. <<c.name, v>> \in everStored
        BY <1>1, <1>2, <1>3, <1>5, <3>2 DEF CallOK, WereStored
      <3>6. CacheOK(f, everStored)
        BY <1>1, <1>2, <3>3, <3>5, CacheGrows
      <3>7. PICK d : Unread(d) /\ doing' = [doing EXCEPT ![p] = d]
        BY <3>1, EndsWithUnread
      <3> QED
        BY <1>1, <1>2, <1>3, <3>4, <3>6, <3>7, EndKeeps
    <2> QED
      BY <2>1, <2>2
  <1>6. CASE c.op = "rotate"
    <2>1. CASE Readable(held[p], c.data)
      <3>1. PICK t : t = Stepped(c, "rekey")
        OBVIOUS
      <3>2. doing' = [doing EXCEPT ![p] = t] /\ cached' = [cached EXCEPT ![p] = e]
        BY <1>1, <1>2, <1>6, <2>1, <3>1 DEF UseKey, GoesTo, Stepped
      <3>3. IsCall(t) /\ t.step = "rekey" /\ t.op = "rotate" /\ t.data = c.data
        BY <1>1, <1>2, <1>6, <3>1, StepChanges DEF CallOK
      <3>4. CallOK(t, h, storedKey, everStored)
        BY <1>1, <1>2, <1>3, <3>3 DEF CallOK
      <3> QED
        BY <1>1, <1>2, <1>3, <3>2, <3>4, ProcessStepsAlone
    <2>2. CASE ~Readable(held[p], c.data)
      <3>1. doing' = [doing EXCEPT ![p] = AtRest] /\ cached' = [cached EXCEPT ![p] = e]
        BY <1>1, <1>2, <1>6, <2>2 DEF UseKey, Raises
      <3> QED
        BY <1>1, <1>2, <1>3, <3>1, AtRestIsUnread, EndKeeps
    <2> QED
      BY <2>1, <2>2
  <1>7. c.op \in {"set", "get", "rotate"}
    BY <1>2 DEF UseKey
  <1> QED
    BY <1>4, <1>5, <1>6, <1>7

\* A rotation has the key of the store, so there is one, and it is refused.
LEMMA RekeyKeeps ==
  ASSUME SecretsFollow, NEW p \in Processes, NEW k \in Keys, Rekey(p, k)
  PROVE  SecretsFollow'
  <1>1. /\ held = [held EXCEPT ![p] = held[p]] /\ cached = [cached EXCEPT ![p] = cached[p]]
        /\ held[p] \in {NoKey, storedKey} /\ CacheOK(cached[p], everStored)
        /\ CallOK(doing[p], held[p], storedKey, everStored)
    BY DEF SecretsFollow
  <1>2. ~MayCreate
    BY <1>1 DEF Rekey, CallOK, MayCreate
  <1>3. /\ doing' = [doing EXCEPT ![p] = AtRest] /\ UNCHANGED <<held, cached, storedKey, aged, storedSecrets, everStored>>
    BY <1>2 DEF Rekey, Raises
  <1>4. held' = [held EXCEPT ![p] = held[p]] /\ cached' = [cached EXCEPT ![p] = cached[p]] /\ UNCHANGED storeVars
    BY <1>1, <1>3 DEF storeVars
  <1> QED
    BY <1>1, <1>3, <1>4, AtRestIsUnread, EndKeeps

LEMMA UpdateSecretsKeeps ==
  ASSUME SecretsFollow, NEW p \in Processes, UpdateSecrets(p)
  PROVE  SecretsFollow'
  <1>1. /\ held = [held EXCEPT ![p] = held[p]] /\ cached = [cached EXCEPT ![p] = cached[p]]
        /\ held[p] \in {NoKey, storedKey} /\ CacheOK(cached[p], everStored)
        /\ CallOK(doing[p], held[p], storedKey, everStored)
    BY DEF SecretsFollow
  <1>2. PICK c, h, e : c = doing[p] /\ h = held[p] /\ e = cached[p]
    OBVIOUS
  <1>3. /\ c.step = "update" /\ storedSecrets' = c.data /\ storedKey' = storedKey
        /\ everStored' = everStored \cup {<<n, c.data[n].value>> : n \in DOMAIN c.data}
    BY <1>2 DEF UpdateSecrets
  <1>4. everStored \subseteq everStored' /\ WereStored(c.data, everStored')
    BY <1>3 DEF WereStored
  <1>5. StoreOK(storedSecrets', storedKey', everStored')
    BY <1>1, <1>2, <1>3, <1>4 DEF StoreOK, CallOK
  <1>6. CacheOK(e, everStored')
    BY <1>1, <1>2, <1>4 DEF CacheOK
  <1>7. CASE Raises(p)
    <2>1. /\ doing' = [doing EXCEPT ![p] = AtRest]
          /\ held' = [held EXCEPT ![p] = h] /\ cached' = [cached EXCEPT ![p] = e]
      BY <1>1, <1>2, <1>7 DEF Raises
    <2>2. CallOK(AtRest, h, storedKey', everStored') /\ h \in {NoKey, storedKey'}
      BY <1>1, <1>2, <1>3, AtRestIsUnread, UnreadOK
    <2> QED
      BY <1>3, <1>4, <1>5, <1>6, <2>1, <2>2, ProcessSteps
  <1>8. CASE /\ held' = IF c.op = "rotate" THEN [held EXCEPT ![p] = storedKey] ELSE held
             /\ cached' = [cached EXCEPT ![p] =
                    IF c.op = "rotate" THEN Nothing
                    ELSE [n \in DOMAIN @ \cup {c.name} |-> IF n = c.name THEN c.value ELSE @[n]]]
             /\ Ends(p)
    <2>1. PICK d : Unread(d) /\ doing' = [doing EXCEPT ![p] = d]
      BY <1>8, EndsWithUnread
    <2>2. PICK g : g = IF c.op = "rotate" THEN storedKey ELSE h
      OBVIOUS
    <2>3. PICK f : f = IF c.op = "rotate" THEN Nothing
                       ELSE [n \in DOMAIN e \cup {c.name} |-> IF n = c.name THEN c.value ELSE e[n]]
      OBVIOUS
    <2>4. held' = [held EXCEPT ![p] = g]
      BY <1>1, <1>2, <1>8, <2>2
    <2>5. cached' = [cached EXCEPT ![p] = f]
      BY <1>2, <1>8, <2>3
    <2>6. CacheOK(f, everStored')
      <3>1. CASE c.op = "rotate"
        BY <2>3, <3>1, NothingCached
      <3>2. CASE c.op # "rotate"
        <4>1. c.name \in DOMAIN c.data /\ c.data[c.name].value = c.value
          BY <1>1, <1>2, <1>3, <3>2 DEF CallOK
        <4>2. <<c.name, c.value>> \in everStored'
          BY <1>4, <4>1 DEF WereStored
        <4>3. PICK n, v : n = c.name /\ v = c.value
          OBVIOUS
        <4>4. f = [m \in DOMAIN e \cup {n} |-> IF m = n THEN v ELSE e[m]]
          BY <2>3, <3>2, <4>3
        <4>5. CacheOK([m \in DOMAIN e \cup {n} |-> IF m = n THEN v ELSE e[m]], everStored')
          BY <1>6, <4>2, <4>3, CacheGrows
        <4> QED
          BY <4>4, <4>5
      <3> QED
        BY <3>1, <3>2
    <2>7. g \in {NoKey, storedKey'}
      BY <1>1, <1>2, <1>3, <2>2
    <2>8. CallOK(d, g, storedKey', everStored')
      BY <2>1, UnreadOK
    <2> QED
      BY <1>3, <1>4, <1>5, <2>1, <2>4, <2>5, <2>6, <2>7, <2>8, ProcessSteps
  <1> QED
    BY <1>2, <1>7, <1>8 DEF UpdateSecrets

LEMMA SecretsStepKeeps == SecretsFollow /\ [SecretsNext]_secretVars => SecretsFollow'
  <1> SUFFICES ASSUME SecretsFollow, [SecretsNext]_secretVars PROVE SecretsFollow'
    OBVIOUS
  <1>1. CASE UNCHANGED secretVars
    BY <1>1 DEF secretVars, SecretsFollow
  <1>2. CASE SecretsAreMade
    <2>1. StoreOK(Nothing, storedKey, everStored)
      BY DEF StoreOK, Nothing, WithKey, WereStored
    <2> QED
      BY <1>2, <2>1 DEF SecretsAreMade, SecretsFollow
  <1>3. CASE KeyAges
    BY <1>3 DEF KeyAges, SecretsFollow
  <1>4. ASSUME NEW p \in Processes,
               \/ LoadConfig(p) \/ RotateEncryptionKey(p)
               \/ \E n \in Configured : GetSecret(p, n) \/ \E v \in SecretValues : SetSecret(p, n, v)
               \/ CheckRotationNeeded(p) \/ RequestFails(p) \/ Restart(p)
        PROVE  SecretsFollow'
    BY <1>4, CallBegins
  <1>5. ASSUME NEW p \in Processes,
               \/ ReadSecrets(p) \/ ReadKey(p) \/ UseKey(p) \/ UpdateSecrets(p)
               \/ \E k \in Keys : CreateKey(p, k) \/ Rekey(p, k)
        PROVE  SecretsFollow'
    BY <1>5, ReadSecretsKeeps, ReadKeyKeeps, UseKeyKeeps, UpdateSecretsKeeps, CreateKeyKeeps, RekeyKeeps
  <1> QED
    BY <1>1, <1>2, <1>3, <1>4, <1>5 DEF SecretsNext

LEMMA SecretsChecked == SecretsFollow => SecretsInv
  <1> SUFFICES ASSUME SecretsFollow PROVE SecretsInv
    OBVIOUS
  <1>1. SecretsReadable
    BY DEF SecretsFollow, StoreOK, WithKey, SecretsReadable, Readable
  <1>2. HeldIsStored
    BY DEF SecretsFollow, HeldIsStored
  <1>3. CachedWasStored
    BY DEF SecretsFollow, CacheOK, CachedWasStored
  <1> QED
    BY <1>1, <1>2, <1>3 DEF SecretsInv


-----------------------------------------------------------------------------
(* The log *)

LogIds == GivenIds \cup {NoId} \cup Nat

\* A task with id now, scopes to restore before, and ids mine, the innermost last.
TaskOK(now, before, mine) ==
    /\ before \in Seq(LogIds) /\ mine \in Seq(LogIds)
    /\ Len(mine) = Len(before) + 1 /\ now = mine[Len(mine)]
    /\ \A i \in 1 .. Len(before) : before[i] = mine[i]
    /\ \A i \in 2 .. Len(mine) : mine[i] \in GivenIds \cup {NoId} \/ mine[i - 1] \in {NoId, mine[i]}

Rising(s) == \A i, j \in DOMAIN s : i < j => s[i] < s[j]
Below(S, T) == \A x \in S, y \in T : x < y

\* The records r, those queued in q, and those captured in c or dropped in d.
HandledOK(r, q, c, d) ==
    /\ r \in Seq([error : BOOLEAN, seen : BOOLEAN]) /\ q \in Seq(Nat) /\ c \in Seq(Nat)
    /\ Rising(q) /\ Rising(c) /\ Below(ToSet(c) \cup d, ToSet(q))
    /\ ToSet(q) \cup ToSet(c) \cup d \subseteq DOMAIN r
    /\ \A n \in ToSet(q) : r[n].seen
    /\ \A n \in ToSet(c) \cup d : r[n].seen /\ r[n].error
    /\ \A n \in DOMAIN r : r[n].seen /\ r[n].error => n \in ToSet(q) \cup ToSet(c) \cup d

LEMMA TaskBegins ==
  ASSUME NEW id \in LogIds
  PROVE  TaskOK(id, <<>>, <<id>>)
  BY DEF TaskOK

LEMMA ScopeBegins ==
  ASSUME NEW now, NEW before, NEW mine, TaskOK(now, before, mine),
         NEW id \in LogIds, id \in GivenIds \/ now \in {NoId, id}
  PROVE  TaskOK(id, Append(before, now), Append(mine, id))
  <1> DEFINE b == Append(before, now)
             m == Append(mine, id)
  <1>1. /\ before \in Seq(LogIds) /\ mine \in Seq(LogIds) /\ Len(mine) = Len(before) + 1 /\ now = mine[Len(mine)]
        /\ Len(before) \in Nat /\ Len(mine) \in Nat /\ now \in LogIds
    BY DEF TaskOK
  <1>2. /\ b \in Seq(LogIds) /\ Len(b) = Len(before) + 1 /\ \A i \in 1 .. Len(before) : b[i] = before[i]
        /\ b[Len(before) + 1] = now
    BY <1>1, AppendProperties
  <1>3. /\ m \in Seq(LogIds) /\ Len(m) = Len(mine) + 1 /\ \A i \in 1 .. Len(mine) : m[i] = mine[i]
        /\ m[Len(mine) + 1] = id
    BY <1>1, AppendProperties
  <1> HIDE DEF b, m
  <1>4. \A i \in 1 .. Len(b) : b[i] = m[i]
    BY <1>1, <1>2, <1>3 DEF TaskOK
  <1>5. \A i \in 2 .. Len(m) : m[i] \in GivenIds \cup {NoId} \/ m[i - 1] \in {NoId, m[i]}
    <2> SUFFICES ASSUME NEW i \in 2 .. Len(m) PROVE m[i] \in GivenIds \cup {NoId} \/ m[i - 1] \in {NoId, m[i]}
      OBVIOUS
    <2>1. CASE i <= Len(mine)
      <3>1. i \in 2 .. Len(mine) /\ i \in 1 .. Len(mine) /\ i - 1 \in 1 .. Len(mine)
        BY <1>1, <1>3, <2>1
      <3>2. m[i] = mine[i] /\ m[i - 1] = mine[i - 1]
        BY <1>3, <3>1
      <3> QED
        BY <3>1, <3>2 DEF TaskOK
    <2>2. CASE i > Len(mine)
      <3>1. i = Len(mine) + 1 /\ i - 1 = Len(mine) /\ Len(mine) \in 1 .. Len(mine)
        BY <1>1, <1>3, <2>2
      <3>2. m[i] = id /\ m[i - 1] = now
        BY <1>1, <1>3, <3>1
      <3> QED
        BY <3>2
    <2> QED
      BY <1>1, <1>3, <2>1, <2>2
  <1> QED
    BY <1>1, <1>2, <1>3, <1>4, <1>5 DEF TaskOK, b, m

LEMMA ScopeEnds ==
  ASSUME NEW now, NEW before, NEW mine, TaskOK(now, before, mine), before # <<>>
  PROVE  TaskOK(Last(before), Front(before), Front(mine))
  <1> DEFINE b == SubSeq(before, 1, Len(before) - 1)
             m == SubSeq(mine, 1, Len(mine) - 1)
  <1>1. /\ before \in Seq(LogIds) /\ mine \in Seq(LogIds) /\ Len(mine) = Len(before) + 1
        /\ Len(before) \in Nat \ {0} /\ Len(mine) \in Nat
        /\ \A i \in 1 .. Len(before) : before[i] = mine[i]
    BY EmptySeq DEF TaskOK
  <1>2. b \in Seq(LogIds) /\ Len(b) = Len(before) - 1 /\ \A i \in 1 .. Len(before) - 1 : b[i] = before[i]
    <2>1. \A i \in 1 .. Len(before) - 1 : before[i] \in LogIds
      BY <1>1, ElementOfSeq
    <2> DEFINE n == Len(before) - 1
    <2>3. n \in Int /\ n \in Nat /\ 1 \in Int
      BY <1>1
    <2>4. \A i \in 1 .. n : before[i] \in LogIds
      BY <2>1
    <2>2. b = SubSeq(before, 1, n)
      OBVIOUS
    <2> HIDE DEF n, b
    <2>5. /\ SubSeq(before, 1, n) \in Seq(LogIds)
          /\ Len(SubSeq(before, 1, n)) = IF 1 <= n THEN n - 1 + 1 ELSE 0
          /\ \A i \in 1 .. n - 1 + 1 : SubSeq(before, 1, n)[i] = before[1 + i - 1]
      BY <2>3, <2>4, SubSeqProperties
    <2>6. \A i \in 1 .. n : i \in 1 .. n - 1 + 1 /\ 1 + i - 1 = i
      BY <2>3
    <2>7. b \in Seq(LogIds) /\ Len(b) = n
      BY <2>3, <2>5, <2>2
    <2>8. \A i \in 1 .. n : b[i] = before[i]
      BY <2>5, <2>6, <2>2
    <2> QED
      BY <2>7, <2>8 DEF n
  <1>3. m \in Seq(LogIds) /\ Len(m) = Len(mine) - 1 /\ \A i \in 1 .. Len(mine) - 1 : m[i] = mine[i]
    BY <1>1
  <1> HIDE DEF b, m
  <1>4. Len(m) = Len(b) + 1 /\ \A i \in 1 .. Len(b) : b[i] = m[i]
    BY <1>1, <1>2, <1>3
  <1>5. before[Len(before)] = m[Len(m)]
    BY <1>1, <1>3
  <1>6. \A i \in 2 .. Len(m) : m[i] \in GivenIds \cup {NoId} \/ m[i - 1] \in {NoId, m[i]}
    <2> SUFFICES ASSUME NEW i \in 2 .. Len(m) PROVE m[i] \in GivenIds \cup {NoId} \/ m[i - 1] \in {NoId, m[i]}
      OBVIOUS
    <2>1. i \in 2 .. Len(mine) /\ i \in 1 .. Len(mine) - 1 /\ i - 1 \in 1 .. Len(mine) - 1
      BY <1>1, <1>3
    <2>2. m[i] = mine[i] /\ m[i - 1] = mine[i - 1]
      BY <1>3, <2>1
    <2> QED
      BY <2>1, <2>2 DEF TaskOK
  <1> QED
    BY <1>2, <1>3, <1>4, <1>5, <1>6 DEF TaskOK, b, m, Last, Front

LEMMA ContextCleared ==
  ASSUME NEW now, NEW before, NEW mine, TaskOK(now, before, mine)
  PROVE  TaskOK(NoId, before, [mine EXCEPT ![Len(mine)] = NoId])
  <1> DEFINE m == [mine EXCEPT ![Len(mine)] = NoId]
  <1>1. /\ before \in Seq(LogIds) /\ mine \in Seq(LogIds) /\ Len(mine) = Len(before) + 1
        /\ Len(before) \in Nat /\ Len(mine) \in Nat
        /\ \A i \in 1 .. Len(before) : before[i] = mine[i]
    BY DEF TaskOK
  <1>2. Len(mine) \in 1 .. Len(mine) /\ NoId \in LogIds
    BY <1>1 DEF LogIds
  <1>3. /\ m \in Seq(LogIds) /\ Len(m) = Len(mine) /\ m[Len(mine)] = NoId
        /\ \A i \in 1 .. Len(mine) : i # Len(mine) => m[i] = mine[i]
    BY <1>1, <1>2, ExceptSeq
  <1> HIDE DEF m
  <1>4. \A i \in 1 .. Len(before) : before[i] = m[i]
    BY <1>1, <1>3
  <1>5. \A i \in 2 .. Len(m) : m[i] \in GivenIds \cup {NoId} \/ m[i - 1] \in {NoId, m[i]}
    <2> SUFFICES ASSUME NEW i \in 2 .. Len(m) PROVE m[i] \in GivenIds \cup {NoId} \/ m[i - 1] \in {NoId, m[i]}
      OBVIOUS
    <2>1. i \in 2 .. Len(mine) /\ i \in 1 .. Len(mine) /\ i - 1 \in 1 .. Len(mine) /\ i - 1 # Len(mine)
      BY <1>1, <1>3
    <2>2. CASE i # Len(mine)
      <3>1. m[i] = mine[i] /\ m[i - 1] = mine[i - 1]
        BY <1>3, <2>1, <2>2
      <3> QED
        BY <2>1, <3>1 DEF TaskOK
    <2>3. CASE i = Len(mine)
      BY <1>3, <2>3
    <2> QED
      BY <2>2, <2>3
  <1> QED
    BY <1>1, <1>3, <1>4, <1>5 DEF TaskOK, m

-----------------------------------------------------------------------------
(* The handler's queue *)

LEMMA RisingAppended ==
  ASSUME NEW s \in Seq(Nat), Rising(s), NEW n \in Nat, Below(ToSet(s), {n})
  PROVE  /\ Append(s, n) \in Seq(Nat) /\ Rising(Append(s, n))
         /\ ToSet(Append(s, n)) = ToSet(s) \cup {n}
  <1> DEFINE a == Append(s, n)
  <1>1. /\ a \in Seq(Nat) /\ Len(a) = Len(s) + 1 /\ (\A i \in 1 .. Len(s) : a[i] = s[i]) /\ a[Len(s) + 1] = n
        /\ Len(s) \in Nat
    BY AppendProperties
  <1>2. DOMAIN s = 1 .. Len(s) /\ DOMAIN a = 1 .. Len(s) + 1
    BY <1>1
  <1> HIDE DEF a
  <1>3. \A i \in DOMAIN s : s[i] < n /\ s[i] \in Nat
    BY DEF Below, ToSet
  <1>4. Rising(a)
    <2> SUFFICES ASSUME NEW i \in DOMAIN a, NEW j \in DOMAIN a, i < j PROVE a[i] < a[j]
      BY DEF Rising
    <2>1. i \in DOMAIN s /\ a[i] = s[i]
      BY <1>1, <1>2
    <2>2. CASE j \in DOMAIN s
      BY <1>1, <1>2, <2>1, <2>2 DEF Rising
    <2>3. CASE j \notin DOMAIN s
      <3>1. a[j] = n
        BY <1>1, <1>2, <2>3
      <3> QED
        BY <1>3, <2>1, <3>1
    <2> QED
      BY <2>2, <2>3
  <1>5. ToSet(a) = ToSet(s) \cup {n}
    <2>1. ASSUME NEW x \in ToSet(a) PROVE x \in ToSet(s) \cup {n}
      <3>1. PICK i \in DOMAIN a : x = a[i]
        BY <2>1 DEF ToSet
      <3> QED
        BY <1>1, <1>2, <3>1, SMTT(30) DEF ToSet
    <2>2. ASSUME NEW x \in ToSet(s) \cup {n} PROVE x \in ToSet(a)
      <3>1. CASE x = n
        BY <1>1, <1>2, <3>1 DEF ToSet
      <3>2. CASE x \in ToSet(s)
        <4>1. PICK i \in DOMAIN s : x = s[i]
          BY <3>2 DEF ToSet
        <4> QED
          BY <1>1, <1>2, <4>1 DEF ToSet
      <3> QED
        BY <2>2, <3>1, <3>2
    <2> QED
      BY <2>1, <2>2
  <1> QED
    BY <1>1, <1>4, <1>5 DEF a

LEMMA RisingTail ==
  ASSUME NEW s \in Seq(Nat), Rising(s), s # <<>>
  PROVE  /\ Tail(s) \in Seq(Nat) /\ Rising(Tail(s)) /\ Head(s) \in ToSet(s)
         /\ ToSet(Tail(s)) = ToSet(s) \ {Head(s)} /\ Below({Head(s)}, ToSet(Tail(s)))
  <1> DEFINE t == Tail(s)
             h == Head(s)
  <1>1. /\ t \in Seq(Nat) /\ Len(t) = Len(s) - 1 /\ h = s[1] /\ Len(s) \in Nat \ {0}
        /\ \A i \in 1 .. Len(t) : t[i] = s[i + 1]
    BY EmptySeq, HeadTailProperties
  <1>2. DOMAIN s = 1 .. Len(s) /\ DOMAIN t = 1 .. Len(s) - 1 /\ 1 \in DOMAIN s
    BY <1>1
  <1>3. \A i \in DOMAIN s : s[i] \in Nat
    BY <1>2, ElementOfSeq
  <1> HIDE DEF t, h
  <1>a. \A i \in DOMAIN t : i \in 1 .. Len(t) /\ i \in Nat /\ i + 1 \in DOMAIN s /\ 1 < i + 1
    BY <1>1, <1>2, SMTT(30)
  <1>4. \A i \in DOMAIN t : i + 1 \in DOMAIN s /\ t[i] = s[i + 1] /\ h < t[i]
    <2> SUFFICES ASSUME NEW i \in DOMAIN t PROVE i + 1 \in DOMAIN s /\ t[i] = s[i + 1] /\ h < t[i]
      OBVIOUS
    <2>1. t[i] = s[i + 1]
      BY <1>1, <1>a
    <2>2. s[1] < s[i + 1]
      BY <1>2, <1>a DEF Rising
    <2> QED
      BY <1>1, <1>a, <2>1, <2>2
  <1>5. Rising(t)
    <2> SUFFICES ASSUME NEW i \in DOMAIN t, NEW j \in DOMAIN t, i < j PROVE t[i] < t[j]
      BY DEF Rising
    <2>1. i + 1 < j + 1
      BY <1>a
    <2> QED
      BY <1>4, <2>1 DEF Rising
  <1>6. ToSet(t) = ToSet(s) \ {h}
    <2>1. ASSUME NEW x \in ToSet(t) PROVE x \in ToSet(s) \ {h}
      <3>1. PICK i \in DOMAIN t : x = t[i]
        BY <2>1 DEF ToSet
      <3>2. s[i + 1] \in Nat /\ h \in Nat
        BY <1>1, <1>2, <1>3, <1>4
      <3> QED
        BY <1>4, <3>1, <3>2 DEF ToSet
    <2>2. ASSUME NEW x \in ToSet(s) \ {h} PROVE x \in ToSet(t)
      <3>1. PICK i \in DOMAIN s : x = s[i]
        BY <2>2 DEF ToSet
      <3>2. i # 1 /\ i - 1 \in DOMAIN t /\ (i - 1) + 1 = i
        BY <1>1, <1>2, <2>2, <3>1, SMTT(30)
      <3>3. x = t[i - 1]
        BY <1>4, <3>1, <3>2
      <3> QED
        BY <3>2, <3>3 DEF ToSet
    <2> QED
      BY <2>1, <2>2
  <1>7. h \in ToSet(s)
    BY <1>1, <1>2 DEF ToSet
  <1>8. Below({h}, ToSet(t))
    BY <1>4 DEF Below, ToSet
  <1> QED
    BY <1>1, <1>5, <1>6, <1>7, <1>8 DEF t, h

-----------------------------------------------------------------------------
(* The steps of the log *)

\* The tasks with their contexts as now, before and mine.
TasksOK(now, before, mine) == \A t \in LogTasks : TaskOK(now[t], before[t], mine[t])

LEMMA TaskMoves ==
  ASSUME NEW now, NEW before, NEW mine, TasksOK(now, before, mine), NEW t \in LogTasks,
         NEW n, NEW b, NEW m, TaskOK(n, b, m),
         now = [x \in LogTasks |-> now[x]], before = [x \in LogTasks |-> before[x]], mine = [x \in LogTasks |-> mine[x]]
  PROVE  TasksOK([now EXCEPT ![t] = n], [before EXCEPT ![t] = b], [mine EXCEPT ![t] = m])
  <1> DEFINE n1 == [now EXCEPT ![t] = n]
             b1 == [before EXCEPT ![t] = b]
             m1 == [mine EXCEPT ![t] = m]
  <1>1. \A x \in LogTasks : /\ n1[x] = IF x = t THEN n ELSE now[x]
                            /\ b1[x] = IF x = t THEN b ELSE before[x]
                            /\ m1[x] = IF x = t THEN m ELSE mine[x]
    OBVIOUS
  <1> HIDE DEF n1, b1, m1
  <1>2. ASSUME NEW x \in LogTasks PROVE TaskOK(n1[x], b1[x], m1[x])
    <2>1. CASE x = t
      BY <1>1, <2>1
    <2>2. CASE x # t
      <3>1. n1[x] = now[x] /\ b1[x] = before[x] /\ m1[x] = mine[x]
        BY <1>1, <2>2
      <3> QED
        BY <3>1 DEF TasksOK
    <2> QED
      BY <2>1, <2>2
  <1>3. TasksOK(n1, b1, m1)
    BY <1>2 DEF TasksOK
  <1> QED
    BY <1>3 DEF n1, b1, m1

\* What the tasks and their contexts are, and that of the handler.
ContextFollows ==
    /\ generated \in Nat /\ started \in SUBSET LogTasks
    /\ context = [t \in LogTasks |-> context[t]] /\ previous = [t \in LogTasks |-> previous[t]]
    /\ own = [t \in LogTasks |-> own[t]]
    /\ TasksOK(context, previous, own)
    /\ \A t \in LogTasks \ started : previous[t] = <<>>

HandlerFollows == capturing \in BOOLEAN /\ HandledOK(records, sentryQueue, captured, dropped)

LEMMA HandlerBegins == HandledOK(<<>>, <<>>, <<>>, {})
  <1>1. /\ <<>> \in Seq([error : BOOLEAN, seen : BOOLEAN]) /\ <<>> \in Seq(Nat)
        /\ DOMAIN <<>> = {}
    OBVIOUS
  <1>2. ToSet(<<>>) = {}
    BY <1>1 DEF ToSet
  <1> HIDE DEF ToSet
  <1> QED
    BY <1>1, <1>2 DEF HandledOK, Rising, Below

LEMMA RecordWritten ==
  ASSUME NEW r, NEW q, NEW c, NEW d, HandledOK(r, q, c, d), NEW e \in BOOLEAN, NEW on \in BOOLEAN
  PROVE  HandledOK(Append(r, [error |-> e, seen |-> on]), IF on THEN Append(q, Len(r) + 1) ELSE q, c, d)
  <1> DEFINE new == [error |-> e, seen |-> on]
             r1 == Append(r, new)
             n == Len(r) + 1
  <1>1. r \in Seq([error : BOOLEAN, seen : BOOLEAN]) /\ new \in [error : BOOLEAN, seen : BOOLEAN]
    BY DEF HandledOK
  <1>2. /\ r1 \in Seq([error : BOOLEAN, seen : BOOLEAN]) /\ Len(r1) = Len(r) + 1
        /\ (\A i \in 1 .. Len(r) : r1[i] = r[i]) /\ r1[n] = new /\ Len(r) \in Nat
    BY <1>1, AppendProperties
  <1>3. DOMAIN r = 1 .. Len(r) /\ DOMAIN r1 = 1 .. Len(r) + 1
    BY <1>1, <1>2
  <1>4. new.error = e /\ new.seen = on
    OBVIOUS
  <1> HIDE DEF r1, new
  <1>5. /\ n \in Nat /\ n \notin DOMAIN r /\ DOMAIN r1 = DOMAIN r \cup {n}
        /\ \A i \in DOMAIN r : i \in Nat /\ i < n /\ r1[i] = r[i]
    BY <1>2, <1>3
  <1> HIDE DEF n
  <1>6. /\ q \in Seq(Nat) /\ c \in Seq(Nat) /\ Rising(q) /\ Rising(c) /\ Below(ToSet(c) \cup d, ToSet(q))
        /\ ToSet(q) \cup ToSet(c) \cup d \subseteq DOMAIN r
        /\ (\A x \in ToSet(q) : r[x].seen) /\ (\A x \in ToSet(c) \cup d : r[x].seen /\ r[x].error)
        /\ \A x \in DOMAIN r : r[x].seen /\ r[x].error => x \in ToSet(q) \cup ToSet(c) \cup d
    BY DEF HandledOK
  <1>7. CASE on
    <2> DEFINE q1 == Append(q, n)
    <2>1. Below(ToSet(q), {n})
      BY <1>5, <1>6 DEF Below
    <2>2. q1 \in Seq(Nat) /\ Rising(q1) /\ ToSet(q1) = ToSet(q) \cup {n}
      BY <1>5, <1>6, <2>1, RisingAppended
    <2> HIDE DEF q1
    <2>3. Below(ToSet(c) \cup d, ToSet(q1))
      BY <1>5, <1>6, <2>2 DEF Below
    <2>4. ToSet(q1) \cup ToSet(c) \cup d \subseteq DOMAIN r1
      BY <1>5, <1>6, <2>2
    <2>5. (\A x \in ToSet(q1) : r1[x].seen) /\ (\A x \in ToSet(c) \cup d : r1[x].seen /\ r1[x].error)
      BY <1>2, <1>4, <1>5, <1>6, <1>7, <2>2 DEF n
    <2>6. \A x \in DOMAIN r1 : r1[x].seen /\ r1[x].error => x \in ToSet(q1) \cup ToSet(c) \cup d
      BY <1>5, <1>6, <2>2
    <2>7. HandledOK(r1, q1, c, d)
      BY <1>2, <1>6, <2>2, <2>3, <2>4, <2>5, <2>6 DEF HandledOK
    <2> QED
      BY <1>7, <2>7 DEF q1, n, r1, new
  <1>8. CASE ~on
    <2>1. ToSet(q) \cup ToSet(c) \cup d \subseteq DOMAIN r1
      BY <1>5, <1>6
    <2>2. (\A x \in ToSet(q) : r1[x].seen) /\ (\A x \in ToSet(c) \cup d : r1[x].seen /\ r1[x].error)
      BY <1>5, <1>6
    <2>3. ~r1[n].seen
      BY <1>2, <1>4, <1>8
    <2>4. \A x \in DOMAIN r1 : r1[x].seen /\ r1[x].error => x \in ToSet(q) \cup ToSet(c) \cup d
      BY <1>5, <1>6, <2>3
    <2>5. HandledOK(r1, q, c, d)
      BY <1>2, <1>6, <2>1, <2>2, <2>4 DEF HandledOK
    <2> QED
      BY <1>8, <2>5 DEF r1, new
  <1> QED
    BY <1>7, <1>8

\* A record is sent, or thrown away; sending an error may fail.
LEMMA RecordSent ==
  ASSUME NEW r, NEW q, NEW c, NEW d, HandledOK(r, q, c, d), q # <<>>, NEW sent \in BOOLEAN
  PROVE  HandledOK(r, Tail(q), IF r[Head(q)].error /\ sent THEN Append(c, Head(q)) ELSE c,
                   IF r[Head(q)].error /\ ~sent THEN d \cup {Head(q)} ELSE d)
  <1> DEFINE t == Tail(q)
             h == Head(q)
  <1>1. /\ r \in Seq([error : BOOLEAN, seen : BOOLEAN])
        /\ q \in Seq(Nat) /\ c \in Seq(Nat) /\ Rising(q) /\ Rising(c) /\ Below(ToSet(c) \cup d, ToSet(q))
        /\ ToSet(q) \cup ToSet(c) \cup d \subseteq DOMAIN r
        /\ (\A x \in ToSet(q) : r[x].seen) /\ (\A x \in ToSet(c) \cup d : r[x].seen /\ r[x].error)
        /\ \A x \in DOMAIN r : r[x].seen /\ r[x].error => x \in ToSet(q) \cup ToSet(c) \cup d
    BY DEF HandledOK
  <1>2. /\ t \in Seq(Nat) /\ Rising(t) /\ h \in ToSet(q)
        /\ ToSet(t) = ToSet(q) \ {h} /\ Below({h}, ToSet(t))
    BY <1>1, RisingTail
  <1> HIDE DEF t, h
  <1>3. h \in Nat /\ h \in DOMAIN r
    BY <1>1, <1>2
  <1>4. CASE r[h].error /\ sent
    <2> DEFINE c1 == Append(c, h)
    <2>1. Below(ToSet(c), {h})
      BY <1>1, <1>2 DEF Below
    <2>2. c1 \in Seq(Nat) /\ Rising(c1) /\ ToSet(c1) = ToSet(c) \cup {h}
      BY <1>1, <1>3, <2>1, RisingAppended
    <2> HIDE DEF c1
    <2>3. Below(ToSet(c1) \cup d, ToSet(t))
      BY <1>1, <1>2, <2>2 DEF Below
    <2>4. HandledOK(r, t, c1, d)
      BY <1>1, <1>2, <1>4, <2>2, <2>3 DEF HandledOK
    <2> QED
      BY <1>4, <2>4 DEF c1, h, t
  <1>5. CASE r[h].error /\ ~sent
    <2>1. Below(ToSet(c) \cup (d \cup {h}), ToSet(t))
      BY <1>1, <1>2 DEF Below
    <2>2. HandledOK(r, t, c, d \cup {h})
      BY <1>1, <1>2, <1>5, <2>1 DEF HandledOK
    <2> QED
      BY <1>5, <2>2 DEF h, t
  <1>6. CASE ~r[h].error
    <2>1. Below(ToSet(c) \cup d, ToSet(t))
      BY <1>1, <1>2 DEF Below
    <2>2. HandledOK(r, t, c, d)
      BY <1>1, <1>2, <1>6, <2>1 DEF HandledOK
    <2> QED
      BY <1>6, <2>2 DEF h, t
  <1> QED
    BY <1>4, <1>5, <1>6 DEF h, t

LEMMA LogInitially == LogInit => ContextFollows /\ HandlerFollows
  <1> SUFFICES ASSUME LogInit PROVE ContextFollows /\ HandlerFollows
    OBVIOUS
  <1>1. NoId \in LogIds
    BY DEF LogIds
  <1>2. TaskOK(NoId, <<>>, <<NoId>>)
    BY <1>1, TaskBegins
  <1>3. TasksOK(context, previous, own)
    BY <1>2 DEF LogInit, TasksOK
  <1>4. ContextFollows
    BY <1>3 DEF LogInit, ContextFollows
  <1>5. HandlerFollows
    BY HandlerBegins DEF LogInit, HandlerFollows
  <1> QED
    BY <1>4, <1>5

\* A task with context n, scopes to restore b and own ids m in its place.
LEMMA TaskInPlace ==
  ASSUME ContextFollows, NEW t \in LogTasks, NEW n, NEW b, NEW m, TaskOK(n, b, m),
         context' = [context EXCEPT ![t] = n], previous' = [previous EXCEPT ![t] = b], own' = [own EXCEPT ![t] = m],
         generated' \in Nat, started' \in SUBSET LogTasks, t \in started', started \subseteq started'
  PROVE  ContextFollows'
  <1>1. TasksOK(context', previous', own')
    BY TaskMoves DEF ContextFollows
  <1>2. /\ context' = [x \in LogTasks |-> context'[x]] /\ previous' = [x \in LogTasks |-> previous'[x]]
        /\ own' = [x \in LogTasks |-> own'[x]]
    BY DEF ContextFollows
  <1>3. \A x \in LogTasks \ started' : previous'[x] = <<>>
    BY DEF ContextFollows
  <1> QED
    BY <1>1, <1>2, <1>3 DEF ContextFollows

LEMMA LogStepKeeps ==
  ASSUME ContextFollows, HandlerFollows, [LogNext]_logVars
  PROVE  ContextFollows' /\ HandlerFollows'
  <1>a. UNCHANGED contextVars => ContextFollows'
    BY DEF ContextFollows, contextVars
  <1>b. UNCHANGED <<records, sentryVars>> => HandlerFollows'
    BY DEF HandlerFollows, sentryVars
  <1>c. UNCHANGED <<records, sentryQueue, captured, dropped>> /\ capturing' \in BOOLEAN => HandlerFollows'
    BY DEF HandlerFollows
  <1>d. \A t \in LogTasks : /\ TaskOK(context[t], previous[t], own[t])
                            /\ previous[t] \in Seq(LogIds) /\ own[t] \in Seq(LogIds) /\ context[t] \in LogIds
    <2> SUFFICES ASSUME NEW t \in LogTasks
                 PROVE  TaskOK(context[t], previous[t], own[t]) /\ previous[t] \in Seq(LogIds)
                        /\ own[t] \in Seq(LogIds) /\ context[t] \in LogIds
      OBVIOUS
    <2>1. TaskOK(context[t], previous[t], own[t])
      BY DEF ContextFollows, TasksOK
    <2>2. /\ previous[t] \in Seq(LogIds) /\ own[t] \in Seq(LogIds) /\ Len(own[t]) = Len(previous[t]) + 1
          /\ context[t] = own[t][Len(own[t])] /\ Len(previous[t]) \in Nat /\ Len(own[t]) \in 1 .. Len(own[t])
      BY <2>1 DEF TaskOK
    <2>3. context[t] \in LogIds
      BY <2>2, ElementOfSeq
    <2> QED
      BY <2>1, <2>2, <2>3
  <1>1. ASSUME NEW t \in LogTasks, NEW id \in GivenIds \cup {NoId}, EnterScope(t, id)
        PROVE  ContextFollows' /\ HandlerFollows'
    <2> DEFINE new == IF id # NoId THEN id ELSE IF context[t] # NoId THEN context[t] ELSE NewId
    <2>1. NewId \in Nat
      BY DEF ContextFollows, NewId
    <2>2. /\ context' = [context EXCEPT ![t] = new] /\ own' = [own EXCEPT ![t] = Append(own[t], new)]
          /\ previous' = [previous EXCEPT ![t] = Append(previous[t], context[t])]
          /\ generated' = (IF new = NewId THEN NewId ELSE generated) /\ t \in started /\ started' = started
          /\ UNCHANGED <<records, sentryVars>>
      BY <1>1 DEF EnterScope
    <2>3. new \in LogIds /\ (new \in GivenIds \/ context[t] \in {NoId, new})
      BY <1>d, <2>1 DEF LogIds
    <2> HIDE DEF new
    <2>4. generated' \in Nat /\ started' \in SUBSET LogTasks
      BY <2>1, <2>2 DEF ContextFollows
    <2>5. TaskOK(new, Append(previous[t], context[t]), Append(own[t], new))
      BY <1>d, <2>3, ScopeBegins
    <2>6. ContextFollows'
      BY <2>2, <2>4, <2>5, TaskInPlace
    <2> QED
      BY <1>b, <2>2, <2>6
  <1>2. ASSUME NEW t \in LogTasks, LeaveScope(t) PROVE ContextFollows' /\ HandlerFollows'
    <2>1. /\ context' = [context EXCEPT ![t] = Last(previous[t])] /\ own' = [own EXCEPT ![t] = Front(own[t])]
          /\ previous' = [previous EXCEPT ![t] = Front(previous[t])] /\ previous[t] # <<>>
          /\ t \in started /\ started' = started /\ generated' = generated
          /\ UNCHANGED <<records, sentryVars>>
      BY <1>2 DEF LeaveScope
    <2>2. TaskOK(Last(previous[t]), Front(previous[t]), Front(own[t]))
      BY <1>d, <2>1, ScopeEnds
    <2>3. generated' \in Nat /\ started' \in SUBSET LogTasks
      BY <2>1 DEF ContextFollows
    <2>4. ContextFollows'
      BY <2>1, <2>2, <2>3, TaskInPlace
    <2> QED
      BY <1>b, <2>1, <2>4
  <1>3. ASSUME NEW t \in LogTasks, ClearContext(t) PROVE ContextFollows' /\ HandlerFollows'
    <2> DEFINE cleared == [own[t] EXCEPT ![Len(own[t])] = NoId]
    <2>1. /\ context' = [context EXCEPT ![t] = NoId] /\ own' = [own EXCEPT ![t] = cleared]
          /\ previous' = previous
          /\ t \in started /\ started' = started /\ generated' = generated
          /\ UNCHANGED <<records, sentryVars>>
      BY <1>3 DEF ClearContext
    <2>2. TaskOK(NoId, previous[t], cleared)
      BY <1>d, ContextCleared
    <2> HIDE DEF cleared
    <2>3. generated' \in Nat /\ started' \in SUBSET LogTasks
      BY <2>1 DEF ContextFollows
    <2>4. previous' = [previous EXCEPT ![t] = previous[t]]
      BY <2>1 DEF ContextFollows
    <2>5. ContextFollows'
      BY <2>1, <2>2, <2>3, <2>4, TaskInPlace
    <2> QED
      BY <1>b, <2>1, <2>5
  <1>4. ASSUME NEW t \in LogTasks, FirstTask(t) PROVE ContextFollows' /\ HandlerFollows'
    <2>1. started = {} /\ started' = {t} /\ UNCHANGED <<context, previous, own, generated, records, sentryVars>>
      BY <1>4 DEF FirstTask
    <2>2. ContextFollows'
      BY <2>1 DEF ContextFollows
    <2> QED
      BY <1>b, <2>1, <2>2
  <1>5. ASSUME NEW t \in LogTasks, NEW u \in LogTasks, StartTask(t, u) PROVE ContextFollows' /\ HandlerFollows'
    <2>1. /\ context' = [context EXCEPT ![u] = context[t]] /\ own' = [own EXCEPT ![u] = <<context[t]>>]
          /\ previous' = previous /\ generated' = generated
          /\ u \notin started /\ started' = started \cup {u}
          /\ UNCHANGED <<records, sentryVars>>
      BY <1>5 DEF StartTask
    <2>2. TaskOK(context[t], <<>>, <<context[t]>>)
      BY <1>d, TaskBegins
    <2>3. previous' = [previous EXCEPT ![u] = <<>>]
      <3>1. previous[u] = <<>> /\ previous = [x \in LogTasks |-> previous[x]]
        BY <2>1 DEF ContextFollows
      <3> QED
        BY <2>1, <3>1
    <2>4. generated' \in Nat /\ started' \in SUBSET LogTasks
      BY <2>1 DEF ContextFollows
    <2>5. ContextFollows'
      BY <2>1, <2>2, <2>3, <2>4, TaskInPlace
    <2> QED
      BY <1>b, <2>1, <2>5
  <1>6. ASSUME NEW error \in BOOLEAN, Log(error) PROVE ContextFollows' /\ HandlerFollows'
    <2> DEFINE r1 == Append(records, [error |-> error, seen |-> capturing])
    <2>1. /\ records' = r1 /\ UNCHANGED <<contextVars, capturing, captured, dropped>>
          /\ sentryQueue' = IF capturing THEN Append(sentryQueue, Len(records')) ELSE sentryQueue
      BY <1>6 DEF Log
    <2>2. Len(r1) = Len(records) + 1
      <3>1. records \in Seq([error : BOOLEAN, seen : BOOLEAN]) /\ capturing \in BOOLEAN
        BY DEF HandlerFollows, HandledOK
      <3>2. [error |-> error, seen |-> capturing] \in [error : BOOLEAN, seen : BOOLEAN]
        BY <3>1
      <3> QED
        BY <3>1, <3>2, AppendProperties
    <2>3. HandledOK(r1, IF capturing THEN Append(sentryQueue, Len(records) + 1) ELSE sentryQueue, captured, dropped)
      BY RecordWritten DEF HandlerFollows
    <2> HIDE DEF r1
    <2>4. sentryQueue' = IF capturing THEN Append(sentryQueue, Len(records) + 1) ELSE sentryQueue
      BY <2>1, <2>2
    <2>5. HandledOK(records', sentryQueue', captured', dropped')
      BY <2>1, <2>3, <2>4
    <2>6. HandlerFollows'
      BY <2>1, <2>5 DEF HandlerFollows
    <2> QED
      BY <1>a, <2>1, <2>6
  <1>7. ASSUME NEW sent \in BOOLEAN, SendNext(sent) PROVE ContextFollows' /\ HandlerFollows'
    <2>1. /\ sentryQueue # <<>> /\ sentryQueue' = Tail(sentryQueue)
          /\ captured' = (IF records[Head(sentryQueue)].error /\ sent THEN Append(captured, Head(sentryQueue)) ELSE captured)
          /\ dropped' = (IF records[Head(sentryQueue)].error /\ ~sent THEN dropped \cup {Head(sentryQueue)} ELSE dropped)
          /\ UNCHANGED <<contextVars, records, capturing>>
      BY <1>7 DEF SendNext
    <2>2. HandledOK(records', sentryQueue', captured', dropped')
      BY <2>1, RecordSent DEF HandlerFollows
    <2>3. HandlerFollows'
      BY <2>1, <2>2 DEF HandlerFollows
    <2> QED
      BY <1>a, <2>1, <2>3
  <1>8. StartCapturing \/ StopCapturing => ContextFollows' /\ HandlerFollows'
    BY <1>a, <1>c DEF StartCapturing, StopCapturing
  <1>9. UNCHANGED logVars => ContextFollows' /\ HandlerFollows'
    BY <1>a, <1>b DEF logVars
  <1> QED
    BY <1>1, <1>2, <1>3, <1>4, <1>5, <1>6, <1>7, <1>8, <1>9 DEF LogNext

LEMMA LogChecked ==
  ASSUME ContextFollows, HandlerFollows
  PROVE  LogInv
  <1>1. ScopesNest
    <2> SUFFICES ASSUME NEW t \in started
                 PROVE  /\ context[t] = Last(own[t]) /\ Len(own[t]) = Len(previous[t]) + 1
                        /\ \A i \in 2 .. Len(own[t]) :
                               own[t][i] \in GivenIds \cup {NoId} \/ own[t][i - 1] \in {NoId, own[t][i]}
      BY DEF ScopesNest
    <2>1. TaskOK(context[t], previous[t], own[t])
      BY DEF ContextFollows, TasksOK
    <2> QED
      BY <2>1 DEF TaskOK, Last
  <1>2. HandledOK(records, sentryQueue, captured, dropped)
    BY DEF HandlerFollows
  <1>3. \A i, j \in DOMAIN captured : i < j => captured[i] < captured[j]
    BY <1>2 DEF HandledOK, Rising
  <1>4. ToSet(sentryQueue) \subseteq Nat
    BY <1>2 DEF HandledOK, ToSet
  <1>5. ToSet(sentryQueue) \cap (ToSet(captured) \cup dropped) = {}
    BY <1>2, <1>4 DEF HandledOK, Below
  <1>6. \A n \in DOMAIN records :
            records[n].error /\ records[n].seen <=>
                \/ n \in ToSet(captured) \cup dropped
                \/ n \in ToSet(sentryQueue) /\ records[n].error
    BY <1>2 DEF HandledOK
  <1>7. ErrorsAreCaptured
    BY <1>3, <1>5, <1>6 DEF ErrorsAreCaptured
  <1> QED
    BY <1>1, <1>7 DEF LogInv


-----------------------------------------------------------------------------
(* Orders *)

\* P puts the members of M into an order.
Puts(P, M) ==
    /\ \A x \in M : <<x, x>> \notin P
    /\ \A x, y \in M : x = y \/ <<x, y>> \in P \/ <<y, x>> \in P
    /\ \A x, y, z \in M : <<x, y>> \in P /\ <<y, z>> \in P => <<x, z>> \in P

Ahead(P, M, e) == {x \in M : <<x, e>> \in P}
RankIn(P, M, e) == Cardinality(Ahead(P, M, e))

LEMMA RanksRise ==
  ASSUME NEW P, NEW M, IsFiniteSet(M), Puts(P, M)
  PROVE  /\ \A e \in M : IsFiniteSet(Ahead(P, M, e)) /\ RankIn(P, M, e) \in 0 .. Cardinality(M) - 1
         /\ \A d, e \in M : <<d, e>> \in P => RankIn(P, M, d) < RankIn(P, M, e)
  <1>0. Cardinality(M) \in Nat
    BY FS_CardinalityType
  <1>1. ASSUME NEW e \in M
        PROVE  IsFiniteSet(Ahead(P, M, e)) /\ RankIn(P, M, e) \in 0 .. Cardinality(M) - 1
    <2>1. PICK T : T = M \ {e}
      OBVIOUS
    <2>2. IsFiniteSet(T) /\ Cardinality(T) = Cardinality(M) - 1
      BY <2>1, FS_RemoveElement
    <2>3. PICK A : A = Ahead(P, M, e)
      OBVIOUS
    <2>4. A \in SUBSET T
      BY <2>1, <2>3 DEF Ahead, Puts
    <2>5. IsFiniteSet(A) /\ Cardinality(A) <= Cardinality(T)
      BY <2>2, <2>4, FS_Subset
    <2>6. Cardinality(A) \in Nat
      BY <2>5, FS_CardinalityType
    <2> QED
      BY <1>0, <2>2, <2>3, <2>5, <2>6 DEF RankIn
  <1>2. ASSUME NEW d \in M, NEW e \in M, <<d, e>> \in P PROVE RankIn(P, M, d) < RankIn(P, M, e)
    <2>1. PICK A, B : A = Ahead(P, M, d) /\ B = Ahead(P, M, e)
      OBVIOUS
    <2>2. A \subseteq B /\ d \in B /\ d \notin A
      BY <1>2, <2>1 DEF Ahead, Puts
    <2>3. IsFiniteSet(A) /\ IsFiniteSet(B) /\ Cardinality(A) \in Nat /\ Cardinality(B) \in Nat
      BY <1>1, <2>1, FS_CardinalityType
    <2>4. Cardinality(A) <= Cardinality(B) /\ Cardinality(A) # Cardinality(B)
      BY <2>2, <2>3, FS_Subset
    <2> QED
      BY <2>1, <2>3, <2>4 DEF RankIn
  <1> QED
    BY <1>1, <1>2

LEMMA RanksDiffer ==
  ASSUME NEW P, NEW M, IsFiniteSet(M), Puts(P, M), NEW d \in M, NEW e \in M, RankIn(P, M, d) = RankIn(P, M, e)
  PROVE  d = e
  <1>1. RankIn(P, M, d) \in Nat /\ RankIn(P, M, e) \in Nat
    BY RanksRise, FS_CardinalityType
  <1>2. <<d, e>> \notin P /\ <<e, d>> \notin P
    BY <1>1, RanksRise
  <1> QED
    BY <1>2 DEF Puts

\* Every rank up to the number of members is that of a member.
LEMMA RanksReach ==
  ASSUME NEW P, NEW M, IsFiniteSet(M), Puts(P, M), NEW n \in Nat, n < Cardinality(M)
  PROVE  \E e \in M : RankIn(P, M, e) = n
  <1>0. Cardinality(M) \in Nat
    BY FS_CardinalityType
  <1>1. PICK T : T = 0 .. Cardinality(M) - 1
    OBVIOUS
  <1>2. IsFiniteSet(T) /\ Cardinality(T) = Cardinality(M)
    BY <1>0, <1>1, FS_Interval
  <1>3. PICK f : f = [e \in M |-> RankIn(P, M, e)]
    OBVIOUS
  <1>4. \A e \in M : f[e] \in T
    BY <1>1, <1>3, RanksRise
  <1>5. f \in [M -> T]
    BY <1>3, <1>4
  <1>6. \A d, e \in M : f[d] = f[e] => d = e
    BY <1>3, RanksDiffer
  <1>7. f \in Injection(M, T)
    BY <1>5, <1>6 DEF Injection, IsInjective
  <1>8. f \in Surjection(M, T)
    BY <1>2, <1>7, FS_Injection
  <1>9. n \in T
    BY <1>0, <1>1
  <1> QED
    BY <1>3, <1>8, <1>9 DEF Surjection

-----------------------------------------------------------------------------
(* Rows in order *)

Keyed(S, key) == S \subseteq Nat /\ IsFiniteSet(S) /\ \A i \in S : key[i] \in Int
Pairs(S, key, desc) == {p \in S \X S : Before(key, desc, p[1], p[2])}

LEMMA KeysPut ==
  ASSUME NEW S, NEW key, Keyed(S, key), NEW desc \in BOOLEAN
  PROVE  /\ Puts(Pairs(S, key, desc), S)
         /\ \A i \in S : Ahead(Pairs(S, key, desc), S, i) = Earlier(S, key, desc, i)
  <1>1. \A i, j \in S : <<i, j>> \in Pairs(S, key, desc) <=> Before(key, desc, i, j)
    BY DEF Pairs
  <1>2. \A i \in S : i \in Nat /\ key[i] \in Int
    BY DEF Keyed
  <1>3. /\ \A i \in S : ~Before(key, desc, i, i)
        /\ \A i, j \in S : i = j \/ Before(key, desc, i, j) \/ Before(key, desc, j, i)
        /\ \A i, j, k \in S : Before(key, desc, i, j) /\ Before(key, desc, j, k) => Before(key, desc, i, k)
    BY <1>2 DEF Before
  <1>4. Puts(Pairs(S, key, desc), S)
    BY <1>1, <1>3 DEF Puts
  <1>5. \A i \in S : Ahead(Pairs(S, key, desc), S, i) = Earlier(S, key, desc, i)
    BY <1>1 DEF Ahead, Earlier
  <1> QED
    BY <1>4, <1>5

\* The n-th in order has as many before it as there must be.
LEMMA OrderReached ==
  ASSUME NEW S, NEW key, Keyed(S, key), NEW desc \in BOOLEAN, NEW o, o = InOrder(S, key, desc)
  PROVE  /\ Cardinality(S) \in Nat /\ DOMAIN o = 1 .. Cardinality(S)
         /\ \A n \in 1 .. Cardinality(S) : o[n] \in S /\ Cardinality(Earlier(S, key, desc, o[n])) = n - 1
  <1>0. IsFiniteSet(S) /\ Cardinality(S) \in Nat
    BY FS_CardinalityType DEF Keyed
  <1>1. DOMAIN o = 1 .. Cardinality(S)
    BY DEF InOrder
  <1>2. ASSUME NEW n \in 1 .. Cardinality(S)
        PROVE  o[n] \in S /\ Cardinality(Earlier(S, key, desc, o[n])) = n - 1
    <2>1. n - 1 \in Nat /\ n - 1 < Cardinality(S)
      BY <1>0
    <2>2. \E i \in S : RankIn(Pairs(S, key, desc), S, i) = n - 1
      BY <1>0, <2>1, KeysPut, RanksReach
    <2>3. \E i \in S : Cardinality(Earlier(S, key, desc, i)) = n - 1
      BY <2>2, KeysPut DEF RankIn
    <2>4. o[n] = CHOOSE i \in S : Cardinality(Earlier(S, key, desc, i)) = n - 1
      BY DEF InOrder
    <2> QED
      BY <2>3, <2>4
  <1> QED
    BY <1>0, <1>1, <1>2


-----------------------------------------------------------------------------
(* Events read back *)

\* Those after a version are the last ones.
LEMMA LastEvents ==
  ASSUME AloneInv, NEW d \in Devices, NEW v \in Nat, v <= Len(events[d])
  PROVE  /\ RowsAfter(d, v) = SubSeq(events[d], v + 1, Len(events[d]))
         /\ DOMAIN RowsAfter(d, v) = 1 .. Len(events[d]) - v
         /\ \A n \in 1 .. Len(events[d]) - v : RowsAfter(d, v)[n] = events[d][v + n]
  <1> DEFINE key == [i \in DOMAIN events[d] |-> events[d][i].version]
  <1>1. PICK es \in Seq(Stored), l \in Nat : es = events[d] /\ l = Len(es)
    BY DEF AloneInv, TypeOK
  <1>2. DOMAIN es = 1 .. l /\ v <= l
    BY <1>1
  <1>3. \A i \in 1 .. l : es[i].version = i
    BY <1>1, <1>2 DEF AloneInv, EventsNumbered
  <1>4. PICK S : S = {i \in DOMAIN events[d] : events[d][i].version > v}
    OBVIOUS
  <1>5. S = (v + 1) .. l
    BY <1>1, <1>2, <1>3, <1>4
  <1>6. IsFiniteSet(S) /\ Cardinality(S) = l - v
    <2>1. v + 1 \in Int /\ l \in Int
      BY <1>1
    <2>2. IsFiniteSet((v + 1) .. l) /\ Cardinality((v + 1) .. l) = IF v + 1 > l THEN 0 ELSE l - (v + 1) + 1
      BY <2>1, FS_Interval
    <2>3. v + 1 > l => l - v = 0
      BY <1>2
    <2>4. l - (v + 1) + 1 = l - v
      BY <1>2
    <2> QED
      BY <1>5, <2>2, <2>3, <2>4
  <1>7. \A i \in S : key[i] = i
    BY <1>1, <1>2, <1>3, <1>5
  <1>8. PICK k : k = key
    OBVIOUS
  <1> HIDE DEF key
  <1>9. Keyed(S, k)
    BY <1>5, <1>6, <1>7, <1>8 DEF Keyed
  <1>10. PICK o : o = InOrder(S, k, FALSE)
    OBVIOUS
  <1>11. /\ DOMAIN o = 1 .. l - v
         /\ \A n \in 1 .. l - v : o[n] \in S /\ Cardinality(Earlier(S, k, FALSE, o[n])) = n - 1
    <2>1. PICK b \in BOOLEAN : b = FALSE
      OBVIOUS
    <2>2. o = InOrder(S, k, b)
      BY <1>10, <2>1
    <2>3. /\ Cardinality(S) \in Nat /\ DOMAIN o = 1 .. Cardinality(S)
          /\ \A n \in 1 .. Cardinality(S) : o[n] \in S /\ Cardinality(Earlier(S, k, b, o[n])) = n - 1
      BY <1>9, <2>2, OrderReached
    <2> QED
      BY <1>6, <2>1, <2>3
  <1>12. \A i \in S : Earlier(S, k, FALSE, i) = (v + 1) .. (i - 1)
    <2> SUFFICES ASSUME NEW i \in S PROVE Earlier(S, k, FALSE, i) = (v + 1) .. (i - 1)
      OBVIOUS
    <2>0. \A j \in S : k[j] = j /\ j \in Int
      BY <1>5, <1>7, <1>8
    <2>1. \A j \in S : Before(k, FALSE, j, i) <=> j < i
      BY <2>0 DEF Before
    <2>2. \A j : j \in Earlier(S, k, FALSE, i) <=> j \in S /\ j < i
      BY <2>1 DEF Earlier
    <2>3. \A j : j \in S /\ j < i <=> j \in (v + 1) .. (i - 1)
      BY <1>2, <1>5
    <2> QED
      BY <2>2, <2>3
  <1>13. \A n \in 1 .. l - v : o[n] = v + n
    <2> SUFFICES ASSUME NEW n \in 1 .. l - v PROVE o[n] = v + n
      OBVIOUS
    <2>1. PICK i \in S : i = o[n]
      BY <1>11
    <2>2. Cardinality((v + 1) .. (i - 1)) = n - 1
      BY <1>11, <1>12, <2>1
    <2>3. i \in Int /\ v + 1 \in Int /\ i - 1 \in Int /\ v + 1 <= i
      BY <1>5
    <2>4. Cardinality((v + 1) .. (i - 1)) = IF v + 1 > i - 1 THEN 0 ELSE i - 1 - (v + 1) + 1
      BY <2>3, FS_Interval
    <2> QED
      BY <2>1, <2>2, <2>3, <2>4, SMTT(30)
  <1>14. PICK r : r = RowsAfter(d, v)
    OBVIOUS
  <1>15. r = [n \in DOMAIN o |-> events[d][o[n]]]
    BY <1>4, <1>8, <1>10, <1>14 DEF RowsAfter, key
  <1>16. DOMAIN r = 1 .. l - v /\ \A n \in 1 .. l - v : r[n] = es[v + n]
    BY <1>1, <1>11, <1>13, <1>15
  <1>17. \A n \in 1 .. l - v : v + n \in 1 .. l /\ es[v + n] \in Stored
    <2>1. \A n \in 1 .. l - v : v + n \in 1 .. l
      BY <1>2
    <2> QED
      BY <1>1, <2>1, ElementOfSeq
  <1>18. r \in Seq(Stored) /\ Len(r) = l - v
    <2>1. PICK m \in Nat : m = l - v
      BY <1>2
    <2>2. r = [n \in 1 .. m |-> es[v + n]] /\ \A n \in 1 .. m : es[v + n] \in Stored
      BY <1>15, <1>16, <1>17, <2>1
    <2>3. r \in [1 .. m -> Stored]
      BY <2>2
    <2>4. r \in Seq(Stored)
      BY <2>3, SeqDef
    <2>5. DOMAIN r = 1 .. m /\ DOMAIN r = 1 .. Len(r) /\ Len(r) \in Nat
      BY <2>3, <2>4, LenProperties
    <2> QED
      BY <2>1, <2>4, <2>5
  <1>19. PICK s : s = SubSeq(es, v + 1, l)
    OBVIOUS
  <1>20. s \in Seq(Stored) /\ Len(s) = l - v /\ \A n \in 1 .. l - v : s[n] = es[v + n]
    <2>1. v + 1 \in Int /\ l \in Int /\ \A i \in v + 1 .. l : es[i] \in Stored
      BY <1>1, <1>2, ElementOfSeq
    <2>2. /\ s \in Seq(Stored) /\ Len(s) = IF v + 1 <= l THEN l - (v + 1) + 1 ELSE 0
          /\ \A i \in 1 .. l - (v + 1) + 1 : s[i] = es[v + 1 + i - 1]
      BY <1>19, <2>1, SubSeqProperties
    <2>3. Len(s) = l - v
      BY <1>2, <2>2
    <2>4. \A n \in 1 .. l - v : n \in 1 .. l - (v + 1) + 1 /\ v + 1 + n - 1 = v + n
      BY <1>2
    <2> QED
      BY <2>2, <2>3, <2>4
  <1>21. r = s
    BY <1>16, <1>18, <1>20, SeqEqual
  <1> QED
    BY <1>1, <1>14, <1>16, <1>19, <1>21

\* A client's command is in its events, and in those of its device that the row does not have yet.
Unsaved(c) ==
    /\ \A i \in DOMAIN pending[c] : pending[c][i].cmd = cmd[c]
    /\ pc[c] = "stored" /\ rows[dev[c]] # NoRow =>
          /\ rows[dev[c]].version <= Len(events[dev[c]])
          /\ \A i \in DOMAIN events[dev[c]] : i > rows[dev[c]].version => events[dev[c]][i].cmd = cmd[c]

AloneReads == AloneInv /\ \A c \in Clients : Unsaved(c)

LEMMA ReadsInitially == StoreInit => AloneReads
  BY AloneInitially DEF StoreInit, AloneReads, Unsaved

LEMMA ReadsStored ==
  ASSUME AloneReads, NEW c \in Clients, StoreEvents(c), TypeOK', \A o \in Clients : o = c
  PROVE  Unsaved(c)'
  <1>0. AloneInv /\ Unsaved(c)
    BY DEF AloneReads
  <1>1. /\ pc[c] = "checked" /\ pc'[c] = "stored" /\ pending'[c] = <<>> /\ UNCHANGED <<rows, dev, cmd>>
        /\ events' = [events EXCEPT ![dev[c]] = @ \o Numbered(pending[c], Expected(c))]
    BY <1>0 DEF StoreEvents, AloneInv, TypeOK
  <1>2. PICK d \in Devices : d = dev[c]
    BY <1>0, <1>1 DEF AloneInv, TypeOK
  <1>3. PICK b \in Nat : b = Len(events[d]) /\ events[d] \in Seq(Stored)
    BY <1>0 DEF AloneInv, TypeOK
  <1>4. PICK es \in Seq(Event) : es = pending[c]
    BY <1>0 DEF AloneInv, TypeOK
  <1>5. Expected(c) = b
    BY <1>0, <1>1, <1>2, <1>3, AloneIsCurrent
  <1>6. PICK new \in Seq(Stored) : new = Numbered(es, b) /\ Len(new) = Len(es)
    BY NumberedType
  <1>7. \A i \in 1 .. Len(es) : new[i].cmd = cmd[c]
    <2>1. \A i \in DOMAIN es : new[i].cmd = es[i].cmd /\ es[i].cmd = cmd[c]
      BY <1>0, <1>4, <1>6 DEF Numbered, Unsaved
    <2> QED
      BY <2>1
  <1>8. PICK old \in Seq(Stored) : old = events[d]
    BY <1>3
  <1>9. events'[d] = old \o new
    BY <1>0, <1>1, <1>2, <1>4, <1>5, <1>6, <1>8 DEF AloneInv, TypeOK
  <1>10. /\ Len(old \o new) = b + Len(es) /\ Len(es) \in Nat
         /\ \A i \in 1 .. b + Len(es) : i > b => (old \o new)[i] = new[i - b]
    <2>1. Len(old) = b /\ Len(new) = Len(es) /\ Len(es) \in Nat
      BY <1>3, <1>4, <1>6, <1>8
    <2>2. /\ Len(old \o new) = Len(old) + Len(new)
          /\ \A i \in 1 .. Len(old) + Len(new) :
                (old \o new)[i] = IF i <= Len(old) THEN old[i] ELSE new[i - Len(old)]
      BY ConcatProperties
    <2> QED
      BY <2>1, <2>2
  <1>11. DOMAIN events'[d] = 1 .. b + Len(es) /\ Len(events'[d]) = b + Len(es)
    <2>1. events'[d] \in Seq(Stored)
      BY DEF TypeOK
    <2> QED
      BY <1>9, <1>10, <2>1, LenProperties
  <1>12. rows[d] # NoRow => rows[d].version = b
    BY <1>0, <1>1, <1>2, <1>3 DEF AloneInv, VersionMatchesEvents
  <1>13. rows[d] # NoRow => \A i \in DOMAIN events'[d] : i > rows[d].version => events'[d][i].cmd = cmd[c]
    <2> SUFFICES ASSUME rows[d] # NoRow, NEW i \in DOMAIN events'[d], i > rows[d].version
                 PROVE  events'[d][i].cmd = cmd[c]
      OBVIOUS
    <2>1. i \in 1 .. b + Len(es) /\ i > b /\ i - b \in 1 .. Len(es)
      BY <1>10, <1>11, <1>12
    <2>2. events'[d][i] = new[i - b]
      BY <1>9, <1>10, <2>1
    <2> QED
      BY <1>7, <2>1, <2>2
  <1>14. rows[d] # NoRow => rows[d].version <= Len(events'[d])
    BY <1>10, <1>11, <1>12
  <1>15. \A i \in DOMAIN pending'[c] : pending'[c][i].cmd = cmd'[c]
    BY <1>1
  <1>16. rows' = rows /\ dev'[c] = d /\ cmd'[c] = cmd[c]
    BY <1>1, <1>2
  <1> QED
    BY <1>13, <1>14, <1>15, <1>16 DEF Unsaved

LEMMA ReadsNext ==
  ASSUME AloneReads, Alone, PlainKinds, ~Faults, [StoreNext]_vars
  PROVE  AloneReads'
  <1>0. AloneInv /\ AloneInv' /\ \A c \in Clients : Unsaved(c)
    BY AloneNext DEF AloneReads
  <1>a. TypeOK /\ TypeOK' /\ VersionMatchesEvents
    BY <1>0 DEF AloneInv
  <1>1. CASE UNCHANGED vars
    BY <1>0, <1>1 DEF vars, clientVars, AloneReads, Unsaved
  <1>2. ASSUME NEW c \in Clients, NEW d \in Devices,
               \/ \E s \in Serials : Register(c, d, s)
               \/ \E kind \in Kinds : Change(c, d, kind)
        PROVE  Unsaved(c)'
    <2>1. PICK entity \in Row, types \in Seq(EventTypes) : Begin(c, d, entity, types)
      BY <1>0, <1>2, LevelCommand DEF Alone
    <2>2. /\ pc'[c] = "loaded" /\ pending'[c] = [i \in DOMAIN types |-> [type |-> types[i], cmd |-> commands']]
          /\ cmd'[c] = IF types = <<>> THEN 0 ELSE commands'
      BY <1>a, <2>1 DEF Begin, TypeOK
    <2>3. types = <<>> => DOMAIN types = {}
      OBVIOUS
    <2>4. \A i \in DOMAIN pending'[c] : pending'[c][i].cmd = cmd'[c]
      BY <2>2, <2>3
    <2> QED
      BY <2>2, <2>4 DEF Unsaved
  <1>3. ASSUME NEW c \in Clients, LoadExisting(c) PROVE Unsaved(c)'
    <2>1. pc[c] = "loaded" /\ UNCHANGED <<rows, events, dev, cmd, pending>> /\ dev[c] \in Devices
      BY <1>3, <1>a DEF LoadExisting, TypeOK
    <2>2. rows[dev[c]] # NoRow => rows[dev[c]].version = Len(events[dev[c]])
      BY <1>a, <2>1 DEF VersionMatchesEvents, Alone
    <2>3. events[dev[c]] \in Seq(Stored) /\ Len(events[dev[c]]) \in Nat /\ DOMAIN events[dev[c]] = 1 .. Len(events[dev[c]])
      BY <1>a, <2>1, LenProperties DEF TypeOK
    <2>4. rows[dev[c]] # NoRow => /\ rows[dev[c]].version <= Len(events[dev[c]])
                                  /\ \A i \in DOMAIN events[dev[c]] : ~(i > rows[dev[c]].version)
      BY <2>2, <2>3
    <2> QED
      BY <1>0, <2>1, <2>4 DEF Unsaved
  <1>4. ASSUME NEW c \in Clients, CheckVersion(c) PROVE Unsaved(c)'
    BY <1>0, <1>4, <1>a DEF CheckVersion, TypeOK, Unsaved
  <1>5. ASSUME NEW c \in Clients, Conflict(c) PROVE FALSE
    BY <1>0, <1>5, AloneIsCurrent DEF Conflict
  <1>6. ASSUME NEW c \in Clients, StoreEvents(c) PROVE Unsaved(c)'
    BY <1>6, <1>a, ReadsStored DEF Alone
  <1>7. ASSUME NEW c \in Clients, CommitRow(c) PROVE Unsaved(c)'
    BY <1>0, <1>7, <1>a DEF CommitRow, TypeOK, Unsaved
  <1>8. ASSUME NEW c \in Clients, Leave(c) PROVE Unsaved(c)'
    <2>1. pc'[c] = "idle" /\ pending'[c] = <<>>
      BY <1>8, <1>a DEF Leave, TypeOK
    <2> QED
      BY <2>1 DEF Unsaved
  <1>9. ASSUME NEW c \in Clients, Fault(c) PROVE FALSE
    BY <1>9 DEF Fault
  <1>10. ASSUME NEW c \in Clients, Unsaved(c)' PROVE AloneReads'
    BY <1>0, <1>10 DEF AloneReads, Alone
  <1> QED
    BY <1>1, <1>2, <1>3, <1>4, <1>5, <1>6, <1>7, <1>8, <1>9, <1>10 DEF StoreNext, Save, RowRefused, CommitUnitOfWork

LEMMA ReadsAreRight ==
  ASSUME AloneReads, Alone
  PROVE  EventReadsInv
  <1>0. AloneInv /\ (\A c \in Clients : Unsaved(c) /\ Level(c)) /\ TypeOK /\ VersionMatchesEvents
    BY DEF AloneReads, AloneInv
  <1>1. ReadsGoOn
    <2> SUFFICES ASSUME NEW d \in Devices, NEW v \in 0 .. Len(events[d])
                 PROVE  LET rest == SubSeq(events[d], v + 1, Len(events[d])) IN
                        GetEvents(d, v) = IF \A i \in DOMAIN rest : rest[i].type = "registered" THEN rest ELSE ReadFails
      BY DEF ReadsGoOn
    <2>1. events[d] \in Seq(Stored) /\ Len(events[d]) \in Nat
      BY <1>0 DEF TypeOK
    <2>2. v \in Nat /\ v <= Len(events[d])
      BY <2>1
    <2>3. RowsAfter(d, v) = SubSeq(events[d], v + 1, Len(events[d]))
      BY <1>0, <2>2, LastEvents
    <2> QED
      BY <2>3 DEF GetEvents, Deserializable
  <1>2. OnlyUnsavedIsNew
    <2> SUFFICES ASSUME NEW d \in Devices, rows[d] # NoRow, NEW i \in DOMAIN RowsAfter(d, rows[d].version)
                 PROVE  \E c \in Clients : dev[c] = d /\ cmd[c] = RowsAfter(d, rows[d].version)[i].cmd
      BY DEF OnlyUnsavedIsNew
    <2>1. events[d] \in Seq(Stored) /\ Len(events[d]) \in Nat /\ rows[d] \in Row /\ rows[d].version \in Nat
          /\ DOMAIN events[d] = 1 .. Len(events[d])
      BY <1>0, LenProperties DEF TypeOK, Row
    <2>2. PICK c \in Clients : \A o \in Clients : o = c
      BY DEF Alone
    <2>3. PICK v \in Nat : v = rows[d].version
      BY <2>1
    <2>a. v = Len(events[d]) \/ (dev[c] = d /\ pc[c] \in {"stored", "saved"})
      BY <1>0, <2>1, <2>2, <2>3 DEF VersionMatchesEvents
    <2>b. Unsaved(c) /\ Level(c)
      BY <1>0
    <2>c. dev[c] = d /\ pc[c] = "saved" => v = Len(events[d])
      BY <2>3, <2>b DEF Level
    <2>d. dev[c] = d /\ pc[c] = "stored" => v <= Len(events[d])
      BY <2>3, <2>b DEF Unsaved
    <2>4. v < Len(events[d]) => dev[c] = d /\ pc[c] = "stored"
      BY <2>1, <2>a, <2>c
    <2>5. v <= Len(events[d])
      BY <2>1, <2>a, <2>c, <2>d
    <2>6. /\ DOMAIN RowsAfter(d, v) = 1 .. Len(events[d]) - v
          /\ \A n \in 1 .. Len(events[d]) - v : RowsAfter(d, v)[n] = events[d][v + n]
      BY <1>0, <2>5, LastEvents
    <2>7. i \in 1 .. Len(events[d]) - v
      BY <2>3, <2>6
    <2>8. v + i \in 1 .. Len(events[d]) /\ v + i > v /\ v < Len(events[d])
      BY <2>1, <2>7
    <2>9. events[d][v + i].cmd = cmd[c]
      BY <1>0, <2>1, <2>3, <2>4, <2>8 DEF Unsaved
    <2> QED
      BY <2>3, <2>4, <2>6, <2>7, <2>8, <2>9
  <1> QED
    BY <1>1, <1>2 DEF EventReadsInv


-----------------------------------------------------------------------------
(* Changes of an order *)

\* Two orders with the same members but for x, in the same order.
SameBut(P, M, Q, N, x) ==
    /\ IsFiniteSet(M) /\ IsFiniteSet(N) /\ Puts(P, M) /\ Puts(Q, N)
    /\ \A d : d # x => (d \in M <=> d \in N)
    /\ \A d, e \in M : d # x /\ e # x => (<<d, e>> \in P <=> <<d, e>> \in Q)

One(b) == IF b THEN 1 ELSE 0

\* How the rank of e moves when x goes or comes.
Moves(P, M, Q, N, x, e) ==
    /\ RankIn(P, M, e) <= RankIn(Q, N, e) + 1 /\ RankIn(Q, N, e) <= RankIn(P, M, e) + 1
    /\ x \in M \/ RankIn(P, M, e) <= RankIn(Q, N, e)
    /\ x \in N \/ RankIn(Q, N, e) <= RankIn(P, M, e)

\* x counts in the rank of those it is before, and of nobody else.
LEMMA RanksShift ==
  ASSUME NEW P, NEW M, NEW Q, NEW N, NEW x, SameBut(P, M, Q, N, x), NEW e \in M, e # x
  PROVE  /\ e \in N /\ RankIn(P, M, e) \in Nat /\ RankIn(Q, N, e) \in Nat
         /\ Moves(P, M, Q, N, x, e)
         /\ RankIn(P, M, e) < RankIn(Q, N, e) => <<x, e>> \in Q
  <1>1. e \in N /\ IsFiniteSet(M) /\ IsFiniteSet(N) /\ Puts(P, M) /\ Puts(Q, N)
    BY DEF SameBut
  <1>2. PICK A, B : A = Ahead(P, M, e) /\ B = Ahead(Q, N, e)
    OBVIOUS
  <1>3. IsFiniteSet(A) /\ IsFiniteSet(B)
    BY <1>1, <1>2, RanksRise
  <1>4. (x \in A <=> x \in M /\ <<x, e>> \in P) /\ (x \in B <=> x \in N /\ <<x, e>> \in Q)
    BY <1>2 DEF Ahead
  <1>5. \A d : d # x => (d \in A <=> d \in B)
    BY <1>2 DEF Ahead, SameBut
  <1>6. PICK C : C = A \ {x}
    OBVIOUS
  <1>7. C = B \ {x}
    BY <1>5, <1>6
  <1>8. Cardinality(C) = IF x \in A THEN Cardinality(A) - 1 ELSE Cardinality(A)
    BY <1>3, <1>6, FS_RemoveElement
  <1>9. Cardinality(C) = IF x \in B THEN Cardinality(B) - 1 ELSE Cardinality(B)
    BY <1>3, <1>7, FS_RemoveElement
  <1>10. PICK a \in Nat, b \in Nat : a = Cardinality(A) /\ b = Cardinality(B)
    BY <1>3, FS_CardinalityType
  <1>11. /\ a <= b + 1 /\ b <= a + 1
         /\ x \in A \/ a <= b
         /\ x \in B \/ b <= a
    BY <1>8, <1>9, <1>10
  <1>12. Moves(P, M, Q, N, x, e)
    BY <1>2, <1>4, <1>10, <1>11 DEF Moves, RankIn
  <1>13. a < b => <<x, e>> \in Q
    BY <1>4, <1>10, <1>11
  <1> QED
    BY <1>1, <1>2, <1>10, <1>12, <1>13 DEF RankIn

LEMMA OneMore ==
  ASSUME NEW S, IsFiniteSet(S), NEW T, NEW y, T \subseteq S \cup {y}
  PROVE  IsFiniteSet(T) /\ Cardinality(T) \in Nat /\ Cardinality(S) \in Nat /\ Cardinality(T) <= Cardinality(S) + 1
  <1>1. PICK U : U = S \cup {y}
    OBVIOUS
  <1>2. IsFiniteSet(U) /\ Cardinality(U) = IF y \in S THEN Cardinality(S) ELSE Cardinality(S) + 1
    BY <1>1, FS_AddElement
  <1>3. T \in SUBSET U
    BY <1>1
  <1>4. IsFiniteSet(T) /\ Cardinality(T) <= Cardinality(U)
    BY <1>2, <1>3, FS_Subset
  <1> QED
    BY <1>2, <1>4, FS_CardinalityType

LEMMA NoMore ==
  ASSUME NEW S, IsFiniteSet(S), NEW T, T \subseteq S
  PROVE  IsFiniteSet(T) /\ Cardinality(T) \in Nat /\ Cardinality(S) \in Nat /\ Cardinality(T) <= Cardinality(S)
  BY FS_Subset, FS_CardinalityType

\* Members of S that come before the k-th, and members of L that do not.
Under(P, M, S, k) == {d \in S \cap M : RankIn(P, M, d) < k}
From(P, M, L, k) == {d \in L \cap M : RankIn(P, M, d) >= k}
Ranked(P, M, k, l) == {d \in M : RankIn(P, M, d) >= k /\ RankIn(P, M, d) < l}

\* Where x is taken away, one more may come before the k-th.
LEMMA UnderGrows ==
  ASSUME NEW P, NEW M, NEW Q, NEW N, NEW x, SameBut(P, M, Q, N, x), NEW k \in Nat, NEW S
  PROVE  LET A == Under(P, M, S, k)  B == Under(Q, N, S \ {x}, k) IN
         /\ Cardinality(A) \in Nat /\ Cardinality(B) \in Nat
         /\ Cardinality(B) <= Cardinality(A) + One(x \in M)
  <1>1. PICK A, B : A = Under(P, M, S, k) /\ B = Under(Q, N, S \ {x}, k)
    OBVIOUS
  <1>2. IsFiniteSet(A)
    <2>1. IsFiniteSet(M) /\ A \in SUBSET M
      BY <1>1 DEF Under, SameBut
    <2> QED
      BY <2>1, FS_Subset
  <1>3. ASSUME NEW d \in B PROVE /\ d \in M /\ d # x /\ RankIn(Q, N, d) < k /\ d \in S
                                 /\ RankIn(P, M, d) \in Nat /\ RankIn(Q, N, d) \in Nat
                                 /\ Moves(P, M, Q, N, x, d)
                                 /\ (d \in A <=> RankIn(P, M, d) < k)
    <2>1. d \in M /\ d # x /\ RankIn(Q, N, d) < k /\ d \in S
      BY <1>1 DEF Under, SameBut
    <2>2. d \in A <=> RankIn(P, M, d) < k
      BY <1>1, <2>1 DEF Under
    <2>3. /\ d \in N /\ RankIn(P, M, d) \in Nat /\ RankIn(Q, N, d) \in Nat
          /\ Moves(P, M, Q, N, x, d)
          /\ (RankIn(P, M, d) < RankIn(Q, N, d) => <<x, d>> \in Q)
      <3>1. d \in M /\ d # x
        BY <2>1
      <3> QED
        BY <3>1, RanksShift
    <2> QED
      BY <2>1, <2>2, <2>3
  <1>4. CASE x \notin M
    <2>1. ASSUME NEW d \in B PROVE d \in A
      <3>1. PICK r \in Nat, q \in Nat : r = RankIn(P, M, d) /\ q = RankIn(Q, N, d)
        BY <1>3
      <3>2. Moves(P, M, Q, N, x, d) /\ q < k /\ (d \in A <=> r < k)
        BY <1>3, <3>1
      <3>3. r <= q
        BY <1>4, <3>1, <3>2 DEF Moves
      <3> QED
        BY <3>2, <3>3
    <2>a. B \subseteq A
      BY <2>1
    <2> QED
      <3>1. Cardinality(A) \in Nat /\ Cardinality(B) \in Nat /\ Cardinality(B) <= Cardinality(A)
        BY <1>2, <2>a, NoMore
      <3>2. One(x \in M) = 0
        BY <1>4 DEF One
      <3> QED
        BY <1>1, <3>1, <3>2
  <1>5. CASE x \in M
    <2>1. ASSUME NEW d \in B, d \notin A PROVE RankIn(P, M, d) = k
      BY <1>3, <2>1 DEF Moves
    <2>2. CASE B \subseteq A
      <3>1. Cardinality(A) \in Nat /\ Cardinality(B) \in Nat /\ Cardinality(B) <= Cardinality(A)
        BY <1>2, <2>2, NoMore
      <3>2. One(x \in M) = 1
        BY <1>5 DEF One
      <3> QED
        BY <1>1, <3>1, <3>2
    <2>3. CASE ~(B \subseteq A)
      <3>1. PICK y \in B : y \notin A
        BY <2>3
      <3>2. IsFiniteSet(M) /\ Puts(P, M)
        BY DEF SameBut
      <3>3. ASSUME NEW d \in B, d \notin A PROVE d = y
        <4>1. d \in M /\ y \in M /\ RankIn(P, M, d) = k /\ RankIn(P, M, y) = k
          BY <1>3, <2>1, <3>1, <3>3
        <4>2. RankIn(P, M, d) = RankIn(P, M, y)
          BY <4>1
        <4> QED
          BY <3>2, <4>1, <4>2, RanksDiffer
      <3>4. B \subseteq A \cup {y}
        BY <3>3
      <3>5. /\ Cardinality(A) \in Nat /\ Cardinality(B) \in Nat
            /\ Cardinality(B) <= Cardinality(A) + 1
        BY <1>2, <3>4, OneMore
      <3>6. One(x \in M) = 1
        BY <1>5 DEF One
      <3> QED
        BY <1>1, <3>5, <3>6
    <2> QED
      BY <2>2, <2>3
  <1> QED
    BY <1>1, <1>4, <1>5

\* Where x comes, one more may come after the first k.
LEMMA FromGrows ==
  ASSUME NEW P, NEW M, NEW Q, NEW N, NEW x, SameBut(P, M, Q, N, x), NEW k \in Nat, NEW L
  PROVE  LET A == From(P, M, L, k)  B == From(Q, N, L, k) IN
         /\ Cardinality(A) \in Nat /\ Cardinality(B) \in Nat
         /\ Cardinality(B) <= Cardinality(A) + One(x \in N)
  <1>0. IsFiniteSet(M) /\ IsFiniteSet(N) /\ Puts(P, M) /\ Puts(Q, N)
    BY DEF SameBut
  <1>1. PICK A, B : A = From(P, M, L, k) /\ B = From(Q, N, L, k)
    OBVIOUS
  <1>2. IsFiniteSet(A)
    <2>1. A \in SUBSET M
      BY <1>1 DEF From
    <2> QED
      BY <1>0, <2>1, FS_Subset
  <1>3. ASSUME NEW d \in B, d # x
        PROVE  /\ d \in M /\ d \in N /\ RankIn(Q, N, d) >= k /\ d \in L
               /\ RankIn(P, M, d) \in Nat /\ RankIn(Q, N, d) \in Nat
               /\ Moves(P, M, Q, N, x, d)
               /\ (RankIn(P, M, d) < RankIn(Q, N, d) => <<x, d>> \in Q)
               /\ (d \in A <=> RankIn(P, M, d) >= k)
    <2>1. d \in M /\ d \in N /\ RankIn(Q, N, d) >= k /\ d \in L
      BY <1>1, <1>3 DEF From, SameBut
    <2>2. d \in A <=> RankIn(P, M, d) >= k
      BY <1>1, <2>1 DEF From
    <2> QED
      BY <1>3, <2>1, <2>2, RanksShift
  <1>4. CASE x \notin N
    <2>1. \A d \in B : d # x
      BY <1>1, <1>4 DEF From
    <2>a. ASSUME NEW d \in B PROVE d \in A
      <3>1. PICK r \in Nat, q \in Nat : r = RankIn(P, M, d) /\ q = RankIn(Q, N, d)
        BY <1>3, <2>1
      <3>2. Moves(P, M, Q, N, x, d) /\ q >= k /\ (d \in A <=> r >= k)
        BY <1>3, <2>1, <3>1
      <3>3. q <= r
        BY <1>4, <3>1, <3>2 DEF Moves
      <3> QED
        BY <3>2, <3>3
    <2>2. B \subseteq A
      BY <2>a
    <2> QED
      <3>1. Cardinality(A) \in Nat /\ Cardinality(B) \in Nat /\ Cardinality(B) <= Cardinality(A)
        BY <1>2, <2>2, NoMore
      <3>2. One(x \in N) = 0
        BY <1>4 DEF One
      <3> QED
        BY <1>1, <3>1, <3>2
  <1>5. CASE x \in N
    <2>1. ASSUME NEW d \in B, d # x, d \notin A PROVE RankIn(Q, N, d) = k /\ <<x, d>> \in Q /\ d \in N
      BY <1>3, <2>1 DEF Moves
    <2>2. CASE B \subseteq A
      <3>1. Cardinality(A) \in Nat /\ Cardinality(B) \in Nat /\ Cardinality(B) <= Cardinality(A)
        BY <1>2, <2>2, NoMore
      <3>2. One(x \in N) = 1
        BY <1>5 DEF One
      <3> QED
        BY <1>1, <3>1, <3>2
    <2>3. CASE x \in B
      <3>1. ASSUME NEW d \in B, d # x PROVE d \in A
        <4> SUFFICES ASSUME d \notin A PROVE FALSE
          OBVIOUS
        <4>1. RankIn(Q, N, d) = k /\ <<x, d>> \in Q /\ d \in N
          BY <2>1, <3>1
        <4>2. RankIn(Q, N, x) < RankIn(Q, N, d)
          BY <1>0, <1>5, <4>1, RanksRise
        <4>3. RankIn(Q, N, x) >= k /\ RankIn(Q, N, x) \in Int
          BY <1>0, <1>1, <1>5, <2>3, RanksRise, FS_CardinalityType DEF From
        <4> QED
          BY <4>1, <4>2, <4>3
      <3>2. B \subseteq A \cup {x}
        BY <3>1
      <3>5. /\ Cardinality(A) \in Nat /\ Cardinality(B) \in Nat
            /\ Cardinality(B) <= Cardinality(A) + 1
        BY <1>2, <3>2, OneMore
      <3>6. One(x \in N) = 1
        BY <1>5 DEF One
      <3> QED
        BY <1>1, <3>5, <3>6
    <2>4. CASE x \notin B /\ ~(B \subseteq A)
      <3>1. PICK y \in B : y \notin A
        BY <2>4
      <3>2. ASSUME NEW d \in B, d \notin A PROVE d = y
        <4>1. d # x /\ y # x
          BY <2>4
        <4>2. d \in N /\ y \in N /\ RankIn(Q, N, d) = k /\ RankIn(Q, N, y) = k
          BY <2>1, <3>1, <3>2, <4>1
        <4>3. RankIn(Q, N, d) = RankIn(Q, N, y)
          BY <4>2
        <4> QED
          BY <1>0, <4>2, <4>3, RanksDiffer
      <3>3. B \subseteq A \cup {y}
        BY <3>2
      <3>5. /\ Cardinality(A) \in Nat /\ Cardinality(B) \in Nat
            /\ Cardinality(B) <= Cardinality(A) + 1
        BY <1>2, <3>3, OneMore
      <3>6. One(x \in N) = 1
        BY <1>5 DEF One
      <3> QED
        BY <1>1, <3>5, <3>6
    <2> QED
      BY <2>2, <2>3, <2>4
  <1> QED
    BY <1>1, <1>4, <1>5

\* A page of those from the k-th up to the l-th.
LEMMA PageTurned ==
  ASSUME NEW P, NEW M, IsFiniteSet(M), Puts(P, M), NEW k \in Nat, NEW l \in Nat, k <= l,
         NEW L, IsFiniteSet(L), NEW W, W = Ranked(P, M, k, l), NEW S
  PROVE  /\ Under(P, M, S \ (L \cup W), l) \subseteq Under(P, M, S \ L, k)
         /\ IsFiniteSet(L \cup W) /\ Cardinality(W) \in Nat /\ Cardinality(L) \in Nat /\ Cardinality(L \cup W) \in Nat
         /\ Cardinality(From(P, M, L, k)) \in Nat /\ Cardinality(From(P, M, L \cup W, l)) \in Nat
         /\ Cardinality(From(P, M, L \cup W, l)) + Cardinality(L) + Cardinality(W)
                <= Cardinality(From(P, M, L, k)) + Cardinality(L \cup W)
  <1>0. \A d \in M : RankIn(P, M, d) \in Nat
    BY RanksRise, FS_CardinalityType DEF RankIn
  <1>a. \A d : d \in W <=> d \in M /\ RankIn(P, M, d) >= k /\ RankIn(P, M, d) < l
    BY DEF Ranked
  <1>1. Under(P, M, S \ (L \cup W), l) \subseteq Under(P, M, S \ L, k)
    BY <1>0, <1>a DEF Under
  <1>2. IsFiniteSet(W) /\ Cardinality(W) \in Nat /\ Cardinality(L) \in Nat
    <2>1. W \in SUBSET M
      BY <1>a
    <2> QED
      BY <2>1, FS_Subset, FS_CardinalityType
  <1>3. PICK I : I = L \cap W
    OBVIOUS
  <1>4. /\ IsFiniteSet(L \cup W)
        /\ Cardinality(L \cup W) = Cardinality(L) + Cardinality(W) - Cardinality(I)
    BY <1>2, <1>3, FS_Union
  <1>5. PICK A, B : A = From(P, M, L, k) /\ B = From(P, M, L \cup W, l)
    OBVIOUS
  <1>6. /\ A \in SUBSET M /\ B \in SUBSET M /\ I \in SUBSET M
        /\ B \cup I \subseteq A /\ B \cap I = {}
    BY <1>0, <1>a, <1>3, <1>5 DEF From
  <1>7. IsFiniteSet(A) /\ IsFiniteSet(B) /\ IsFiniteSet(I)
    BY <1>6, FS_Subset
  <1>8. Cardinality(A) \in Nat /\ Cardinality(B) \in Nat /\ Cardinality(I) \in Nat /\ Cardinality(L \cup W) \in Nat
    BY <1>4, <1>7, FS_CardinalityType
  <1>9. Cardinality(B \cup I) = Cardinality(B) + Cardinality(I)
    <2>1. Cardinality(B \cup I) = Cardinality(B) + Cardinality(I) - Cardinality(B \cap I)
      BY <1>7, FS_Union
    <2>2. Cardinality(B \cap I) = 0
      BY <1>6, FS_EmptySet
    <2> QED
      BY <1>8, <2>1, <2>2
  <1>10. Cardinality(B \cup I) <= Cardinality(A)
    BY <1>6, <1>7, NoMore
  <1>11. Cardinality(B) + Cardinality(L) + Cardinality(W) <= Cardinality(A) + Cardinality(L \cup W)
    BY <1>2, <1>4, <1>8, <1>9, <1>10
  <1> QED
    BY <1>1, <1>2, <1>4, <1>5, <1>8, <1>11


-----------------------------------------------------------------------------
(* The devices of a query in their order *)

TableRow == [id : ListedDevices, name : DeviceNames, status : Statuses]
Distinct(t) == \A i, j \in DOMAIN t : t[i].id = t[j].id => i = j
TableOK(t) == t \in Seq(TableRow) /\ Distinct(t)

\* The rows of t that match q, the devices they are of, and the order of these.
PlacesOf(t, q) == {i \in DOMAIN t : Satisfies(q, t[i])}
KeysOf(t, q) == [i \in DOMAIN t |-> SortKey(q, t[i])]
FoundBy(t, q) == {t[i].id : i \in PlacesOf(t, q)}
OrderOf(t, q) ==
    {p \in ListedDevices \X ListedDevices :
        \E i, j \in PlacesOf(t, q) : p = <<t[i].id, t[j].id>> /\ Before(KeysOf(t, q), q.desc, i, j)}

\* The image of a set under a function that tells its members apart is as large.
LEMMA ImageSize ==
  ASSUME NEW S, IsFiniteSet(S), NEW f, \A i, j \in S : f[i] = f[j] => i = j,
         NEW T, \A x : x \in T <=> \E i \in S : x = f[i]
  PROVE  IsFiniteSet(T) /\ Cardinality(T) = Cardinality(S)
  <1>1. PICK g : g = [i \in S |-> f[i]]
    OBVIOUS
  <1>2. g \in [S -> T] /\ \A i \in S : g[i] = f[i]
    BY <1>1
  <1>3. g \in Surjection(S, T)
    BY <1>2 DEF Surjection
  <1>4. g \in Injection(S, T)
    BY <1>2 DEF Injection, IsInjective
  <1> QED
    BY <1>3, <1>4, FS_Surjection

LEMMA PlacesAreKeyed ==
  ASSUME NEW t, TableOK(t), NEW q
  PROVE  /\ Keyed(PlacesOf(t, q), KeysOf(t, q)) /\ PlacesOf(t, q) \subseteq DOMAIN t
         /\ \A i \in PlacesOf(t, q) : t[i] \in TableRow /\ t[i].id \in ListedDevices
         /\ \A i \in DOMAIN t : t[i] \in TableRow
  <1>1. t \in Seq(TableRow) /\ Len(t) \in Nat /\ DOMAIN t = 1 .. Len(t)
    BY LenProperties DEF TableOK
  <1>2. \A i \in DOMAIN t : t[i] \in TableRow
    BY <1>1, ElementOfSeq
  <1>3. PICK S : S = PlacesOf(t, q)
    OBVIOUS
  <1>4. S \in SUBSET (1 .. Len(t))
    BY <1>1, <1>3 DEF PlacesOf
  <1>5. IsFiniteSet(S)
    <2>1. 1 \in Int /\ Len(t) \in Int
      BY <1>1
    <2>2. IsFiniteSet(1 .. Len(t))
      BY <2>1, FS_Interval
    <2> QED
      BY <1>4, <2>2, FS_Subset
  <1>6. \A i \in DOMAIN t : SortKey(q, t[i]) \in Int
    <2>1. ASSUME NEW r \in TableRow PROVE SortKey(q, r) \in Int
      <3>1. r.name \in DeviceNames /\ r.status \in Statuses
        BY DEF TableRow
      <3>a. DeviceNames \subseteq Nat
        BY QueryAssumption
      <3>b. PICK n : n = r.name
        OBVIOUS
      <3>c. n \in Nat
        BY <3>1, <3>a, <3>b
      <3>2. r.name \in Int
        BY <3>b, <3>c
      <3>3. r.status \in Int
        BY <3>1 DEF Statuses
      <3> QED
        BY <3>2, <3>3 DEF SortKey
    <2> QED
      BY <1>2, <2>1
  <1>7. Keyed(S, KeysOf(t, q))
    BY <1>1, <1>4, <1>5, <1>6 DEF Keyed, KeysOf
  <1>8. S \subseteq DOMAIN t
    BY <1>1, <1>4
  <1>9. \A i \in S : t[i] \in TableRow /\ t[i].id \in ListedDevices
    BY <1>2, <1>8 DEF TableRow
  <1> QED
    BY <1>2, <1>3, <1>7, <1>8, <1>9

LEMMA DevicesInOrder ==
  ASSUME NEW t, TableOK(t), NEW q, q.desc \in BOOLEAN
  PROVE  /\ IsFiniteSet(FoundBy(t, q)) /\ Cardinality(FoundBy(t, q)) = Cardinality(PlacesOf(t, q))
         /\ Puts(OrderOf(t, q), FoundBy(t, q))
         /\ \A i, j \in PlacesOf(t, q) :
               <<t[i].id, t[j].id>> \in OrderOf(t, q) <=> Before(KeysOf(t, q), q.desc, i, j)
         /\ \A i \in PlacesOf(t, q) :
               RankIn(OrderOf(t, q), FoundBy(t, q), t[i].id) = Cardinality(Earlier(PlacesOf(t, q), KeysOf(t, q), q.desc, i))
  <1>0. PICK desc \in BOOLEAN : desc = q.desc
    OBVIOUS
  <1>1. PICK S, key, M, P :
           S = PlacesOf(t, q) /\ key = KeysOf(t, q) /\ M = FoundBy(t, q) /\ P = OrderOf(t, q) /\ desc = q.desc
    BY <1>0
  <1>2. Keyed(S, key) /\ S \subseteq DOMAIN t /\ \A i \in S : t[i].id \in ListedDevices
    BY <1>1, PlacesAreKeyed
  <1>3. \A i, j \in S : t[i].id = t[j].id => i = j
    BY <1>2 DEF TableOK, Distinct
  <1>4. PICK f : f = [i \in S |-> t[i].id]
    OBVIOUS
  <1>5. (\A i \in S : f[i] = t[i].id /\ f[i] \in ListedDevices) /\ \A i, j \in S : f[i] = f[j] => i = j
    BY <1>2, <1>3, <1>4
  <1>6. \A x : x \in M <=> \E i \in S : x = f[i]
    BY <1>1, <1>5 DEF FoundBy
  <1>7. IsFiniteSet(S)
    BY <1>2 DEF Keyed
  <1>8. IsFiniteSet(M) /\ Cardinality(M) = Cardinality(S)
    BY <1>5, <1>6, <1>7, ImageSize
  <1>9. \A i, j \in S : <<f[i], f[j]>> \in P <=> Before(key, desc, i, j)
    <2>1. \A p : p \in P <=> /\ p \in ListedDevices \X ListedDevices
                             /\ \E i, j \in S : p = <<f[i], f[j]>> /\ Before(key, desc, i, j)
      BY <1>1, <1>5 DEF OrderOf
    <2> QED
      BY <1>5, <2>1
  <1>10. Puts(Pairs(S, key, desc), S)
    BY <1>2, KeysPut
  <1>11. \A i, j \in S : <<i, j>> \in Pairs(S, key, desc) <=> Before(key, desc, i, j)
    BY DEF Pairs
  <1>12. Puts(P, M)
    <2>1. ASSUME NEW x \in M PROVE <<x, x>> \notin P
      <3>1. PICK i \in S : x = f[i]
        BY <1>6
      <3> QED
        BY <1>9, <1>10, <1>11, <3>1 DEF Puts
    <2>2. ASSUME NEW x \in M, NEW y \in M PROVE x = y \/ <<x, y>> \in P \/ <<y, x>> \in P
      <3>1. PICK i \in S, j \in S : x = f[i] /\ y = f[j]
        BY <1>6
      <3>2. i = j \/ <<i, j>> \in Pairs(S, key, desc) \/ <<j, i>> \in Pairs(S, key, desc)
        BY <1>10 DEF Puts
      <3> QED
        BY <1>9, <1>11, <3>1, <3>2
    <2>3. ASSUME NEW x \in M, NEW y \in M, NEW z \in M, <<x, y>> \in P, <<y, z>> \in P PROVE <<x, z>> \in P
      <3>1. PICK i \in S, j \in S, h \in S : x = f[i] /\ y = f[j] /\ z = f[h]
        BY <1>6
      <3>2. <<i, j>> \in Pairs(S, key, desc) /\ <<j, h>> \in Pairs(S, key, desc)
        BY <1>9, <1>11, <2>3, <3>1
      <3>3. <<i, h>> \in Pairs(S, key, desc)
        BY <1>10, <3>2 DEF Puts
      <3> QED
        BY <1>9, <1>11, <3>1, <3>3
    <2> QED
      BY <2>1, <2>2, <2>3 DEF Puts
  <1>13. ASSUME NEW i \in S PROVE RankIn(P, M, f[i]) = Cardinality(Earlier(S, key, desc, i))
    <2>1. PICK A, E : A = Ahead(P, M, f[i]) /\ E = Earlier(S, key, desc, i)
      OBVIOUS
    <2>2. \A x : x \in A <=> \E j \in E : x = f[j]
      <3>1. \A j \in S : j \in E <=> Before(key, desc, j, i)
        BY <2>1 DEF Earlier
      <3>2. \A x : x \in A <=> x \in M /\ <<x, f[i]>> \in P
        BY <2>1 DEF Ahead
      <3>3. E \subseteq S
        BY <2>1 DEF Earlier
      <3> QED
        BY <1>6, <1>9, <3>1, <3>2, <3>3
    <2>3. E \in SUBSET S
      BY <2>1 DEF Earlier
    <2>4. IsFiniteSet(E) /\ \A j, h \in E : f[j] = f[h] => j = h
      BY <1>5, <1>7, <2>3, FS_Subset
    <2>5. Cardinality(A) = Cardinality(E)
      BY <2>2, <2>4, ImageSize
    <2> QED
      BY <2>1, <2>5 DEF RankIn
  <1> QED
    BY <1>1, <1>5, <1>8, <1>9, <1>12, <1>13

\* Tables with the same rows in the same order, but for those of x.
AlikeBut(t, u, x) ==
    /\ \A i \in DOMAIN t : t[i].id # x => \E j \in DOMAIN u : u[j] = t[i]
    /\ \A j \in DOMAIN u : u[j].id # x => \E i \in DOMAIN t : t[i] = u[j]
    /\ \A i, j \in DOMAIN t : \A h, l \in DOMAIN u :
          t[i] = u[h] /\ t[j] = u[l] /\ t[i].id # x /\ t[j].id # x => (i < j <=> h < l)

LEMMA OrderKept ==
  ASSUME NEW t, NEW u, TableOK(t), TableOK(u), NEW x, AlikeBut(t, u, x), NEW q, q.desc \in BOOLEAN
  PROVE  SameBut(OrderOf(t, q), FoundBy(t, q), OrderOf(u, q), FoundBy(u, q), x)
  <1>1. PICK M, N, P, Q : M = FoundBy(t, q) /\ N = FoundBy(u, q) /\ P = OrderOf(t, q) /\ Q = OrderOf(u, q)
    OBVIOUS
  <1>2. IsFiniteSet(M) /\ IsFiniteSet(N) /\ Puts(P, M) /\ Puts(Q, N)
    BY <1>1, DevicesInOrder
  <1>3. ASSUME NEW d, d # x PROVE d \in M <=> d \in N
    BY <1>1, <1>3 DEF FoundBy, PlacesOf, AlikeBut
  <1>4. ASSUME NEW d \in M, NEW e \in M, d # x, e # x PROVE <<d, e>> \in P <=> <<d, e>> \in Q
    <2>1. PICK i \in PlacesOf(t, q), j \in PlacesOf(t, q) : d = t[i].id /\ e = t[j].id
      BY <1>1 DEF FoundBy
    <2>2. i \in DOMAIN t /\ j \in DOMAIN t
      BY DEF PlacesOf
    <2>3. PICK h \in DOMAIN u, l \in DOMAIN u : u[h] = t[i] /\ u[l] = t[j]
      BY <1>4, <2>1, <2>2 DEF AlikeBut
    <2>4. h \in PlacesOf(u, q) /\ l \in PlacesOf(u, q)
      BY <2>3 DEF PlacesOf
    <2>5. i < j <=> h < l
      BY <1>4, <2>1, <2>2, <2>3 DEF AlikeBut
    <2>6. KeysOf(t, q)[i] = KeysOf(u, q)[h] /\ KeysOf(t, q)[j] = KeysOf(u, q)[l]
      BY <2>2, <2>3 DEF KeysOf
    <2>7. Before(KeysOf(t, q), q.desc, i, j) <=> Before(KeysOf(u, q), q.desc, h, l)
      BY <2>5, <2>6 DEF Before
    <2>8. <<t[i].id, t[j].id>> \in P <=> Before(KeysOf(t, q), q.desc, i, j)
      BY <1>1, DevicesInOrder
    <2>9. <<u[h].id, u[l].id>> \in Q <=> Before(KeysOf(u, q), q.desc, h, l)
      BY <1>1, <2>4, DevicesInOrder
    <2> QED
      BY <2>1, <2>3, <2>7, <2>8, <2>9
  <1>5. SameBut(P, M, Q, N, x)
    BY <1>2, <1>3, <1>4 DEF SameBut
  <1> QED
    BY <1>1, <1>5


-----------------------------------------------------------------------------
(* Changes of the table *)

LEMMA RowIsThere ==
  ASSUME NEW t, TableOK(t), NEW q
  PROVE  /\ \A i \in DOMAIN t : t[i].id \in FoundBy(t, q) <=> Satisfies(q, t[i])
         /\ \A x : (\A i \in DOMAIN t : t[i].id # x) => x \notin FoundBy(t, q)
  <1>1. PICK M : M = FoundBy(t, q)
    OBVIOUS
  <1>2. \A x : x \in M <=> \E i \in DOMAIN t : x = t[i].id /\ Satisfies(q, t[i])
    BY <1>1 DEF FoundBy, PlacesOf
  <1>3. \A i, j \in DOMAIN t : t[i].id = t[j].id => i = j
    BY DEF TableOK, Distinct
  <1> QED
    BY <1>1, <1>2, <1>3

LEMMA RowAppended ==
  ASSUME NEW t, TableOK(t), NEW r \in TableRow, \A i \in DOMAIN t : t[i].id # r.id, NEW u, u = Append(t, r)
  PROVE  TableOK(u) /\ AlikeBut(t, u, r.id) /\ Len(u) \in DOMAIN u /\ u[Len(u)] = r
  <1>1. t \in Seq(TableRow) /\ Len(t) \in Nat /\ DOMAIN t = 1 .. Len(t)
    BY LenProperties DEF TableOK
  <1>2. /\ u \in Seq(TableRow) /\ Len(u) = Len(t) + 1 /\ DOMAIN u = 1 .. Len(u)
        /\ \A i \in 1 .. Len(t) : u[i] = t[i]
        /\ u[Len(u)] = r
    <2>1. /\ Append(t, r) \in Seq(TableRow) /\ Append(t, r) # <<>>
          /\ Len(Append(t, r)) = Len(t) + 1
          /\ \A i \in 1 .. Len(t) : Append(t, r)[i] = t[i]
          /\ Append(t, r)[Len(t) + 1] = r
      BY <1>1, AppendProperties
    <2>2. u \in Seq(TableRow)
      BY <2>1
    <2>3. DOMAIN u = 1 .. Len(u)
      BY <2>2, LenProperties
    <2> QED
      BY <2>1, <2>2, <2>3
  <1>3. \A i \in DOMAIN u : (i \in DOMAIN t /\ u[i] = t[i]) \/ (i = Len(u) /\ u[i] = r)
    BY <1>1, <1>2
  <1>4. \A i \in DOMAIN t : i \in DOMAIN u /\ u[i] = t[i] /\ i # Len(u)
    BY <1>1, <1>2
  <1>5. \A i, j \in DOMAIN t : t[i].id = t[j].id => i = j
    BY DEF TableOK, Distinct
  <1>6. \A i, j \in DOMAIN u : u[i].id = u[j].id => i = j
    BY <1>3, <1>5
  <1>7. TableOK(u)
    BY <1>2, <1>6 DEF TableOK, Distinct
  <1>8. AlikeBut(t, u, r.id)
    <2>1. \A i \in DOMAIN t : \A h \in DOMAIN u : t[i] = u[h] => h = i
      BY <1>3, <1>5
    <2> QED
      BY <1>3, <1>4, <2>1 DEF AlikeBut
  <1> QED
    BY <1>1, <1>2, <1>7, <1>8

LEMMA RowChanged ==
  ASSUME NEW t, TableOK(t), NEW r \in TableRow, NEW n \in DOMAIN t, r.id = t[n].id, NEW u, u = [t EXCEPT ![n] = r]
  PROVE  TableOK(u) /\ AlikeBut(t, u, r.id) /\ n \in DOMAIN u /\ u[n] = r
  <1>1. t \in Seq(TableRow) /\ Len(t) \in Nat /\ DOMAIN t = 1 .. Len(t)
    BY LenProperties DEF TableOK
  <1>2. DOMAIN u = DOMAIN t /\ u[n] = r /\ \A i \in DOMAIN t : i # n => u[i] = t[i]
    BY <1>1
  <1>3. u \in Seq(TableRow)
    BY <1>1, ExceptSeq
  <1>5. \A i, j \in DOMAIN t : t[i].id = t[j].id => i = j
    BY DEF TableOK, Distinct
  <1>6. \A i \in DOMAIN t : u[i].id = t[i].id
    BY <1>2
  <1>7. TableOK(u)
    BY <1>2, <1>3, <1>5, <1>6 DEF TableOK, Distinct
  <1>8. AlikeBut(t, u, r.id)
    <2>1. \A i \in DOMAIN t : \A h \in DOMAIN u : t[i] = u[h] => h = i
      BY <1>2, <1>5, <1>6
    <2>2. \A i \in DOMAIN t : t[i].id # r.id => i # n
      OBVIOUS
    <2>3. \A i \in DOMAIN u : u[i].id # r.id => i # n
      BY <1>2
    <2> QED
      BY <1>2, <2>1, <2>2, <2>3 DEF AlikeBut
  <1> QED
    BY <1>2, <1>7, <1>8

LEMMA RowRemoved ==
  ASSUME NEW t, TableOK(t), NEW n \in DOMAIN t, NEW u, u = RemoveAt(t, n)
  PROVE  /\ TableOK(u) /\ AlikeBut(t, u, t[n].id)
         /\ \A i \in DOMAIN u : u[i].id # t[n].id
  <1>1. PICK m : m = Len(t)
    OBVIOUS
  <1>2. t \in Seq(TableRow) /\ m \in Nat /\ DOMAIN t = 1 .. m /\ n \in 1 .. m
    BY <1>1, LenProperties DEF TableOK
  <1>3. PICK a, b : a = SubSeq(t, 1, n - 1) /\ b = SubSeq(t, n + 1, m)
    OBVIOUS
  <1>4. PICK p, o : p = n - 1 /\ o = n + 1
    OBVIOUS
  <1>5. 1 \in Int /\ p \in Int /\ o \in Int /\ m \in Int
    BY <1>2, <1>4
  <1>6. a = SubSeq(t, 1, p) /\ b = SubSeq(t, o, m)
    BY <1>3, <1>4
  <1>7. /\ a \in Seq(TableRow) /\ Len(a) = p
        /\ \A i \in 1 .. p : a[i] = t[i]
    <2>1. \A i \in 1 .. p : t[i] \in TableRow
      BY <1>2, <1>4, ElementOfSeq
    <2>2. /\ SubSeq(t, 1, p) \in Seq(TableRow)
          /\ Len(SubSeq(t, 1, p)) = IF 1 <= p THEN p - 1 + 1 ELSE 0
          /\ \A i \in 1 .. p - 1 + 1 : SubSeq(t, 1, p)[i] = t[1 + i - 1]
      BY <1>2, <1>5, <2>1, SubSeqProperties
    <2> QED
      BY <1>2, <1>4, <1>6, <2>2
  <1>8. /\ b \in Seq(TableRow) /\ Len(b) = m - n
        /\ \A i \in 1 .. m - n : b[i] = t[n + i]
    <2>1. \A i \in o .. m : t[i] \in TableRow
      BY <1>2, <1>4, ElementOfSeq
    <2>2. /\ SubSeq(t, o, m) \in Seq(TableRow)
          /\ Len(SubSeq(t, o, m)) = IF o <= m THEN m - o + 1 ELSE 0
          /\ \A i \in 1 .. m - o + 1 : SubSeq(t, o, m)[i] = t[o + i - 1]
      BY <1>2, <1>5, <2>1, SubSeqProperties
    <2> QED
      BY <1>2, <1>4, <1>6, <2>2
  <1>9. u = a \o b
    BY <1>1, <1>3 DEF RemoveAt
  <1>10. /\ u \in Seq(TableRow) /\ Len(u) = Len(a) + Len(b)
         /\ \A i \in 1 .. Len(a) + Len(b) : u[i] = IF i <= Len(a) THEN a[i] ELSE b[i - Len(a)]
    <2>1. PICK c \in Seq(TableRow), d \in Seq(TableRow) : c = a /\ d = b
      BY <1>7, <1>8
    <2>2. /\ c \o d \in Seq(TableRow)
          /\ Len(c \o d) = Len(c) + Len(d)
          /\ \A i \in 1 .. Len(c) + Len(d) : (c \o d)[i] = IF i <= Len(c) THEN c[i] ELSE d[i - Len(c)]
      BY ConcatProperties
    <2> QED
      BY <1>9, <2>1, <2>2
  <1>11. /\ DOMAIN u = 1 .. m - 1
         /\ \A i \in 1 .. m - 1 : u[i] = IF i < n THEN t[i] ELSE t[i + 1]
    <2>1. DOMAIN u = 1 .. m - 1
      BY <1>2, <1>4, <1>7, <1>8, <1>10, LenProperties
    <2>2. ASSUME NEW i \in 1 .. m - 1 PROVE u[i] = IF i < n THEN t[i] ELSE t[i + 1]
      <3>1. CASE i < n
        BY <1>2, <1>4, <1>7, <1>8, <1>10, <3>1, SMTT(30)
      <3>2. CASE ~(i < n)
        <4>1. i - p \in 1 .. m - n /\ n + (i - p) = i + 1
          BY <1>2, <1>4, <3>2
        <4>2. u[i] = b[i - p]
          BY <1>2, <1>4, <1>7, <1>8, <1>10, <3>2, SMTT(30)
        <4>3. b[i - p] = t[n + (i - p)]
          BY <1>8, <4>1
        <4> QED
          BY <3>2, <4>1, <4>2, <4>3
      <3> QED
        BY <3>1, <3>2
    <2> QED
      BY <2>1, <2>2
  <1>12. \A i, j \in DOMAIN t : t[i].id = t[j].id => i = j
    BY DEF TableOK, Distinct
  <1>13. PICK at : at = [i \in 1 .. m - 1 |-> IF i < n THEN i ELSE i + 1]
    OBVIOUS
  <1>14. /\ \A i \in DOMAIN u : at[i] \in DOMAIN t /\ at[i] # n /\ u[i] = t[at[i]]
         /\ \A i, j \in DOMAIN u : i < j <=> at[i] < at[j]
         /\ \A i, j \in DOMAIN u : at[i] = at[j] => i = j
    BY <1>2, <1>11, <1>13
  <1>15. \A i \in DOMAIN t : i # n => \E j \in DOMAIN u : at[j] = i
    <2>1. ASSUME NEW i \in DOMAIN t, i # n PROVE \E j \in DOMAIN u : at[j] = i
      <3>1. CASE i < n
        <4>1. i \in DOMAIN u /\ at[i] = i
          BY <1>2, <1>11, <1>13, <3>1
        <4> QED
          BY <4>1
      <3>2. CASE i > n
        <4>1. i - 1 \in DOMAIN u /\ at[i - 1] = i
          BY <1>2, <1>11, <1>13, <3>2
        <4> QED
          BY <4>1
      <3> QED
        BY <1>2, <2>1, <3>1, <3>2
    <2> QED
      BY <2>1
  <1>16. TableOK(u)
    BY <1>10, <1>12, <1>14, SMTT(30) DEF TableOK, Distinct
  <1>17. \A i \in DOMAIN u : u[i].id # t[n].id
    BY <1>12, <1>14
  <1>18. AlikeBut(t, u, t[n].id)
    <2>1. \A i \in DOMAIN t : t[i].id # t[n].id => \E j \in DOMAIN u : u[j] = t[i]
      BY <1>14, <1>15
    <2>2. \A j \in DOMAIN u : \E i \in DOMAIN t : t[i] = u[j]
      BY <1>14
    <2>3. \A i \in DOMAIN t : \A h \in DOMAIN u : t[i] = u[h] => i = at[h]
      BY <1>12, <1>14
    <2> QED
      BY <1>14, <2>1, <2>2, <2>3 DEF AlikeBut
  <1> QED
    BY <1>16, <1>17, <1>18


-----------------------------------------------------------------------------
(* The listing *)

Skipped(q) == (q.page - 1) * q.size

LEMMA SkippedType ==
  ASSUME NEW q, q.page \in Nat, q.page >= 1, q.size \in Nat
  PROVE  Skipped(q) \in Nat
  BY DEF Skipped

LEMMA FunctionIsSeq ==
  ASSUME NEW S, NEW n \in Nat, NEW f, DOMAIN f = 1 .. n, \A i \in 1 .. n : f[i] \in S, f = [i \in DOMAIN f |-> f[i]]
  PROVE  f \in Seq(S) /\ Len(f) = n
  <1>1. f \in [1 .. n -> S]
    OBVIOUS
  <1>2. f \in Seq(S)
    BY <1>1, SeqDef
  <1>3. DOMAIN f = 1 .. Len(f) /\ Len(f) \in Nat
    BY <1>2, LenProperties
  <1> QED
    BY <1>2, <1>3

LEMMA MembersOfSeq ==
  ASSUME NEW S, NEW s \in Seq(S)
  PROVE  /\ IsFiniteSet(ToSet(s)) /\ Cardinality(ToSet(s)) \in Nat /\ Cardinality(ToSet(s)) <= Len(s)
         /\ ToSet(s) \subseteq S
  <1>1. Len(s) \in Nat /\ DOMAIN s = 1 .. Len(s) /\ \A i \in 1 .. Len(s) : s[i] \in S
    BY LenProperties, ElementOfSeq
  <1>2. PICK n, T, D : n = Len(s) /\ T = ToSet(s) /\ D = 1 .. n
    OBVIOUS
  <1>3. IsFiniteSet(D) /\ Cardinality(D) = n
    <2>1. 1 \in Int /\ n \in Int /\ n \in Nat
      BY <1>1, <1>2
    <2>2. IsFiniteSet(1 .. n) /\ Cardinality(1 .. n) = IF 1 > n THEN 0 ELSE n - 1 + 1
      BY <2>1, FS_Interval
    <2> QED
      BY <1>2, <2>2
  <1>4. PICK f : f = [i \in D |-> s[i]]
    OBVIOUS
  <1>5. \A x : x \in T <=> \E i \in D : x = f[i]
    BY <1>1, <1>2, <1>4 DEF ToSet
  <1>6. f \in [D -> T] /\ \A x \in T : \E i \in D : f[i] = x
    BY <1>4, <1>5
  <1>7. f \in Surjection(D, T)
    BY <1>6 DEF Surjection
  <1>8. IsFiniteSet(T) /\ Cardinality(T) <= Cardinality(D)
    BY <1>3, <1>7, FS_Surjection
  <1>9. Cardinality(T) \in Nat
    BY <1>8, FS_CardinalityType
  <1>10. T \subseteq S
    BY <1>1, <1>2 DEF ToSet
  <1> QED
    BY <1>2, <1>3, <1>8, <1>9, <1>10

LEMMA MembersJoined ==
  ASSUME NEW S, NEW a \in Seq(S), NEW b \in Seq(S)
  PROVE  /\ a \o b \in Seq(S) /\ Len(a \o b) = Len(a) + Len(b)
         /\ ToSet(a \o b) = ToSet(a) \cup ToSet(b)
  <1>1. PICK m \in Nat, n \in Nat : m = Len(a) /\ n = Len(b)
    BY LenProperties
  <1>2. DOMAIN a = 1 .. m /\ DOMAIN b = 1 .. n
    BY <1>1, LenProperties
  <1>3. /\ a \o b \in Seq(S) /\ Len(a \o b) = Len(a) + Len(b)
        /\ \A i \in 1 .. Len(a) + Len(b) : (a \o b)[i] = IF i <= Len(a) THEN a[i] ELSE b[i - Len(a)]
    BY ConcatProperties
  <1>4. PICK c \in Seq(S) : c = a \o b
    BY <1>3
  <1>5. DOMAIN c = 1 .. m + n /\ \A i \in 1 .. m + n : c[i] = IF i <= m THEN a[i] ELSE b[i - m]
    BY <1>1, <1>3, <1>4, LenProperties
  <1>6. \A i \in 1 .. m : i \in DOMAIN c /\ c[i] = a[i]
    BY <1>5
  <1>7. \A i \in 1 .. n : m + i \in DOMAIN c /\ c[m + i] = b[i]
    BY <1>5
  <1>8. \A i \in DOMAIN c : (i \in 1 .. m /\ c[i] = a[i]) \/ (i - m \in 1 .. n /\ c[i] = b[i - m])
    BY <1>5
  <1>9. PICK A, B, C : A = ToSet(a) /\ B = ToSet(b) /\ C = ToSet(c)
    OBVIOUS
  <1>10. /\ \A x : x \in A <=> \E i \in 1 .. m : x = a[i]
         /\ \A x : x \in B <=> \E i \in 1 .. n : x = b[i]
         /\ \A x : x \in C <=> \E i \in DOMAIN c : x = c[i]
    BY <1>2, <1>9 DEF ToSet
  <1>11. C = A \cup B
    <2>1. \A x \in A : x \in C
      BY <1>6, <1>10
    <2>2. \A x \in B : x \in C
      BY <1>7, <1>10
    <2>3. \A x \in C : x \in A \/ x \in B
      BY <1>8, <1>10
    <2> QED
      BY <2>1, <2>2, <2>3
  <1> QED
    BY <1>3, <1>4, <1>9, <1>11

\* A page's devices are those with the ranks that it stands for.
PageIds(t, q) ==
    LET page == PageOf(q, InOrder(PlacesOf(t, q), KeysOf(t, q), q.desc)) IN [i \in DOMAIN page |-> t[page[i]].id]

LEMMA PageRead ==
  ASSUME NEW t, TableOK(t), NEW q, q.desc \in BOOLEAN, q.page \in Nat, q.page >= 1, q.size \in Nat
  PROVE  /\ Len(InOrder(PlacesOf(t, q), KeysOf(t, q), q.desc)) = Cardinality(FoundBy(t, q))
         /\ PageIds(t, q) \in Seq(ListedDevices)
         /\ Len(PageIds(t, q)) = Cardinality(ToSet(PageIds(t, q)))
         /\ ToSet(PageIds(t, q)) = Ranked(OrderOf(t, q), FoundBy(t, q), Skipped(q), Skipped(q) + q.size)
  <1>0. PICK desc \in BOOLEAN : desc = q.desc
    OBVIOUS
  <1>1. PICK S, key, M, P : S = PlacesOf(t, q) /\ key = KeysOf(t, q) /\ M = FoundBy(t, q) /\ P = OrderOf(t, q)
    OBVIOUS
  <1>2. Keyed(S, key) /\ S \subseteq DOMAIN t /\ \A i \in S : t[i].id \in ListedDevices
    BY <1>1, PlacesAreKeyed
  <1>3. PICK o : o = InOrder(S, key, desc)
    OBVIOUS
  <1>4. /\ Cardinality(S) \in Nat /\ DOMAIN o = 1 .. Cardinality(S)
        /\ \A n \in 1 .. Cardinality(S) : o[n] \in S /\ Cardinality(Earlier(S, key, desc, o[n])) = n - 1
    BY <1>2, <1>3, OrderReached
  <1>5. PICK m \in Nat : m = Cardinality(S)
    BY <1>4
  <1>6. o \in Seq(S) /\ Len(o) = m
    <2>1. o = [i \in DOMAIN o |-> o[i]]
      BY <1>3 DEF InOrder
    <2> QED
      BY <1>4, <1>5, <2>1, FunctionIsSeq
  <1>7. /\ IsFiniteSet(M) /\ Cardinality(M) = m /\ Puts(P, M)
        /\ \A i \in S : RankIn(P, M, t[i].id) = Cardinality(Earlier(S, key, desc, i))
    BY <1>0, <1>1, <1>5, DevicesInOrder
  <1>8. \A d \in M : \E i \in S : d = t[i].id
    BY <1>1 DEF FoundBy
  <1>9. \A i \in S : t[i].id \in M
    BY <1>1 DEF FoundBy
  <1>10. PICK k \in Nat, z \in Nat : k = Skipped(q) /\ z = q.size
    BY SkippedType
  <1>11. q.page * q.size = k + z
    BY <1>10 DEF Skipped
  <1>12. PICK e \in Int : e = IF k + z <= m THEN k + z ELSE m
    OBVIOUS
  <1>13. PICK f \in Int : f = k + 1
    OBVIOUS
  <1>14. PICK page : page = PageOf(q, o)
    OBVIOUS
  <1>15. page = SubSeq(o, f, e)
    BY <1>6, <1>10, <1>11, <1>12, <1>13, <1>14 DEF PageOf, Skipped
  <1>16. PICK n \in Nat : n = IF f <= e THEN e - f + 1 ELSE 0
    <2>1. (IF f <= e THEN e - f + 1 ELSE 0) \in Nat
      <3>1. f <= e => e - f + 1 \in Nat
        OBVIOUS
      <3> QED
        BY <3>1
    <2> QED
      BY <2>1
  <1>17. page \in Seq(S) /\ Len(page) = n /\ \A i \in 1 .. n : page[i] = o[k + i]
    <2>1. \A i \in f .. e : o[i] \in S
      BY <1>4, <1>5, <1>12, <1>13
    <2>2. /\ SubSeq(o, f, e) \in Seq(S) /\ Len(SubSeq(o, f, e)) = IF f <= e THEN e - f + 1 ELSE 0
          /\ \A i \in 1 .. e - f + 1 : SubSeq(o, f, e)[i] = o[f + i - 1]
      BY <2>1, SubSeqProperties
    <2>3. \A i \in 1 .. n : i \in 1 .. e - f + 1 /\ f + i - 1 = k + i
      BY <1>13, <1>16
    <2> QED
      BY <1>15, <1>16, <2>2, <2>3
  <1>18. DOMAIN page = 1 .. n
    BY <1>17, LenProperties
  <1>19. PICK ids : ids = [i \in DOMAIN page |-> t[page[i]].id]
    OBVIOUS
  <1>20. ids = PageIds(t, q)
    BY <1>0, <1>1, <1>3, <1>14, <1>19 DEF PageIds
  <1>21. \A i \in 1 .. n : k + i \in 1 .. m
    BY <1>12, <1>13, <1>16
  <1>22. ASSUME NEW i \in 1 .. n
         PROVE  ids[i] \in M /\ ids[i] \in ListedDevices /\ RankIn(P, M, ids[i]) = k + i - 1
    <2>0. PICK h \in 1 .. m : h = k + i
      BY <1>21
    <2>a. o[h] \in S /\ Cardinality(Earlier(S, key, desc, o[h])) = h - 1
      BY <1>4, <1>5
    <2>1. PICK j \in S : j = o[h] /\ j = o[k + i]
      BY <2>0, <2>a
    <2>2. ids[i] = t[j].id
      BY <1>17, <1>18, <1>19, <2>1
    <2>3. Cardinality(Earlier(S, key, desc, j)) = k + i - 1
      BY <2>0, <2>1, <2>a
    <2>4. RankIn(P, M, t[j].id) = k + i - 1
      BY <1>7, <2>3
    <2> QED
      BY <1>2, <1>9, <2>2, <2>4
  <1>23. DOMAIN ids = 1 .. n /\ ids = [i \in DOMAIN ids |-> ids[i]]
    BY <1>18, <1>19
  <1>24. ids \in Seq(ListedDevices) /\ Len(ids) = n
    BY <1>22, <1>23, FunctionIsSeq
  <1>25. \A i, j \in 1 .. n : ids[i] = ids[j] => i = j
    BY <1>22
  <1>26. PICK W : W = ToSet(ids)
    OBVIOUS
  <1>27. \A x : x \in W <=> \E i \in 1 .. n : x = ids[i]
    BY <1>23, <1>26 DEF ToSet
  <1>28. Cardinality(W) = n
    <2>1. PICK D : D = 1 .. n
      OBVIOUS
    <2>2. IsFiniteSet(D) /\ Cardinality(D) = n
      <3>1. 1 \in Int /\ n \in Int
        OBVIOUS
      <3>2. IsFiniteSet(1 .. n) /\ Cardinality(1 .. n) = IF 1 > n THEN 0 ELSE n - 1 + 1
        BY <3>1, FS_Interval
      <3> QED
        BY <2>1, <3>2
    <2> QED
      BY <1>25, <1>27, <2>1, <2>2, ImageSize
  <1>29. \A d : d \in W <=> d \in M /\ RankIn(P, M, d) >= k /\ RankIn(P, M, d) < k + z
    <2>1. ASSUME NEW d \in W PROVE d \in M /\ RankIn(P, M, d) >= k /\ RankIn(P, M, d) < k + z
      <3>1. PICK i \in 1 .. n : d = ids[i]
        BY <1>27
      <3>2. d \in M /\ RankIn(P, M, d) = k + i - 1
        BY <1>22, <3>1
      <3>3. n <= z
        BY <1>12, <1>13, <1>16
      <3> QED
        BY <3>2, <3>3
    <2>2. ASSUME NEW d \in M, RankIn(P, M, d) >= k, RankIn(P, M, d) < k + z PROVE d \in W
      <3>1. PICK r \in Nat : r = RankIn(P, M, d) /\ r < m
        BY <1>7, RanksRise
      <3>2. PICK i \in Int : i = r - k + 1
        BY <3>1
      <3>3. i \in 1 .. n /\ k + i - 1 = r
        BY <1>12, <1>13, <1>16, <2>2, <3>1, <3>2
      <3>4. ids[i] \in M /\ RankIn(P, M, ids[i]) = r
        BY <1>22, <3>3
      <3>5. ids[i] = d
        BY <1>7, <3>1, <3>4, RanksDiffer
      <3> QED
        BY <1>27, <3>3, <3>5
    <2> QED
      BY <2>1, <2>2
  <1>30. W = Ranked(P, M, k, k + z)
    BY <1>29 DEF Ranked
  <1> QED
    BY <1>0, <1>1, <1>3, <1>6, <1>7, <1>10, <1>20, <1>24, <1>26, <1>28, <1>30


-----------------------------------------------------------------------------
(* A listing is as its client was told *)

QueryRecord ==
    [page : Nat, size : Nat, by : {"none", "name", "status", "model"}, desc : BOOLEAN,
     statuses : Filters \cup {{}}, done : BOOLEAN]

\* While it goes on, those that were missed stand before the next page, and those that will be
\* listed again after it.
GoesOn(t, q, l, S, g, c) ==
    /\ S \subseteq FoundBy(t, q)
    /\ Cardinality(Under(OrderOf(t, q), FoundBy(t, q), S \ ToSet(l), Skipped(q))) <= g
    /\ Len(l) - Cardinality(ToSet(l)) + Cardinality(From(OrderOf(t, q), FoundBy(t, q), ToSet(l), Skipped(q))) <= c

HasGone(l, S, g, c) ==
    Cardinality(S \ ToSet(l)) <= g /\ Len(l) - Cardinality(ToSet(l)) <= c

ListingOK(t, q, l, S, g, c) ==
    /\ TableOK(t) /\ q \in QueryRecord /\ l \in Seq(ListedDevices) /\ IsFiniteSet(S)
    /\ g \in Nat /\ c \in Nat
    /\ q # NoQuery => q.page >= 1
    /\ q = NoQuery => l = <<>> /\ S = {}
    /\ ~q.done /\ ~ValidPage(q) => l = <<>>
    /\ ~q.done => GoesOn(t, q, l, S, g, c)
    /\ q.done => HasGone(l, S, g, c)

LEMMA ListingShows ==
  ASSUME NEW t, NEW q, NEW l, NEW S, NEW g, NEW c, ListingOK(t, q, l, S, g, c)
  PROVE  /\ q.done => Cardinality(S \ ToSet(l)) <= g
         /\ Len(l) - Cardinality(ToSet(l)) <= c
  <1>1. q.done \in BOOLEAN
    BY DEF ListingOK, QueryRecord
  <1>2. CASE q.done
    BY <1>2 DEF ListingOK, HasGone
  <1>3. CASE ~q.done
    <2>1. TableOK(t) /\ q.desc \in BOOLEAN /\ g \in Nat /\ c \in Nat /\ l \in Seq(ListedDevices) /\ GoesOn(t, q, l, S, g, c)
      BY <1>3 DEF ListingOK, QueryRecord
    <2>2. PICK M, P, L, k : M = FoundBy(t, q) /\ P = OrderOf(t, q) /\ L = ToSet(l) /\ k = Skipped(q)
      OBVIOUS
    <2>3. IsFiniteSet(M)
      BY <2>1, <2>2, DevicesInOrder
    <2>4. From(P, M, L, k) \in SUBSET M
      BY DEF From
    <2>5. Cardinality(From(P, M, L, k)) \in Nat
      BY <2>3, <2>4, FS_Subset, FS_CardinalityType
    <2>6. Cardinality(L) \in Nat /\ Len(l) \in Nat
      BY <2>1, <2>2, MembersOfSeq, LenProperties
    <2>7. Len(l) - Cardinality(L) + Cardinality(From(P, M, L, k)) <= c
      BY <2>1, <2>2 DEF GoesOn
    <2> QED
      BY <1>3, <2>1, <2>2, <2>5, <2>6, <2>7
  <1> QED
    BY <1>1, <1>2, <1>3

LEMMA ChangeKeeps ==
  ASSUME NEW t, NEW q, NEW l, NEW S, NEW g, NEW c, ListingOK(t, q, l, S, g, c),
         NEW u, TableOK(u), NEW x, AlikeBut(t, u, x), NEW h \in Nat, NEW e \in Nat, h >= g, e >= c,
         ~q.done /\ x \in FoundBy(t, q) => h = g + 1,
         ~q.done /\ x \in FoundBy(u, q) => e = c + 1
  PROVE  ListingOK(u, q, l, S \ {x}, h, e)
  <1>1. /\ TableOK(t) /\ q \in QueryRecord /\ l \in Seq(ListedDevices) /\ IsFiniteSet(S)
        /\ g \in Nat /\ c \in Nat /\ q.desc \in BOOLEAN /\ q.page \in Nat /\ q.size \in Nat
    BY DEF ListingOK, QueryRecord
  <1>2. PICK L : L = ToSet(l)
    OBVIOUS
  <1>3. IsFiniteSet(L) /\ Cardinality(L) \in Nat /\ Len(l) \in Nat
    BY <1>1, <1>2, MembersOfSeq, LenProperties
  <1>4. IsFiniteSet(S \ {x})
    BY <1>1, FS_RemoveElement
  <1>5. ASSUME q.done PROVE HasGone(l, S \ {x}, h, e)
    <2>1. Cardinality(S \ L) <= g /\ Len(l) - Cardinality(L) <= c
      BY <1>2, <1>5 DEF ListingOK, HasGone
    <2>2. PICK A, B : A = S \ L /\ B = (S \ {x}) \ L
      OBVIOUS
    <2>3. A \in SUBSET S /\ B \subseteq A
      BY <2>2
    <2>4. IsFiniteSet(A)
      BY <1>1, <2>3, FS_Subset
    <2>5. Cardinality(A) \in Nat /\ Cardinality(B) \in Nat /\ Cardinality(B) <= Cardinality(A)
      BY <2>3, <2>4, NoMore
    <2> QED
      BY <1>1, <1>2, <1>3, <2>1, <2>2, <2>5 DEF HasGone
  <1>6. ASSUME ~q.done PROVE GoesOn(u, q, l, S \ {x}, h, e)
    <2>1. GoesOn(t, q, l, S, g, c) /\ q.page >= 1
      BY <1>6 DEF ListingOK, NoQuery
    <2>2. PICK M, P, N, Q : M = FoundBy(t, q) /\ P = OrderOf(t, q) /\ N = FoundBy(u, q) /\ Q = OrderOf(u, q)
      OBVIOUS
    <2>3. PICK k \in Nat : k = Skipped(q)
      BY <1>1, <2>1 DEF Skipped
    <2>4. SameBut(P, M, Q, N, x)
      BY <1>1, <2>2, OrderKept
    <2>5. S \subseteq M
      BY <2>1, <2>2 DEF GoesOn
    <2>6. S \ {x} \subseteq N
      BY <2>4, <2>5 DEF SameBut
    <2>7. PICK A, B : A = S \ L /\ B = (S \ {x}) \ L
      OBVIOUS
    <2>8. B = A \ {x}
      BY <2>7
    <2>9. /\ Cardinality(Under(P, M, A, k)) \in Nat /\ Cardinality(Under(Q, N, B, k)) \in Nat
          /\ Cardinality(Under(Q, N, B, k)) <= Cardinality(Under(P, M, A, k)) + One(x \in M)
      BY <2>4, <2>8, UnderGrows
    <2>10. /\ Cardinality(From(P, M, L, k)) \in Nat /\ Cardinality(From(Q, N, L, k)) \in Nat
           /\ Cardinality(From(Q, N, L, k)) <= Cardinality(From(P, M, L, k)) + One(x \in N)
      BY <2>4, FromGrows
    <2>11. Cardinality(Under(P, M, A, k)) <= g /\ Len(l) - Cardinality(L) + Cardinality(From(P, M, L, k)) <= c
      BY <1>2, <2>1, <2>2, <2>3, <2>7 DEF GoesOn
    <2>12. (x \in M => One(x \in M) = 1 /\ h = g + 1) /\ (x \notin M => One(x \in M) = 0)
      BY <1>6, <2>2 DEF One
    <2>13. (x \in N => One(x \in N) = 1 /\ e = c + 1) /\ (x \notin N => One(x \in N) = 0)
      BY <1>6, <2>2 DEF One
    <2>14. Cardinality(Under(Q, N, B, k)) <= h
      BY <1>1, <2>9, <2>11, <2>12
    <2>15. Len(l) - Cardinality(L) + Cardinality(From(Q, N, L, k)) <= e
      BY <1>1, <1>3, <2>10, <2>11, <2>13
    <2> QED
      BY <1>2, <2>2, <2>3, <2>6, <2>7, <2>14, <2>15 DEF GoesOn
  <1>7. /\ q # NoQuery => q.page >= 1
        /\ q = NoQuery => l = <<>> /\ S \ {x} = {}
        /\ ~q.done /\ ~ValidPage(q) => l = <<>>
    BY DEF ListingOK
  <1> QED
    BY <1>1, <1>4, <1>5, <1>6, <1>7 DEF ListingOK

LEMMA SameQuery ==
  ASSUME NEW t, NEW q, NEW r, q.statuses = r.statuses, q.by = r.by, q.desc = r.desc
  PROVE  FoundBy(t, q) = FoundBy(t, r) /\ OrderOf(t, q) = OrderOf(t, r)
  <1>1. \A w : Satisfies(q, w) <=> Satisfies(r, w)
    BY DEF Satisfies
  <1>2. PlacesOf(t, q) = PlacesOf(t, r)
    BY <1>1 DEF PlacesOf
  <1>3. \A w : SortKey(q, w) = SortKey(r, w)
    BY DEF SortKey
  <1>4. KeysOf(t, q) = KeysOf(t, r)
    BY <1>3 DEF KeysOf
  <1>5. FoundBy(t, q) = FoundBy(t, r)
    BY <1>2 DEF FoundBy
  <1>6. OrderOf(t, q) = OrderOf(t, r)
    BY <1>2, <1>4 DEF OrderOf
  <1> QED
    BY <1>5, <1>6

LEMMA LastPage ==
  ASSUME NEW n \in Nat, NEW z \in Nat, z >= 1, NEW p \in Nat, ~(p < (n + z - 1) \div z)
  PROVE  n <= p * z
  <1>1. PICK a \in Nat : a = n + z - 1
    OBVIOUS
  <1>2. PICK v \in Int, r \in Int : v = a \div z /\ r = a % z
    OBVIOUS
  <1>3. a = z * v + r /\ r >= 0 /\ r < z
    BY <1>2
  <1>4. p >= v
    BY <1>1, <1>2
  <1>5. z * p >= z * v
    BY <1>4
  <1>6. z * v >= n
    BY <1>1, <1>3
  <1> QED
    BY <1>5, <1>6


LEMMA Balance ==
  ASSUME NEW a \in Nat, NEW b \in Nat, NEW v \in Nat, NEW w \in Nat, NEW x \in Nat, NEW y \in Nat, NEW e \in Nat,
         y + a + w <= x + b, v - a + x <= e
  PROVE  v + w - b + y <= e
  OBVIOUS

LEMMA PageKeeps ==
  ASSUME NEW t, NEW q, NEW l, NEW S, NEW g, NEW c, ListingOK(t, q, l, S, g, c), ~q.done, ValidPage(q),
         NEW n, n = Len(InOrder(PlacesOf(t, q), KeysOf(t, q), q.desc)),
         NEW o, o = l \o PageIds(t, q),
         NEW r, r = IF HasNext(q, n) THEN [q EXCEPT !.page = @ + 1] ELSE [q EXCEPT !.done = TRUE]
  PROVE  ListingOK(t, r, o, S, g, c)
  <1>1. /\ TableOK(t) /\ q \in QueryRecord /\ l \in Seq(ListedDevices) /\ IsFiniteSet(S)
        /\ g \in Nat /\ c \in Nat /\ q.desc \in BOOLEAN /\ q.page \in Nat /\ q.size \in Nat
    BY DEF ListingOK, QueryRecord
  <1>2. GoesOn(t, q, l, S, g, c) /\ q.page >= 1 /\ q.size >= 1 /\ q.size <= MaxPageSize
    BY DEF ListingOK, ValidPage
  <1>3. PICK M, P, L, W : M = FoundBy(t, q) /\ P = OrderOf(t, q) /\ L = ToSet(l) /\ W = ToSet(PageIds(t, q))
    OBVIOUS
  <1>4. PICK k \in Nat, z \in Nat : k = Skipped(q) /\ z = q.size
    BY <1>1, <1>2, SkippedType
  <1>5. PICK p \in Seq(ListedDevices) : p = PageIds(t, q)
    BY <1>1, <1>2, PageRead
  <1>6. /\ n = Cardinality(M) /\ Len(p) = Cardinality(W)
        /\ W = Ranked(P, M, k, k + z)
    BY <1>1, <1>2, <1>3, <1>4, <1>5, PageRead
  <1>7. IsFiniteSet(M) /\ Puts(P, M)
    BY <1>1, <1>3, DevicesInOrder
  <1>8. o \in Seq(ListedDevices) /\ Len(o) = Len(l) + Len(p) /\ ToSet(o) = L \cup W
    BY <1>1, <1>3, <1>5, MembersJoined
  <1>9. IsFiniteSet(L) /\ Cardinality(L) \in Nat /\ Len(l) \in Nat
    BY <1>1, <1>3, MembersOfSeq, LenProperties
  <1>10. PICK j \in Nat : j = k + z
    OBVIOUS
  <1>11. PICK T : T = ToSet(o)
    OBVIOUS
  <1>12. /\ Under(P, M, S \ (L \cup W), j) \subseteq Under(P, M, S \ L, k)
         /\ IsFiniteSet(L \cup W) /\ Cardinality(W) \in Nat /\ Cardinality(L) \in Nat /\ Cardinality(L \cup W) \in Nat
         /\ Cardinality(From(P, M, L, k)) \in Nat /\ Cardinality(From(P, M, L \cup W, j)) \in Nat
         /\ Cardinality(From(P, M, L \cup W, j)) + Cardinality(L) + Cardinality(W)
                <= Cardinality(From(P, M, L, k)) + Cardinality(L \cup W)
    <2>1. k <= j /\ W = Ranked(P, M, k, j)
      BY <1>6, <1>10
    <2> QED
      BY <1>7, <1>9, <2>1, PageTurned
  <1>13. T = L \cup W
    BY <1>8, <1>11
  <1>14. /\ S \subseteq M
         /\ Cardinality(Under(P, M, S \ L, k)) <= g
         /\ Len(l) - Cardinality(L) + Cardinality(From(P, M, L, k)) <= c
    BY <1>2, <1>3, <1>4 DEF GoesOn
  <1>15. Len(o) - Cardinality(T) + Cardinality(From(P, M, T, j)) <= c /\ Cardinality(From(P, M, T, j)) \in Nat
    <2>1. PICK w \in Nat, a \in Nat, b \in Nat, v \in Nat, x \in Nat, y \in Nat :
             /\ w = Cardinality(W) /\ a = Cardinality(L) /\ b = Cardinality(L \cup W)
             /\ v = Len(l) /\ x = Cardinality(From(P, M, L, k)) /\ y = Cardinality(From(P, M, L \cup W, j))
      BY <1>9, <1>12
    <2>2. y + a + w <= x + b /\ v - a + x <= c
      BY <1>12, <1>14, <2>1
    <2>3. Len(o) = v + w
      BY <1>6, <1>8, <2>1
    <2>4. v + w - b + y <= c
      <3>1. PICK e \in Nat : e = c
        BY <1>1
      <3>2. y + a + w <= x + b /\ v - a + x <= e
        BY <2>2, <3>1
      <3>3. v + w - b + y <= e
        BY <3>2, Balance
      <3> QED
        BY <3>1, <3>3
    <2> QED
      BY <1>13, <2>1, <2>3, <2>4, SMTT(30)
  <1>16. /\ IsFiniteSet(Under(P, M, S \ T, j))
         /\ Cardinality(Under(P, M, S \ T, j)) <= g
    <2>1. PICK A, B : A = Under(P, M, S \ L, k) /\ B = Under(P, M, S \ T, j)
      OBVIOUS
    <2>2. A \in SUBSET M /\ B \subseteq A
      BY <1>12, <1>13, <2>1 DEF Under
    <2>3. IsFiniteSet(A)
      BY <1>7, <2>2, FS_Subset
    <2>4. IsFiniteSet(B) /\ Cardinality(A) \in Nat /\ Cardinality(B) \in Nat /\ Cardinality(B) <= Cardinality(A)
      BY <2>2, <2>3, NoMore
    <2> QED
      BY <1>1, <1>14, <2>1, <2>4
  <1>17. n \in Nat /\ Len(o) \in Nat /\ Cardinality(T) \in Nat
    BY <1>6, <1>7, <1>8, <1>12, <1>13, FS_CardinalityType, LenProperties
  <1>18. CASE HasNext(q, n)
    <2>a. PICK a \in Nat : a = q.page + 1
      BY <1>1, SMTT(30)
    <2>1. r = [q EXCEPT !.page = a]
      BY <1>18, <2>a
    <2>2. /\ r \in QueryRecord /\ r.page = q.page + 1 /\ r.size = q.size /\ r.done = q.done
          /\ r.statuses = q.statuses /\ r.by = q.by /\ r.desc = q.desc
      BY <1>1, <2>a, <2>1 DEF QueryRecord
    <2>3. FoundBy(t, r) = M /\ OrderOf(t, r) = P
      BY <1>3, <2>2, SameQuery
    <2>4. Skipped(r) = j
      <3>1. PICK b \in Nat : b = q.page
        BY <1>1
      <3>2. (b + 1 - 1) * z = (b - 1) * z + z
        OBVIOUS
      <3>3. Skipped(r) = (b + 1 - 1) * z /\ k = (b - 1) * z
        BY <1>4, <2>2, <3>1, SMTT(30) DEF Skipped
      <3> QED
        BY <1>10, <3>2, <3>3
    <2>5. GoesOn(t, r, o, S, g, c)
      BY <1>11, <1>14, <1>15, <1>16, <2>3, <2>4 DEF GoesOn
    <2>6. ~r.done /\ ValidPage(r) /\ r # NoQuery /\ r.page >= 1
      BY <1>1, <1>2, <2>2, SMTT(30) DEF ValidPage, NoQuery
    <2> QED
      BY <1>1, <1>8, <2>2, <2>5, <2>6 DEF ListingOK
  <1>19. CASE ~HasNext(q, n)
    <2>1. r = [q EXCEPT !.done = TRUE]
      BY <1>19
    <2>2. /\ r \in QueryRecord /\ r.page = q.page /\ r.done = TRUE
      BY <1>1, <2>1 DEF QueryRecord
    <2>3. n <= j
      <3>1. PICK a \in Nat : a = q.page
        BY <1>1
      <3>2. ~(a < (n + z - 1) \div z) /\ z >= 1
        BY <1>2, <1>4, <1>19, <3>1 DEF HasNext
      <3>3. n <= a * z
        BY <1>17, <3>2, LastPage
      <3>4. a * z = (a - 1) * z + z
        OBVIOUS
      <3> QED
        BY <1>4, <1>10, <3>1, <3>3, <3>4 DEF Skipped
    <2>4. Under(P, M, S \ T, j) = S \ T
      <3>1. \A d \in M : RankIn(P, M, d) \in 0 .. n - 1
        BY <1>6, <1>7, RanksRise
      <3>2. \A d \in M : RankIn(P, M, d) < j
        BY <1>17, <2>3, <3>1
      <3> QED
        BY <1>14, <3>2 DEF Under
    <2>5. HasGone(o, S, g, c)
      <3>1. Cardinality(S \ T) <= g
        BY <1>16, <2>4
      <3>2. Len(o) - Cardinality(T) <= c
        BY <1>1, <1>15, <1>17
      <3> QED
        BY <1>11, <3>1, <3>2 DEF HasGone
    <2>6. r # NoQuery
      BY <1>2, <2>2 DEF NoQuery
    <2> QED
      BY <1>1, <1>2, <1>8, <2>2, <2>5, <2>6 DEF ListingOK
  <1> QED
    BY <1>18, <1>19

LEMMA ListingBegins ==
  ASSUME NEW t, NEW g, NEW c, ListingOK(t, NoQuery, <<>>, {}, g, c),
         NEW q \in QueryRecord, q.page = 1, ~q.done
  PROVE  ListingOK(t, q, <<>>, FoundBy(t, q), g, c)
  <1>1. /\ TableOK(t) /\ q.desc \in BOOLEAN /\ q.size \in Nat /\ g \in Nat /\ c \in Nat
    BY DEF ListingOK, QueryRecord
  <1>2. PICK M, P : M = FoundBy(t, q) /\ P = OrderOf(t, q)
    OBVIOUS
  <1>3. IsFiniteSet(M) /\ Puts(P, M)
    BY <1>1, <1>2, DevicesInOrder
  <1>4. PICK l \in Seq(ListedDevices) : l = <<>>
    BY EmptySeq
  <1>5. Len(l) = 0 /\ ToSet(l) = {}
    BY <1>4 DEF ToSet
  <1>6. Skipped(q) = 0
    <2>1. (1 - 1) * q.size = 0
      BY <1>1
    <2> QED
      BY <2>1 DEF Skipped
  <1>7. Under(P, M, M \ {}, 0) = {}
    <2>1. \A d \in M : RankIn(P, M, d) \in Nat
      BY <1>3, RanksRise, FS_CardinalityType DEF RankIn
    <2>2. \A d \in M : ~(RankIn(P, M, d) < 0)
      BY <2>1
    <2> QED
      BY <2>2 DEF Under
  <1>8. From(P, M, {}, 0) = {}
    BY DEF From
  <1>9. Cardinality({}) = 0
    BY FS_EmptySet
  <1>10. GoesOn(t, q, l, M, g, c)
    <2>0. 0 <= g /\ 0 - 0 + 0 <= c
      BY <1>1
    <2>a. PICK A, B, E : A = Under(P, M, M \ {}, 0) /\ B = From(P, M, {}, 0) /\ E = {}
      OBVIOUS
    <2>b. Cardinality(A) = 0 /\ Cardinality(B) = 0 /\ Cardinality(E) = 0
      BY <1>7, <1>8, <1>9, <2>a
    <2>1. Cardinality(Under(P, M, M \ {}, 0)) <= g
      BY <2>0, <2>a, <2>b
    <2>2. Len(l) - Cardinality({}) + Cardinality(From(P, M, {}, 0)) <= c
      BY <1>5, <2>0, <2>a, <2>b
    <2> QED
      BY <1>2, <1>5, <1>6, <2>1, <2>2 DEF GoesOn
  <1>11. q # NoQuery
    BY DEF NoQuery
  <1> QED
    BY <1>1, <1>2, <1>3, <1>4, <1>10, <1>11 DEF ListingOK

LEMMA NothingListed ==
  ASSUME NEW t, TableOK(t), NEW g \in Nat, NEW c \in Nat
  PROVE  ListingOK(t, NoQuery, <<>>, {}, g, c)
  <1>1. PICK l \in Seq(ListedDevices) : l = <<>>
    BY EmptySeq
  <1>2. Len(l) = 0 /\ ToSet(l) = {}
    BY <1>1 DEF ToSet
  <1>3. Cardinality({}) = 0 /\ IsFiniteSet({})
    BY FS_EmptySet
  <1>4. HasGone(l, {}, g, c)
    BY <1>2, <1>3 DEF HasGone
  <1>5. NoQuery.done = TRUE /\ NoQuery \in QueryRecord
    BY DEF NoQuery, QueryRecord
  <1> QED
    BY <1>1, <1>3, <1>4, <1>5 DEF ListingOK

-----------------------------------------------------------------------------
(* The client and the changes *)

QueriesIndInv == ListingOK(table, query, listed, steady, gone, come)

LEMMA QueriesInitially == QueriesInit => QueriesIndInv
  <1> SUFFICES ASSUME QueriesInit PROVE QueriesIndInv
    OBVIOUS
  <1>1. PICK t \in Seq(TableRow) : t = <<>>
    BY EmptySeq
  <1>2. TableOK(t)
    BY <1>1 DEF TableOK, Distinct
  <1>3. ListingOK(t, NoQuery, <<>>, {}, 0, 0)
    BY <1>2, NothingListed
  <1> QED
    BY <1>1, <1>3 DEF QueriesInit, QueriesIndInv

LEMMA QueriesRead ==
  ASSUME QueriesIndInv, ReadPage
  PROVE  QueriesIndInv'
  <1>1. Matching(query) = PlacesOf(table, query)
    BY DEF Matching, PlacesOf
  <1>2. [i \in DOMAIN table |-> SortKey(query, table[i])] = KeysOf(table, query)
    BY DEF KeysOf
  <1>3. PICK f : f = InOrder(PlacesOf(table, query), KeysOf(table, query), query.desc)
    OBVIOUS
  <1>4. Sorted(query) = f
    BY <1>1, <1>2, <1>3 DEF Sorted
  <1>5. /\ ~query.done /\ ValidPage(query)
        /\ listed' = listed \o [i \in DOMAIN PageOf(query, f) |-> table[PageOf(query, f)[i]].id]
        /\ query' = IF HasNext(query, Len(f)) THEN [query EXCEPT !.page = @ + 1] ELSE [query EXCEPT !.done = TRUE]
        /\ UNCHANGED <<table, steady, gone, come>>
    BY <1>4 DEF ReadPage
  <1>6. listed' = listed \o PageIds(table, query)
    BY <1>3, <1>5 DEF PageIds
  <1>7. PICK t, q, l, S, g, c : /\ t = table /\ q = query /\ l = listed /\ S = steady /\ g = gone /\ c = come
    OBVIOUS
  <1>8. PICK o, r : o = listed' /\ r = query'
    OBVIOUS
  <1>9. PICK n : n = Len(f)
    OBVIOUS
  <1>10. ListingOK(t, q, l, S, g, c) /\ ~q.done /\ ValidPage(q)
    BY <1>5, <1>7 DEF QueriesIndInv
  <1>11. o = l \o PageIds(t, q)
    BY <1>6, <1>7, <1>8
  <1>12. r = IF HasNext(q, n) THEN [q EXCEPT !.page = @ + 1] ELSE [q EXCEPT !.done = TRUE]
    BY <1>5, <1>7, <1>8, <1>9
  <1>13. n = Len(InOrder(PlacesOf(t, q), KeysOf(t, q), q.desc))
    BY <1>3, <1>7, <1>9
  <1>14. ListingOK(t, r, o, S, g, c)
    BY <1>10, <1>11, <1>12, <1>13, PageKeeps
  <1> QED
    BY <1>5, <1>7, <1>8, <1>14 DEF QueriesIndInv

LEMMA QueriesBegin ==
  ASSUME QueriesIndInv, NEW by \in {"name", "status", "model"}, NEW desc \in BOOLEAN, NEW size \in PageSizes,
         NEW s \in Filters, BeginListing(by, desc, size, s)
  PROVE  QueriesIndInv'
  <1>1. PICK q : q = [page |-> 1, size |-> size, by |-> by, desc |-> desc, statuses |-> s, done |-> FALSE]
    OBVIOUS
  <1>2. query = NoQuery /\ query' = q /\ UNCHANGED <<table, listed, gone, come>>
    BY <1>1 DEF BeginListing
  <1>3. steady' = FoundBy(table, q)
    BY <1>1 DEF BeginListing, FoundBy, PlacesOf, Matching
  <1>4. size \in Nat
    <2>1. PageSizes \subseteq Nat
      BY QueryAssumption
    <2> QED
      BY <2>1
  <1>5. q \in QueryRecord /\ q.page = 1 /\ ~q.done
    BY <1>1, <1>4 DEF QueryRecord
  <1>6. listed = <<>> /\ steady = {} /\ ListingOK(table, query, listed, steady, gone, come)
    BY <1>2 DEF QueriesIndInv, ListingOK
  <1>7. PICK t, g, c : t = table /\ g = gone /\ c = come
    OBVIOUS
  <1>8. ListingOK(t, NoQuery, <<>>, {}, g, c)
    BY <1>2, <1>6, <1>7
  <1>9. ListingOK(t, q, <<>>, FoundBy(t, q), g, c)
    BY <1>5, <1>8, ListingBegins
  <1> QED
    BY <1>2, <1>3, <1>6, <1>7, <1>9 DEF QueriesIndInv

LEMMA QueriesRefused ==
  ASSUME QueriesIndInv, PageRefused
  PROVE  QueriesIndInv'
  <1>1. query' = NoQuery /\ steady' = {} /\ listed' = <<>> /\ UNCHANGED <<table, gone, come>>
    BY DEF PageRefused, QueriesIndInv, ListingOK
  <1>a. PICK g \in Nat, c \in Nat : g = gone /\ c = come
    BY DEF QueriesIndInv, ListingOK
  <1>2. PICK t : t = table /\ g = gone /\ c = come /\ TableOK(t)
    BY <1>a DEF QueriesIndInv, ListingOK
  <1>3. ListingOK(t, NoQuery, <<>>, {}, g, c)
    BY <1>2, NothingListed
  <1> QED
    BY <1>1, <1>2, <1>3 DEF QueriesIndInv

\* A change of x's row, if what is noted is at least what it takes away and adds.
LEMMA QueriesChanged ==
  ASSUME QueriesIndInv, NEW u, TableOK(u), u = table', NEW x, AlikeBut(table, u, x),
         NEW old, NEW new, Notes(x, old, new),
         x \in FoundBy(table, query) /\ ~query.done => \E r \in old : Matches(r),
         x \in FoundBy(u, query) /\ ~query.done => \E r \in new : Matches(r)
  PROVE  QueriesIndInv'
  <1>0. PICK g \in Nat, c \in Nat : g = gone /\ c = come
    BY DEF QueriesIndInv, ListingOK
  <1>1. PICK t, q, l, S : t = table /\ q = query /\ l = listed /\ S = steady /\ g = gone /\ c = come
    BY <1>0
  <1>2. PICK a, b : a = Count(\E r \in old : Matches(r)) /\ b = Count(\E r \in new : Matches(r))
    OBVIOUS
  <1>3. /\ a \in {0, 1} /\ b \in {0, 1}
        /\ x \in FoundBy(t, q) /\ ~q.done => a = 1
        /\ x \in FoundBy(u, q) /\ ~q.done => b = 1
    BY <1>1, <1>2 DEF Count
  <1>4. gone' = g + a /\ come' = c + b /\ steady' = S \ {x} /\ query' = q /\ listed' = l
    BY <1>1, <1>2 DEF Notes
  <1>5. PICK h \in Nat, e \in Nat : h = gone' /\ e = come'
    BY <1>3, <1>4
  <1>6. /\ h >= g /\ e >= c
        /\ ~q.done /\ x \in FoundBy(t, q) => h = g + 1
        /\ ~q.done /\ x \in FoundBy(u, q) => e = c + 1
    BY <1>3, <1>4, <1>5
  <1>7. ListingOK(t, q, l, S, g, c) /\ AlikeBut(t, u, x)
    BY <1>1 DEF QueriesIndInv
  <1>8. ListingOK(u, q, l, S \ {x}, h, e)
    BY <1>6, <1>7, ChangeKeeps
  <1> QED
    BY <1>4, <1>5, <1>8 DEF QueriesIndInv

LEMMA QueriesRegister ==
  ASSUME QueriesIndInv, NEW d \in ListedDevices, NEW n \in DeviceNames, RegisterDevice(d, n)
  PROVE  QueriesIndInv'
  <1>1. PICK r : r = [id |-> d, name |-> n, status |-> 1]
    OBVIOUS
  <1>2. /\ \A i \in DOMAIN table : table[i].id # d
        /\ table' = Append(table, r) /\ Notes(d, {}, {r})
    BY <1>1 DEF RegisterDevice
  <1>3. r \in TableRow /\ r.id = d
    BY <1>1 DEF TableRow, Statuses
  <1>4. PICK t, u, q : t = table /\ u = table' /\ q = query
    OBVIOUS
  <1>5. TableOK(t) /\ (\A i \in DOMAIN t : t[i].id # r.id) /\ u = Append(t, r)
    BY <1>2, <1>3, <1>4 DEF QueriesIndInv, ListingOK
  <1>6. TableOK(u) /\ AlikeBut(t, u, r.id) /\ Len(u) \in DOMAIN u /\ u[Len(u)] = r
    BY <1>3, <1>5, RowAppended
  <1>7. d \notin FoundBy(t, q)
    BY <1>2, <1>4, <1>5, RowIsThere
  <1>8. d \in FoundBy(u, q) => Satisfies(q, r)
    <2>1. u[Len(u)].id \in FoundBy(u, q) <=> Satisfies(q, u[Len(u)])
      BY <1>6, RowIsThere
    <2> QED
      BY <1>3, <1>6, <2>1
  <1>9. d \in FoundBy(u, query) /\ ~query.done => \E w \in {r} : Matches(w)
    BY <1>4, <1>8 DEF Matches
  <1>10. d \in FoundBy(table, query) /\ ~query.done => \E w \in {} : Matches(w)
    BY <1>4, <1>7
  <1>11. AlikeBut(table, u, d)
    BY <1>3, <1>4, <1>6
  <1> QED
    BY <1>2, <1>4, <1>6, <1>9, <1>10, <1>11, QueriesChanged

LEMMA QueriesChange ==
  ASSUME QueriesIndInv, NEW i \in DOMAIN table, NEW r \in TableRow, r.id = table[i].id, ChangeRow(i, r)
  PROVE  QueriesIndInv'
  <1>1. PICK t, u, q, d, b : t = table /\ u = table' /\ q = query /\ d = r.id /\ b = t[i]
    OBVIOUS
  <1>2. u = [t EXCEPT ![i] = r] /\ Notes(d, {b}, {r}) /\ TableOK(t) /\ i \in DOMAIN t /\ r.id = t[i].id
    BY <1>1 DEF ChangeRow, QueriesIndInv, ListingOK
  <1>3. TableOK(u) /\ AlikeBut(t, u, r.id) /\ i \in DOMAIN u /\ u[i] = r
    BY <1>2, RowChanged
  <1>4. t[i].id \in FoundBy(t, q) <=> Satisfies(q, t[i])
    BY <1>2, RowIsThere
  <1>5. u[i].id \in FoundBy(u, q) <=> Satisfies(q, u[i])
    BY <1>3, RowIsThere
  <1>6. d \in FoundBy(table, query) /\ ~query.done => \E w \in {b} : Matches(w)
    BY <1>1, <1>2, <1>4 DEF Matches
  <1>7. d \in FoundBy(u, query) /\ ~query.done => \E w \in {r} : Matches(w)
    BY <1>1, <1>3, <1>5 DEF Matches
  <1>8. AlikeBut(table, u, d) /\ u = table'
    BY <1>1, <1>3
  <1> QED
    BY <1>2, <1>3, <1>6, <1>7, <1>8, QueriesChanged

LEMMA QueriesDelete ==
  ASSUME QueriesIndInv, NEW i \in DOMAIN table, DeleteDevice(i)
  PROVE  QueriesIndInv'
  <1>1. PICK t, u, q, d, b : t = table /\ u = table' /\ q = query /\ d = t[i].id /\ b = t[i]
    OBVIOUS
  <1>2. u = RemoveAt(t, i) /\ Notes(d, {b}, {}) /\ TableOK(t) /\ i \in DOMAIN t
    BY <1>1 DEF DeleteDevice, QueriesIndInv, ListingOK
  <1>3. TableOK(u) /\ AlikeBut(t, u, t[i].id) /\ \A j \in DOMAIN u : u[j].id # t[i].id
    BY <1>2, RowRemoved
  <1>4. t[i].id \in FoundBy(t, q) <=> Satisfies(q, t[i])
    BY <1>2, RowIsThere
  <1>5. d \notin FoundBy(u, q)
    BY <1>1, <1>3, RowIsThere
  <1>6. d \in FoundBy(table, query) /\ ~query.done => \E w \in {b} : Matches(w)
    BY <1>1, <1>4 DEF Matches
  <1>7. d \in FoundBy(u, query) /\ ~query.done => \E w \in {} : Matches(w)
    BY <1>1, <1>5
  <1>8. AlikeBut(table, u, d) /\ u = table'
    BY <1>1, <1>3
  <1> QED
    BY <1>2, <1>3, <1>6, <1>7, <1>8, QueriesChanged

LEMMA QueriesStepKeeps ==
  ASSUME QueriesIndInv, [QueriesNext]_queryVars
  PROVE  QueriesIndInv'
  <1>1. CASE UNCHANGED queryVars
    BY <1>1 DEF QueriesIndInv, queryVars
  <1>2. CASE QueriesNext
    <2>1. ASSUME NEW by \in {"name", "status", "model"}, NEW desc \in BOOLEAN, NEW size \in PageSizes,
                 NEW s \in Filters, BeginListing(by, desc, size, s)
          PROVE  QueriesIndInv'
      BY <2>1, QueriesBegin
    <2>2. CASE ReadPage
      BY <2>2, QueriesRead
    <2>3. CASE PageRefused
      BY <2>3, QueriesRefused
    <2>4. ASSUME NEW d \in ListedDevices, NEW n \in DeviceNames, RegisterDevice(d, n) PROVE QueriesIndInv'
      BY <2>4, QueriesRegister
    <2>5. ASSUME NEW i \in DOMAIN table PROVE table[i] \in TableRow
      <3>1. TableOK(table)
        BY DEF QueriesIndInv, ListingOK
      <3> QED
        BY <3>1, PlacesAreKeyed
    <2>6. ASSUME NEW i \in DOMAIN table, NEW n \in DeviceNames, ChangeRow(i, [table[i] EXCEPT !.name = n])
          PROVE  QueriesIndInv'
      <3>1. PICK r : r = [table[i] EXCEPT !.name = n]
        OBVIOUS
      <3>2. r \in TableRow /\ r.id = table[i].id
        BY <2>5, <3>1 DEF TableRow
      <3>3. ChangeRow(i, r)
        BY <2>6, <3>1
      <3> QED
        BY <3>2, <3>3, QueriesChange
    <2>7. ASSUME NEW i \in DOMAIN table, NEW s \in Statuses, ChangeRow(i, [table[i] EXCEPT !.status = s])
          PROVE  QueriesIndInv'
      <3>1. PICK r : r = [table[i] EXCEPT !.status = s]
        OBVIOUS
      <3>2. r \in TableRow /\ r.id = table[i].id
        BY <2>5, <3>1 DEF TableRow
      <3>3. ChangeRow(i, r)
        BY <2>7, <3>1
      <3> QED
        BY <3>2, <3>3, QueriesChange
    <2>8. ASSUME NEW i \in DOMAIN table, DeleteDevice(i) PROVE QueriesIndInv'
      BY <2>8, QueriesDelete
    <2> QED
      BY <1>2, <2>1, <2>2, <2>3, <2>4, <2>6, <2>7, <2>8 DEF QueriesNext
  <1> QED
    BY <1>1, <1>2

LEMMA QueriesAreRight == QueriesIndInv => QueriesInv
  <1> SUFFICES ASSUME QueriesIndInv PROVE QueriesInv
    OBVIOUS
  <1>1. PICK t, q, l, S, g, c :
           t = table /\ q = query /\ l = listed /\ S = steady /\ g = gone /\ c = come
    OBVIOUS
  <1>2. ListingOK(t, q, l, S, g, c)
    BY <1>1 DEF QueriesIndInv
  <1>3. (q.done => Cardinality(S \ ToSet(l)) <= g) /\ Len(l) - Cardinality(ToSet(l)) <= c
    BY <1>2, ListingShows
  <1> QED
    BY <1>1, <1>3 DEF QueriesInv, MissedForRemovals, TwiceForInsertions


-----------------------------------------------------------------------------
(* The stream of all events *)

\* The stream g of all events agrees with those of the devices.
Agree(g, w) ==
    /\ g \in Seq(Nat) /\ w \in [MemoryDevices -> Seq(Nat)]
    /\ \A x : (\E i \in DOMAIN g : g[i] = x) <=> \E d \in MemoryDevices : \E i \in DOMAIN w[d] : w[d][i] = x
    /\ \A i, j \in DOMAIN g : g[i] = g[j] => i = j
    /\ \A d \in MemoryDevices : \A i, j \in DOMAIN w[d] : \A m, n \in DOMAIN g :
           i < j /\ g[m] = w[d][i] /\ g[n] = w[d][j] => m < n

\* u has events of its own, each once.
NewEvents(u, w) ==
    /\ u \in Seq(Nat) /\ \A i, j \in DOMAIN u : u[i] = u[j] => i = j
    /\ \A i \in DOMAIN u : \A d \in MemoryDevices : \A j \in DOMAIN w[d] : u[i] # w[d][j]

\* h is s and then u.
Longer(h, s, u) ==
    /\ h \in Seq(Nat) /\ s \in Seq(Nat) /\ u \in Seq(Nat)
    /\ Len(s) \in Nat /\ Len(u) \in Nat
    /\ DOMAIN s = 1 .. Len(s) /\ DOMAIN u = 1 .. Len(u) /\ DOMAIN h = 1 .. Len(s) + Len(u)
    /\ \A i \in DOMAIN s : i \in DOMAIN h /\ h[i] = s[i]
    /\ \A i \in DOMAIN u : Len(s) + i \in DOMAIN h /\ h[Len(s) + i] = u[i]
    /\ \A i \in DOMAIN h : \/ i \in DOMAIN s /\ i <= Len(s) /\ h[i] = s[i]
                           \/ i - Len(s) \in DOMAIN u /\ i > Len(s) /\ h[i] = u[i - Len(s)]

LEMMA ConcatIsLonger ==
  ASSUME NEW s \in Seq(Nat), NEW u \in Seq(Nat)
  PROVE  Longer(s \o u, s, u)
  <1>1. PICK m \in Nat, n \in Nat : m = Len(s) /\ n = Len(u)
    BY LenProperties
  <1>2. DOMAIN s = 1 .. m /\ DOMAIN u = 1 .. n
    BY <1>1, LenProperties
  <1>3. /\ s \o u \in Seq(Nat) /\ Len(s \o u) = Len(s) + Len(u)
        /\ \A i \in 1 .. Len(s) + Len(u) : (s \o u)[i] = IF i <= Len(s) THEN s[i] ELSE u[i - Len(s)]
    BY ConcatProperties
  <1>4. PICK h \in Seq(Nat) : h = s \o u
    BY <1>3
  <1>5. DOMAIN h = 1 .. m + n /\ \A i \in 1 .. m + n : h[i] = IF i <= m THEN s[i] ELSE u[i - m]
    BY <1>1, <1>3, <1>4, LenProperties
  <1>6. \A i \in 1 .. m : i \in DOMAIN h /\ h[i] = s[i]
    BY <1>5
  <1>7. \A i \in 1 .. n : m + i \in DOMAIN h /\ h[m + i] = u[i]
    BY <1>5
  <1>8. \A i \in DOMAIN h : \/ i \in 1 .. m /\ i <= m /\ h[i] = s[i]
                            \/ i - m \in 1 .. n /\ i > m /\ h[i] = u[i - m]
    BY <1>5
  <1> QED
    BY <1>1, <1>2, <1>4, <1>5, <1>6, <1>7, <1>8 DEF Longer

\* Where the members of h come from, if s has m.
Split(h, s, u, m) ==
    /\ h \in Seq(Nat) /\ DOMAIN s \subseteq Nat /\ DOMAIN u \subseteq Nat /\ DOMAIN h \subseteq Nat
    /\ \A i \in DOMAIN s : i \in DOMAIN h /\ h[i] = s[i]
    /\ \A i \in DOMAIN u : m + i \in DOMAIN h /\ h[m + i] = u[i]
    /\ \A i \in DOMAIN h : \/ i \in DOMAIN s /\ i <= m /\ h[i] = s[i]
                           \/ i - m \in DOMAIN u /\ i > m /\ h[i] = u[i - m]

LEMMA LongerSplits ==
  ASSUME NEW h, NEW s, NEW u, Longer(h, s, u)
  PROVE  \E m \in Nat : Split(h, s, u, m)
  <1>1. PICK m \in Nat : m = Len(s)
    BY DEF Longer
  <1>2. Split(h, s, u, m)
    BY <1>1 DEF Longer, Split
  <1> QED
    BY <1>2

LEMMA BlockAppended ==
  ASSUME NEW g, NEW w, Agree(g, w), NEW d \in MemoryDevices, NEW u, NewEvents(u, w),
         NEW h, Longer(h, g, u), NEW v \in [MemoryDevices -> Seq(Nat)], Longer(v[d], w[d], u),
         \A e \in MemoryDevices : e # d => v[e] = w[e]
  PROVE  Agree(h, v)
  <1>1. /\ \A x : (\E i \in DOMAIN g : g[i] = x) <=> \E e \in MemoryDevices : \E i \in DOMAIN w[e] : w[e][i] = x
        /\ \A i, j \in DOMAIN g : g[i] = g[j] => i = j
        /\ \A e \in MemoryDevices : \A i, j \in DOMAIN w[e] : \A m, n \in DOMAIN g :
               i < j /\ g[m] = w[e][i] /\ g[n] = w[e][j] => m < n
    BY DEF Agree
  <1>2. PICK m \in Nat : Split(h, g, u, m)
    BY LongerSplits
  <1>3. PICK c, b : c = v[d] /\ b = w[d]
    OBVIOUS
  <1>a. PICK a \in Nat : Split(c, b, u, a)
    BY <1>3, LongerSplits
  <1>4. /\ h \in Seq(Nat)
        /\ \A i \in DOMAIN g : i \in DOMAIN h /\ h[i] = g[i]
        /\ \A i \in DOMAIN u : m + i \in DOMAIN h /\ h[m + i] = u[i]
        /\ \A i \in DOMAIN h : \/ i \in DOMAIN g /\ i <= m /\ h[i] = g[i]
                               \/ i - m \in DOMAIN u /\ i > m /\ h[i] = u[i - m]
        /\ DOMAIN u \subseteq Nat /\ DOMAIN g \subseteq Nat /\ DOMAIN h \subseteq Nat
    BY <1>2 DEF Split
  <1>5. /\ \A i \in DOMAIN b : i \in DOMAIN c /\ c[i] = b[i]
        /\ \A i \in DOMAIN u : a + i \in DOMAIN c /\ c[a + i] = u[i]
        /\ \A i \in DOMAIN c : \/ i \in DOMAIN b /\ i <= a /\ c[i] = b[i]
                               \/ i - a \in DOMAIN u /\ i > a /\ c[i] = u[i - a]
        /\ DOMAIN c \subseteq Nat
    BY <1>a DEF Split
  <1>6. /\ \A i, j \in DOMAIN u : u[i] = u[j] => i = j
        /\ \A i \in DOMAIN u : \A e \in MemoryDevices : \A j \in DOMAIN w[e] : u[i] # w[e][j]
    BY DEF NewEvents
  <1>7. \A i \in DOMAIN u : \A j \in DOMAIN g : u[i] # g[j]
    <2> SUFFICES ASSUME NEW i \in DOMAIN u, NEW j \in DOMAIN g, u[i] = g[j] PROVE FALSE
      OBVIOUS
    <2>1. PICK x : x = g[j]
      OBVIOUS
    <2>a. \E k \in DOMAIN g : g[k] = x
      BY <2>1
    <2>b. (\E k \in DOMAIN g : g[k] = x) <=> \E e \in MemoryDevices : \E k \in DOMAIN w[e] : w[e][k] = x
      BY <1>1
    <2>2. PICK e \in MemoryDevices : \E k \in DOMAIN w[e] : w[e][k] = x
      BY <2>a, <2>b
    <2>3. PICK k \in DOMAIN w[e] : w[e][k] = x
      BY <2>2
    <2>4. u[i] # w[e][k]
      BY <1>6
    <2> QED
      BY <2>1, <2>3, <2>4
  <1>8. \A x : (\E i \in DOMAIN h : h[i] = x) <=> \E e \in MemoryDevices : \E i \in DOMAIN v[e] : v[e][i] = x
    <2>1. ASSUME NEW i \in DOMAIN h PROVE \E e \in MemoryDevices : \E j \in DOMAIN v[e] : v[e][j] = h[i]
      <3>1. CASE i \in DOMAIN g /\ h[i] = g[i]
        <4>1. PICK e \in MemoryDevices : \E j \in DOMAIN w[e] : w[e][j] = h[i]
          BY <1>1, <3>1
        <4>2. PICK j \in DOMAIN w[e] : w[e][j] = h[i]
          BY <4>1
        <4>3. CASE e = d
          BY <1>3, <1>5, <4>2, <4>3
        <4>4. CASE e # d
          BY <4>2, <4>4
        <4> QED
          BY <4>3, <4>4
      <3>2. CASE i - m \in DOMAIN u /\ h[i] = u[i - m]
        BY <1>3, <1>5, <3>2
      <3> QED
        BY <1>4, <3>1, <3>2
    <2>2. ASSUME NEW e \in MemoryDevices, NEW i \in DOMAIN v[e] PROVE \E j \in DOMAIN h : h[j] = v[e][i]
      <3>1. CASE i \in DOMAIN w[e] /\ v[e][i] = w[e][i]
        <4>1. PICK j \in DOMAIN g : g[j] = v[e][i]
          BY <1>1, <3>1
        <4> QED
          BY <1>4, <4>1
      <3>2. CASE e = d /\ i - a \in DOMAIN u /\ c[i] = u[i - a]
        BY <1>3, <1>4, <3>2
      <3> QED
        BY <1>3, <1>5, <3>1, <3>2
    <2> QED
      BY <2>1, <2>2
  <1>9. ASSUME NEW i \in DOMAIN h, NEW j \in DOMAIN h, h[i] = h[j] PROVE i = j
    <2>1. CASE i \in DOMAIN g /\ h[i] = g[i] /\ j \in DOMAIN g /\ h[j] = g[j]
      BY <1>1, <1>9, <2>1
    <2>2. CASE i - m \in DOMAIN u /\ h[i] = u[i - m] /\ j - m \in DOMAIN u /\ h[j] = u[j - m]
      <3>1. i - m = j - m
        BY <1>6, <1>9, <2>2
      <3>2. i \in Nat /\ j \in Nat
        BY <1>4
      <3> QED
        BY <3>1, <3>2
    <2> QED
      BY <1>4, <1>7, <1>9, <2>1, <2>2
  <1>10. ASSUME NEW e \in MemoryDevices, NEW i \in DOMAIN v[e], NEW j \in DOMAIN v[e],
                NEW p \in DOMAIN h, NEW q \in DOMAIN h, i < j, h[p] = v[e][i], h[q] = v[e][j]
         PROVE  p < q
    \* An event of before has its place in g.
    <2>1. ASSUME NEW k \in DOMAIN w[e], NEW r \in DOMAIN h, h[r] = w[e][k]
          PROVE  r \in DOMAIN g /\ r <= m /\ g[r] = w[e][k]
      <3>1. CASE r \in DOMAIN g /\ r <= m /\ h[r] = g[r]
        BY <2>1, <3>1
      <3>2. CASE r - m \in DOMAIN u /\ h[r] = u[r - m]
        <4>1. u[r - m] # w[e][k]
          BY <1>6, <3>2
        <4> QED
          BY <2>1, <3>2, <4>1
      <3> QED
        BY <1>4, <3>1, <3>2
    \* A new one stands after it.
    <2>2. ASSUME NEW k \in DOMAIN u, NEW r \in DOMAIN h, h[r] = u[k]
          PROVE  r = m + k /\ r > m
      <3>1. r - m \in DOMAIN u /\ r > m /\ h[r] = u[r - m]
        <4>1. CASE r \in DOMAIN g /\ h[r] = g[r]
          <5>1. u[k] # g[r]
            BY <1>7, <4>1
          <5> QED
            BY <2>2, <4>1, <5>1
        <4>2. CASE r - m \in DOMAIN u /\ r > m /\ h[r] = u[r - m]
          BY <4>2
        <4> QED
          BY <1>4, <4>1, <4>2
      <3>2. r - m = k
        BY <1>6, <2>2, <3>1
      <3>3. r \in Nat /\ k \in Nat
        BY <1>4
      <3> QED
        BY <3>1, <3>2, <3>3
    <2>3. CASE e # d
      <3>1. v[e] = w[e]
        BY <2>3
      <3>2. p \in DOMAIN g /\ g[p] = w[e][i]
        BY <1>10, <2>1, <3>1
      <3>3. q \in DOMAIN g /\ g[q] = w[e][j]
        BY <1>10, <2>1, <3>1
      <3> QED
        BY <1>1, <1>10, <3>1, <3>2, <3>3
    <2>4. CASE e = d
      <3>0. i \in DOMAIN c /\ j \in DOMAIN c /\ h[p] = c[i] /\ h[q] = c[j] /\ i \in Nat /\ j \in Nat
        BY <1>3, <1>5, <1>10, <2>4
      <3>1. CASE i \in DOMAIN w[d] /\ c[i] = w[d][i]
        <4>1. p \in DOMAIN g /\ p <= m /\ g[p] = w[d][i]
          BY <2>1, <2>4, <3>0, <3>1
        <4>2. CASE j \in DOMAIN w[d] /\ c[j] = w[d][j]
          <5>1. q \in DOMAIN g /\ g[q] = w[d][j]
            BY <2>1, <2>4, <3>0, <4>2
          <5> QED
            BY <1>1, <1>10, <3>1, <4>1, <4>2, <5>1
        <4>3. CASE j - a \in DOMAIN u /\ c[j] = u[j - a]
          <5>1. q > m
            BY <2>2, <3>0, <4>3
          <5>2. p \in Nat /\ q \in Nat
            BY <1>4
          <5> QED
            BY <4>1, <5>1, <5>2
        <4>4. \/ j \in DOMAIN b /\ j <= a /\ c[j] = b[j]
              \/ j - a \in DOMAIN u /\ j > a /\ c[j] = u[j - a]
          BY <1>5, <3>0
        <4> QED
          BY <1>3, <2>4, <4>2, <4>3, <4>4
      <3>2. CASE i > a /\ i - a \in DOMAIN u /\ c[i] = u[i - a]
        <4>1. j - a \in DOMAIN u /\ c[j] = u[j - a]
          <5>1. \/ j \in DOMAIN b /\ j <= a /\ c[j] = b[j]
                \/ j - a \in DOMAIN u /\ j > a /\ c[j] = u[j - a]
            BY <1>5, <3>0
          <5>2. ~(j <= a)
            BY <1>10, <3>0, <3>2
          <5> QED
            BY <5>1, <5>2
        <4>2. p = m + (i - a)
          BY <2>2, <3>0, <3>2
        <4>3. q = m + (j - a)
          BY <2>2, <3>0, <4>1
        <4> QED
          BY <1>10, <3>0, <4>2, <4>3
      <3>4. \/ i \in DOMAIN b /\ i <= a /\ c[i] = b[i]
            \/ i - a \in DOMAIN u /\ i > a /\ c[i] = u[i - a]
        BY <1>5, <3>0
      <3> QED
        BY <1>3, <2>4, <3>1, <3>2, <3>4
    <2> QED
      BY <2>3, <2>4
  <1>11. \A e \in MemoryDevices : \A i, j \in DOMAIN v[e] : \A p, q \in DOMAIN h :
             i < j /\ h[p] = v[e][i] /\ h[q] = v[e][j] => p < q
    BY <1>10
  <1>12. \A i, j \in DOMAIN h : h[i] = h[j] => i = j
    BY <1>9
  <1>13. h \in Seq(Nat) /\ v \in [MemoryDevices -> Seq(Nat)]
    BY <1>4
  <1> QED
    BY <1>8, <1>11, <1>12, <1>13, Zenon DEF Agree


\* What devices have raised is what they have stored and what they have not, and an event is one
\* device's, and raised once.
Books(w, u, o) ==
    \A d \in MemoryDevices : w[d] \in Seq(Nat) /\ u[d] \in Seq(Nat) /\ o[d] \in Seq(Nat) /\ w[d] \o u[d] = o[d]
Owned(o) ==
    \A d, e \in MemoryDevices : \A i \in DOMAIN o[d] : \A j \in DOMAIN o[e] : o[d][i] = o[e][j] => d = e /\ i = j
Once(t) == \A i, j \in DOMAIN t : t[i] = t[j] => i = j

\* The streams when the events of the first n devices are stored.
WithStored(w, u, t, n) ==
    [d \in MemoryDevices |-> IF \E i \in 1 .. n : t[i] = d THEN w[d] \o u[d] ELSE w[d]]

LEMMA UnstoredAreNew ==
  ASSUME NEW w, NEW u, NEW o, Books(w, u, o), Owned(o), NEW d \in MemoryDevices,
         NEW v, v[d] = w[d], \A e \in MemoryDevices : v[e] = w[e] \/ (v[e] = o[e] /\ e # d)
  PROVE  NewEvents(u[d], v)
  <1>1. u[d] \in Seq(Nat) /\ w[d] \in Seq(Nat) /\ o[d] = w[d] \o u[d]
    BY DEF Books
  <1>2. PICK a, b, c : a = w[d] /\ b = u[d] /\ c = o[d]
    OBVIOUS
  <1>3. Longer(c, a, b)
    BY <1>1, <1>2, ConcatIsLonger
  <1>4. PICK m \in Nat : m = Len(a)
    BY <1>3 DEF Longer
  <1>5. /\ \A i \in DOMAIN b : m + i \in DOMAIN c /\ c[m + i] = b[i] /\ i \in Nat /\ i > 0
        /\ \A i \in DOMAIN a : i <= m /\ i \in Nat
    BY <1>3, <1>4 DEF Longer
  <1>6. ASSUME NEW i \in DOMAIN b, NEW j \in DOMAIN b, b[i] = b[j] PROVE i = j
    <2>1. c[m + i] = c[m + j] /\ m + i \in DOMAIN c /\ m + j \in DOMAIN c
      BY <1>5, <1>6
    <2>2. m + i = m + j
      BY <1>2, <2>1 DEF Owned
    <2> QED
      BY <1>5, <2>2
  <1>7. ASSUME NEW i \in DOMAIN b, NEW e \in MemoryDevices, NEW j \in DOMAIN v[e], b[i] = v[e][j] PROVE FALSE
    <2>1. c[m + i] = b[i] /\ m + i \in DOMAIN c
      BY <1>5
    <2>2. CASE v[e] = o[e] /\ e # d
      <3>1. o[d][m + i] = o[e][j] /\ m + i \in DOMAIN o[d] /\ j \in DOMAIN o[e]
        BY <1>2, <1>7, <2>1, <2>2
      <3> QED
        BY <2>2, <3>1 DEF Owned
    <2>3. CASE v[e] = w[e]
      <3>1. w[e] \in Seq(Nat) /\ u[e] \in Seq(Nat) /\ o[e] = w[e] \o u[e]
        BY DEF Books
      <3>2. PICK p, q, r : p = w[e] /\ q = u[e] /\ r = o[e]
        OBVIOUS
      <3>3. Longer(r, p, q)
        BY <3>1, <3>2, ConcatIsLonger
      <3>4. j \in DOMAIN r /\ r[j] = p[j]
        BY <2>3, <3>2, <3>3 DEF Longer
      <3>5. o[d][m + i] = o[e][j] /\ m + i \in DOMAIN o[d] /\ j \in DOMAIN o[e]
        BY <1>2, <1>7, <2>1, <2>3, <3>2, <3>4
      <3>6. d = e /\ m + i = j
        BY <3>5 DEF Owned
      <3>7. j <= m
        BY <1>2, <1>5, <2>3, <3>6
      <3> QED
        BY <1>5, <3>6, <3>7
    <2> QED
      BY <2>2, <2>3
  <1>8. NewEvents(b, v)
    BY <1>1, <1>2, <1>6, <1>7 DEF NewEvents
  <1> QED
    BY <1>2, <1>8

LEMMA BlocksAppended ==
  ASSUME NEW g, NEW w, Agree(g, w), NEW u, NEW o, Books(w, u, o), Owned(o),
         NEW t \in Seq(MemoryDevices), Once(t), NEW n \in Nat, n <= Len(t),
         NEW f, f[0] = g, \A k \in Nat : k < n => f[k + 1] = f[k] \o u[t[k + 1]]
  PROVE  Agree(f[n], WithStored(w, u, t, n))
  <1> DEFINE P == {k \in Nat : k <= n => Agree(f[k], WithStored(w, u, t, k))}
  <1>1. w \in [MemoryDevices -> Seq(Nat)] /\ \A d \in MemoryDevices : u[d] \in Seq(Nat)
    BY DEF Agree, Books
  <1>2. \A k \in Nat : WithStored(w, u, t, k) \in [MemoryDevices -> Seq(Nat)]
    <2> SUFFICES ASSUME NEW k \in Nat, NEW d \in MemoryDevices
                 PROVE  (IF \E i \in 1 .. k : t[i] = d THEN w[d] \o u[d] ELSE w[d]) \in Seq(Nat)
      BY DEF WithStored
    <2>1. PICK a \in Seq(Nat), b \in Seq(Nat) : a = w[d] /\ b = u[d]
      BY <1>1
    <2>2. a \o b \in Seq(Nat)
      BY ConcatProperties
    <2> QED
      BY <2>1, <2>2
  <1>3. WithStored(w, u, t, 0) = w
    <2>1. WithStored(w, u, t, 0) = [d \in MemoryDevices |-> w[d]]
      BY DEF WithStored
    <2> QED
      BY <1>1, <2>1
  <1>4. 0 \in P
    BY <1>3
  <1>5. ASSUME NEW k \in Nat, k \in P PROVE k + 1 \in P
    <2> SUFFICES ASSUME k + 1 <= n PROVE Agree(f[k + 1], WithStored(w, u, t, k + 1))
      OBVIOUS
    <2>1. k < n /\ k <= n
      OBVIOUS
    <2>2. PICK x, y : x = WithStored(w, u, t, k) /\ y = WithStored(w, u, t, k + 1)
      OBVIOUS
    <2>3. PICK a : a = f[k]
      OBVIOUS
    <2>4. Agree(a, x)
      BY <1>5, <2>1, <2>2, <2>3
    <2>5. a \in Seq(Nat)
      BY <2>4 DEF Agree
    <2>6. DOMAIN t = 1 .. Len(t) /\ Len(t) \in Nat
      BY LenProperties
    <2>7. k + 1 \in 1 .. Len(t)
      BY <2>6
    <2>8. PICK d \in MemoryDevices : d = t[k + 1]
      BY <2>7, ElementOfSeq
    <2>9. \A i \in 1 .. k : t[i] # d
      BY <2>6, <2>7, <2>8 DEF Once
    <2>10. x[d] = w[d] /\ y[d] = w[d] \o u[d]
      <3>1. \E i \in 1 .. k + 1 : t[i] = d
        BY <2>8
      <3> QED
        BY <2>2, <2>9, <3>1 DEF WithStored
    <2>11. \A e \in MemoryDevices : e # d => y[e] = x[e]
      <3> SUFFICES ASSUME NEW e \in MemoryDevices, e # d PROVE y[e] = x[e]
        OBVIOUS
      <3>1. (\E i \in 1 .. k + 1 : t[i] = e) <=> (\E i \in 1 .. k : t[i] = e)
        BY <2>8
      <3> QED
        BY <2>2, <3>1 DEF WithStored
    <2>12. \A e \in MemoryDevices : x[e] = w[e] \/ (x[e] = o[e] /\ e # d)
      <3>1. \A e \in MemoryDevices : x[e] = w[e] \/ x[e] = o[e]
        BY <2>2 DEF WithStored, Books
      <3>2. ASSUME NEW e \in MemoryDevices PROVE x[e] = w[e] \/ (x[e] = o[e] /\ e # d)
        <4>1. CASE e = d
          BY <2>10, <4>1
        <4>2. CASE e # d
          BY <3>1, <4>2
        <4> QED
          BY <4>1, <4>2
      <3> QED
        BY <3>2
    <2>13. NewEvents(u[d], x)
      BY <2>10, <2>12, UnstoredAreNew
    <2>14. PICK b : b = f[k + 1]
      OBVIOUS
    <2>15. b = a \o u[d]
      BY <2>1, <2>3, <2>8, <2>14
    <2>16. Longer(b, a, u[d])
      <3>1. PICK q \in Seq(Nat) : q = u[d]
        BY <1>1
      <3>2. PICK p \in Seq(Nat) : p = a
        BY <2>5
      <3>3. Longer(p \o q, p, q)
        BY ConcatIsLonger
      <3>4. b = p \o q
        BY <2>15, <3>1, <3>2, Zenon
      <3> QED
        BY <3>1, <3>2, <3>3, <3>4
    <2>17. Longer(y[d], x[d], u[d])
      <3>1. PICK q \in Seq(Nat), p \in Seq(Nat) : q = u[d] /\ p = w[d]
        BY <1>1
      <3>2. Longer(p \o q, p, q)
        BY ConcatIsLonger
      <3> QED
        BY <2>10, <3>1, <3>2
    <2>18. y \in [MemoryDevices -> Seq(Nat)]
      BY <1>2, <2>2
    <2>19. Agree(b, y)
      BY <2>4, <2>11, <2>13, <2>16, <2>17, <2>18, BlockAppended, SMTT(30)
    <2> QED
      BY <2>2, <2>14, <2>19
  <1> HIDE DEF P
  <1>6. Nat \subseteq P
    BY <1>4, <1>5, NatHolds
  <1>7. n \in P
    BY <1>6
  <1> QED
    BY <1>7 DEF P

\* The stream of all events while a commit goes from one device to the next.
LEMMA StoredBlocks ==
  ASSUME global \in Seq(Nat), NEW t, NEW n \in Nat, \A k \in 1 .. n : uncommitted[t[k]] \in Seq(Nat)
  PROVE  \E f : /\ f[0] = global /\ f[n] = StoredThrough(t, n)
                /\ \A k \in Nat : k < n => f[k + 1] = f[k] \o uncommitted[t[k + 1]]
  <1> DEFINE D == 0 .. n
             R == Seq(Nat)
             measure == [k \in D |-> k]
             step == [y \in D \X [D -> R] |-> IF y[1] = 0 THEN global ELSE y[2][y[1] - 1] \o uncommitted[t[y[1]]]]
  <1>1. \A k \in D : \A h \in [D -> R] :
           step[<<k, h>>] = IF k = 0 THEN global ELSE h[k - 1] \o uncommitted[t[k]]
    OBVIOUS
  <1>2. step \in [D \X [D -> R] -> R]
    <2> SUFFICES ASSUME NEW k \in D, NEW h \in [D -> R]
                 PROVE  (IF k = 0 THEN global ELSE h[k - 1] \o uncommitted[t[k]]) \in R
      OBVIOUS
    <2>1. CASE k = 0
      BY <2>1
    <2>2. CASE k # 0
      <3>1. k \in 1 .. n /\ k - 1 \in D
        BY <2>2
      <3>2. PICK a \in Seq(Nat), b \in Seq(Nat) : a = h[k - 1] /\ b = uncommitted[t[k]]
        BY <3>1
      <3>3. a \o b \in Seq(Nat)
        BY ConcatProperties
      <3> QED
        BY <2>2, <3>2, <3>3
    <2> QED
      BY <2>1, <2>2
  <1>3. measure \in [D -> Nat] /\ \A k \in D : measure[k] = k
    OBVIOUS
  <1>4. LooksBelow(D, R, measure, step)
    <2> SUFFICES ASSUME NEW k \in D, NEW g \in [D -> R], NEW h \in [D -> R],
                        \A y \in D : measure[y] < measure[k] => g[y] = h[y]
                 PROVE  step[<<k, g>>] = step[<<k, h>>]
      BY DEF LooksBelow
    <2>1. CASE k = 0
      BY <1>1, <2>1
    <2>2. CASE k # 0
      <3>1. k - 1 \in D /\ k - 1 < k
        BY <2>2
      <3>2. g[k - 1] = h[k - 1]
        BY <1>3, <3>1
      <3> QED
        BY <1>1, <3>2
    <2> QED
      BY <2>1, <2>2
  <1>5. <<>> \in R
    BY EmptySeq
  <1>6. PICK f \in [D -> R] : Solves(f, D, step)
    <2> HIDE DEF D, R, measure, step
    <2> QED
      BY <1>2, <1>3, <1>4, <1>5, Recursion
  <1> DEFINE Whole(all) == [k \in D |-> IF k = 0 THEN global ELSE all[k - 1] \o uncommitted[t[k]]]
             all == CHOOSE all : all = Whole(all)
  <1>7. f = Whole(f)
    <2>1. \A k \in D : f[k] = step[<<k, f>>]
      BY <1>6 DEF Solves
    <2>2. \A k \in D : f[k] = IF k = 0 THEN global ELSE f[k - 1] \o uncommitted[t[k]]
      <3> HIDE DEF D, R, step
      <3> QED
        BY <1>1, <2>1
    <2> QED
      BY <2>2
  <1>8. all = Whole(all)
    <2> HIDE DEF Whole
    <2> QED
      BY <1>7
  <1>9. StoredThrough(t, n) = all[n]
    BY DEF StoredThrough
  <1> HIDE DEF all
  <1>10. \A k \in D : all[k] = IF k = 0 THEN global ELSE all[k - 1] \o uncommitted[t[k]]
    BY <1>8
  <1>11. all[0] = global
    BY <1>10
  <1>12. \A k \in Nat : k < n => all[k + 1] = all[k] \o uncommitted[t[k + 1]]
    <2> SUFFICES ASSUME NEW k \in Nat, k < n PROVE all[k + 1] = all[k] \o uncommitted[t[k + 1]]
      OBVIOUS
    <2>1. k + 1 \in D /\ k + 1 # 0 /\ (k + 1) - 1 = k
      OBVIOUS
    <2> QED
      BY <1>10, <2>1
  <1> QED
    BY <1>9, <1>11, <1>12


UpTo(o, n) == \A d \in MemoryDevices : \A i \in DOMAIN o[d] : o[d][i] <= n

StreamsIndInv ==
    /\ MemoryIndInv
    /\ tracked \in Seq(MemoryDevices) /\ Once(tracked)
    /\ Owned(outstanding) /\ UpTo(outstanding, raised)
    /\ Agree(global, streams)

LEMMA EmptyHasNoPlaces ==
  ASSUME NEW S
  PROVE  \E e \in Seq(S) : e = <<>> /\ DOMAIN e = {}
  <1>1. <<>> \in Seq(S) /\ Len(<<>>) = 0
    BY EmptySeq
  <1>2. PICK e \in Seq(S) : e = <<>> /\ Len(e) = 0
    BY <1>1
  <1>3. DOMAIN e = 1 .. Len(e)
    BY LenProperties
  <1>4. DOMAIN e = {}
    BY <1>2, <1>3
  <1> QED
    BY <1>2, <1>4

LEMMA EmptyAgree ==
  ASSUME NEW w, w = [d \in MemoryDevices |-> <<>>]
  PROVE  Agree(<<>>, w)
  <1>1. PICK g \in Seq(Nat) : g = <<>> /\ DOMAIN g = {}
    BY EmptyHasNoPlaces
  <1>2. w \in [MemoryDevices -> Seq(Nat)] /\ \A d \in MemoryDevices : w[d] = g
    BY <1>1
  <1>3. \A d \in MemoryDevices : DOMAIN w[d] = {}
    BY <1>1, <1>2
  <1>4. Agree(g, w)
    BY <1>1, <1>2, <1>3 DEF Agree
  <1> QED
    BY <1>1, <1>4

LEMMA StreamsInitially == MemoryInit => StreamsIndInv
  <1> SUFFICES ASSUME MemoryInit PROVE StreamsIndInv
    OBVIOUS
  <1>1. MemoryIndInv
    BY MemoryInitially
  <1>2. Agree(global, streams)
    BY EmptyAgree DEF MemoryInit
  <1>3. PICK t \in Seq(MemoryDevices) : t = <<>> /\ DOMAIN t = {}
    BY EmptyHasNoPlaces
  <1>4. Once(t) /\ tracked = t
    BY <1>3 DEF Once, MemoryInit
  <1>5. Owned(outstanding) /\ UpTo(outstanding, raised)
    <2>1. \A d \in MemoryDevices : DOMAIN outstanding[d] = {}
      BY <1>3 DEF MemoryInit
    <2> QED
      BY <2>1 DEF Owned, UpTo
  <1> QED
    BY <1>1, <1>2, <1>4, <1>5 DEF StreamsIndInv

LEMMA OneAppended ==
  ASSUME NEW s \in Seq(Nat), NEW k \in Nat, NEW m, m = Len(s), NEW t, t = Append(s, k)
  PROVE  DOMAIN t = 1 .. m + 1 /\ t[m + 1] = k /\ \A i \in 1 .. m : t[i] = s[i]
  <1>1. /\ Append(s, k) \in Seq(Nat) /\ Append(s, k) # <<>>
        /\ Len(Append(s, k)) = Len(s) + 1
        /\ \A i \in 1 .. Len(s) : Append(s, k)[i] = s[i]
        /\ Append(s, k)[Len(s) + 1] = k
    BY AppendProperties
  <1>2. t \in Seq(Nat)
    BY <1>1
  <1>3. DOMAIN t = 1 .. Len(t)
    BY <1>2, LenProperties
  <1> QED
    BY <1>1, <1>3

LEMMA RaisedOwned ==
  ASSUME NEW o \in [MemoryDevices -> Seq(Nat)], Owned(o), NEW n \in Nat, UpTo(o, n), NEW d \in MemoryDevices,
         NEW p, p = [o EXCEPT ![d] = Append(@, n + 1)]
  PROVE  Owned(p) /\ UpTo(p, n + 1)
  <1>1. PICK s \in Seq(Nat), m \in Nat : s = o[d] /\ m = Len(s)
    BY LenProperties
  <1>2. PICK t : t = Append(s, n + 1)
    OBVIOUS
  <1>3. DOMAIN s = 1 .. m /\ \A i \in 1 .. m : s[i] \in Nat
    BY <1>1, LenProperties, ElementOfSeq
  <1>4. DOMAIN t = 1 .. m + 1 /\ t[m + 1] = n + 1 /\ \A i \in 1 .. m : t[i] = s[i]
    <2>1. PICK k \in Nat : k = n + 1
      OBVIOUS
    <2>2. t = Append(s, k)
      BY <1>2, <2>1
    <2>3. DOMAIN t = 1 .. m + 1 /\ t[m + 1] = k /\ \A i \in 1 .. m : t[i] = s[i]
      BY <1>1, <2>2, OneAppended
    <2> QED
      BY <2>1, <2>3
  <1>5. p[d] = t /\ \A e \in MemoryDevices : e # d => p[e] = o[e]
    BY <1>1, <1>2
  <1>6. \A i \in DOMAIN t : (i \in DOMAIN s /\ t[i] = s[i]) \/ (i = m + 1 /\ t[i] = n + 1)
    BY <1>3, <1>4
  \* What was raised before is not the new event.
  <1>7. ASSUME NEW e \in MemoryDevices, NEW i \in DOMAIN o[e] PROVE o[e][i] # n + 1 /\ o[e][i] <= n + 1
    <2>1. o[e][i] <= n
      BY DEF UpTo
    <2>2. o[e] \in Seq(Nat)
      OBVIOUS
    <2>3. PICK r \in Seq(Nat) : r = o[e]
      BY <2>2
    <2>4. i \in 1 .. Len(r)
      BY <2>3, LenProperties
    <2>5. r[i] \in Nat
      BY <2>4, ElementOfSeq
    <2> QED
      BY <2>1, <2>3, <2>5
  <1>8. \A e \in MemoryDevices : \A i \in DOMAIN p[e] :
           (i \in DOMAIN o[e] /\ p[e][i] = o[e][i]) \/ (e = d /\ i = m + 1 /\ p[e][i] = n + 1)
    <2> SUFFICES ASSUME NEW e \in MemoryDevices, NEW i \in DOMAIN p[e]
                 PROVE  (i \in DOMAIN o[e] /\ p[e][i] = o[e][i]) \/ (e = d /\ i = m + 1 /\ p[e][i] = n + 1)
      OBVIOUS
    <2>1. CASE e = d
      BY <1>1, <1>5, <1>6, <2>1
    <2>2. CASE e # d
      BY <1>5, <2>2
    <2> QED
      BY <2>1, <2>2
  <1>9. ASSUME NEW e \in MemoryDevices, NEW i \in DOMAIN p[e] PROVE p[e][i] <= n + 1
    <2>1. CASE i \in DOMAIN o[e] /\ p[e][i] = o[e][i]
      BY <1>7, <2>1
    <2>2. CASE p[e][i] = n + 1
      BY <2>2
    <2> QED
      BY <1>8, <2>1, <2>2
  <1>10. ASSUME NEW e \in MemoryDevices, NEW c \in MemoryDevices, NEW i \in DOMAIN p[e], NEW j \in DOMAIN p[c],
                p[e][i] = p[c][j]
         PROVE  e = c /\ i = j
    <2>1. CASE i \in DOMAIN o[e] /\ p[e][i] = o[e][i] /\ j \in DOMAIN o[c] /\ p[c][j] = o[c][j]
      <3>1. o[e][i] = o[c][j]
        BY <1>10, <2>1
      <3> QED
        BY <2>1, <3>1 DEF Owned
    <2>2. CASE i \in DOMAIN o[e] /\ p[e][i] = o[e][i] /\ p[c][j] = n + 1
      <3>1. o[e][i] # n + 1
        BY <1>7, <2>2
      <3> QED
        BY <1>10, <2>2, <3>1
    <2>3. CASE p[e][i] = n + 1 /\ j \in DOMAIN o[c] /\ p[c][j] = o[c][j]
      <3>1. o[c][j] # n + 1
        BY <1>7, <2>3
      <3> QED
        BY <1>10, <2>3, <3>1
    <2>4. CASE e = d /\ i = m + 1 /\ c = d /\ j = m + 1
      BY <2>4
    <2>5. (i \in DOMAIN o[e] /\ p[e][i] = o[e][i]) \/ (e = d /\ i = m + 1 /\ p[e][i] = n + 1)
      BY <1>8
    <2>6. (j \in DOMAIN o[c] /\ p[c][j] = o[c][j]) \/ (c = d /\ j = m + 1 /\ p[c][j] = n + 1)
      BY <1>8
    <2> QED
      BY <2>1, <2>2, <2>3, <2>4, <2>5, <2>6
  <1> QED
    BY <1>9, <1>10 DEF Owned, UpTo

\* What has not been stored is of what was raised.
LEMMA UnstoredOwned ==
  ASSUME NEW w, NEW u, NEW o, Books(w, u, o), Owned(o), NEW n \in Nat, UpTo(o, n)
  PROVE  Owned(u) /\ UpTo(u, n)
  <1>1. ASSUME NEW d \in MemoryDevices
        PROVE  \E m \in Nat : \A i \in DOMAIN u[d] : i \in Nat /\ m + i \in DOMAIN o[d] /\ o[d][m + i] = u[d][i]
    <2>1. w[d] \in Seq(Nat) /\ u[d] \in Seq(Nat) /\ o[d] = w[d] \o u[d]
      BY DEF Books
    <2>2. PICK a, b, c : a = w[d] /\ b = u[d] /\ c = o[d]
      OBVIOUS
    <2>3. Longer(c, a, b)
      BY <2>1, <2>2, ConcatIsLonger
    <2>4. PICK m \in Nat : Split(c, a, b, m)
      BY <2>3, LongerSplits
    <2>5. \A i \in DOMAIN b : i \in Nat /\ m + i \in DOMAIN c /\ c[m + i] = b[i]
      BY <2>4 DEF Split
    <2> QED
      BY <2>2, <2>5
  <1>2. ASSUME NEW d \in MemoryDevices, NEW i \in DOMAIN u[d] PROVE u[d][i] <= n
    <2>1. PICK m \in Nat : \A k \in DOMAIN u[d] : k \in Nat /\ m + k \in DOMAIN o[d] /\ o[d][m + k] = u[d][k]
      BY <1>1
    <2>2. m + i \in DOMAIN o[d] /\ o[d][m + i] = u[d][i]
      BY <2>1
    <2> QED
      BY <2>2 DEF UpTo
  <1>3. ASSUME NEW d \in MemoryDevices, NEW e \in MemoryDevices, NEW i \in DOMAIN u[d], NEW j \in DOMAIN u[e],
               u[d][i] = u[e][j]
        PROVE  d = e /\ i = j
    <2>1. PICK m \in Nat : \A k \in DOMAIN u[d] : k \in Nat /\ m + k \in DOMAIN o[d] /\ o[d][m + k] = u[d][k]
      BY <1>1
    <2>2. PICK h \in Nat : \A k \in DOMAIN u[e] : k \in Nat /\ h + k \in DOMAIN o[e] /\ o[e][h + k] = u[e][k]
      BY <1>1
    <2>3. m + i \in DOMAIN o[d] /\ o[d][m + i] = u[d][i]
      BY <2>1
    <2>4. h + j \in DOMAIN o[e] /\ o[e][h + j] = u[e][j]
      BY <2>2
    <2>5. d = e
      BY <1>3, <2>3, <2>4 DEF Owned
    <2>6. m + j \in DOMAIN o[d] /\ o[d][m + j] = u[d][j]
      BY <2>1, <2>5
    <2>7. m + i = m + j
      BY <1>3, <2>3, <2>5, <2>6 DEF Owned
    <2>8. i \in Nat /\ j \in Nat
      BY <2>1, <2>2
    <2> QED
      BY <2>5, <2>7, <2>8
  <1> QED
    BY <1>2, <1>3 DEF Owned, UpTo

LEMMA BooksKept ==
  ASSUME MemoryIndInv
  PROVE  /\ Books(streams, uncommitted, outstanding) /\ raised \in Nat
         /\ outstanding \in [MemoryDevices -> Seq(Nat)]
  BY DEF MemoryIndInv, MemoryTypeOK, StoredOnce, Books

LEMMA StreamsRaised ==
  ASSUME StreamsIndInv, NEW d \in MemoryDevices, AddEvent(d), MemoryIndInv'
  PROVE  StreamsIndInv'
  <1>1. /\ raised' = raised + 1 /\ outstanding' = [outstanding EXCEPT ![d] = Append(@, raised + 1)]
        /\ UNCHANGED <<global, streams, tracked>>
    BY DEF AddEvent, memoryStoreVars, unitVars
  <1>2. PICK o, n : o = outstanding /\ n = raised
    OBVIOUS
  <1>3. o \in [MemoryDevices -> Seq(Nat)] /\ n \in Nat /\ Owned(o) /\ UpTo(o, n)
    BY <1>2, BooksKept DEF StreamsIndInv
  <1>4. PICK p : p = [o EXCEPT ![d] = Append(@, n + 1)]
    OBVIOUS
  <1>5. Owned(p) /\ UpTo(p, n + 1)
    BY <1>3, <1>4, RaisedOwned
  <1>6. outstanding' = p /\ raised' = n + 1
    BY <1>1, <1>2, <1>4
  <1>7. Owned(outstanding') /\ UpTo(outstanding', raised')
    BY <1>5, <1>6
  <1> QED
    BY <1>1, <1>7 DEF StreamsIndInv

LEMMA StreamsTracked ==
  ASSUME StreamsIndInv, NEW d \in MemoryDevices, Track(d), MemoryIndInv'
  PROVE  StreamsIndInv'
  <1>1. /\ d \notin ToSet(tracked) /\ tracked' = Append(tracked, d)
        /\ UNCHANGED <<global, streams, outstanding, raised>>
    BY DEF Track, aggregateVars, memoryStoreVars
  <1>2. PICK t \in Seq(MemoryDevices) : t = tracked
    BY DEF StreamsIndInv
  <1>3. PICK m \in Nat : m = Len(t)
    BY LenProperties
  <1>4. DOMAIN t = 1 .. m /\ Once(t)
    BY <1>2, <1>3, LenProperties DEF StreamsIndInv
  <1>5. \A i \in 1 .. m : t[i] # d
    BY <1>1, <1>2, <1>4 DEF ToSet
  <1>6. /\ Append(t, d) \in Seq(MemoryDevices) /\ Append(t, d) # <<>>
        /\ Len(Append(t, d)) = Len(t) + 1
        /\ \A i \in 1 .. Len(t) : Append(t, d)[i] = t[i]
        /\ Append(t, d)[Len(t) + 1] = d
    BY AppendProperties
  <1>7. PICK s \in Seq(MemoryDevices) : s = Append(t, d)
    BY <1>6
  <1>8. DOMAIN s = 1 .. m + 1 /\ s[m + 1] = d /\ \A i \in 1 .. m : s[i] = t[i]
    BY <1>3, <1>6, <1>7, LenProperties
  <1>9. Once(s)
    <2> SUFFICES ASSUME NEW i \in DOMAIN s, NEW j \in DOMAIN s, s[i] = s[j] PROVE i = j
      BY DEF Once
    <2>1. CASE i \in 1 .. m /\ j \in 1 .. m
      BY <1>4, <1>8, <2>1 DEF Once
    <2>2. CASE i = m + 1 \/ j = m + 1
      BY <1>5, <1>8, <2>2
    <2> QED
      BY <1>8, <2>1, <2>2
  <1>10. tracked' = s
    BY <1>1, <1>2, <1>7
  <1> QED
    BY <1>1, <1>9, <1>10 DEF StreamsIndInv

LEMMA StreamsCommitted ==
  ASSUME StreamsIndInv, Commit, MemoryIndInv'
  PROVE  StreamsIndInv'
  <1>1. PICK n : n = Accepted(tracked)
    OBVIOUS
  <1>2. PICK t \in Seq(MemoryDevices), m \in Nat : t = tracked /\ m = Len(t)
    <2>1. tracked \in Seq(MemoryDevices)
      BY DEF StreamsIndInv
    <2> QED
      BY <2>1, LenProperties
  <1>3. DOMAIN t = 1 .. m /\ Once(t)
    BY <1>2, LenProperties DEF StreamsIndInv
  <1>4. n \in Nat /\ n <= m
    <2>1. PICK S, T : T = {i \in DOMAIN t : \A j \in 1 .. i : ~Refused(t[j])} /\ S = 1 .. m
      OBVIOUS
    <2>2. IsFiniteSet(S) /\ Cardinality(S) = m
      <3>1. 1 \in Int /\ m \in Int
        OBVIOUS
      <3>2. IsFiniteSet(1 .. m) /\ Cardinality(1 .. m) = IF 1 > m THEN 0 ELSE m - 1 + 1
        BY <3>1, FS_Interval
      <3> QED
        BY <2>1, <3>2
    <2>3. T \in SUBSET S
      BY <1>3, <2>1
    <2>4. IsFiniteSet(T) /\ Cardinality(T) <= Cardinality(S)
      BY <2>2, <2>3, FS_Subset
    <2>5. Cardinality(T) \in Nat
      BY <2>4, FS_CardinalityType
    <2>6. n = Cardinality(T)
      BY <1>1, <1>2, <2>1 DEF Accepted
    <2> QED
      BY <2>2, <2>4, <2>5, <2>6
  <1>5. /\ streams' = [d \in MemoryDevices |-> IF d \in {t[i] : i \in 1 .. n} THEN streams[d] \o uncommitted[d]
                                               ELSE streams[d]]
        /\ global' = StoredThrough(t, n)
        /\ tracked' = t \/ tracked' = <<>>
        /\ UNCHANGED <<outstanding, raised>>
    BY <1>1, <1>2 DEF Commit
  <1>6. PICK g, w, u, o : g = global /\ w = streams /\ u = uncommitted /\ o = outstanding
    OBVIOUS
  <1>7. Agree(g, w) /\ Books(w, u, o) /\ Owned(o)
    BY <1>6, BooksKept DEF StreamsIndInv
  <1>8. \A k \in 1 .. n : u[t[k]] \in Seq(Nat)
    <2> SUFFICES ASSUME NEW k \in 1 .. n PROVE u[t[k]] \in Seq(Nat)
      OBVIOUS
    <2>1. k \in 1 .. Len(t)
      BY <1>2, <1>4
    <2>2. t[k] \in MemoryDevices
      BY <2>1, ElementOfSeq
    <2> QED
      BY <1>7, <2>2 DEF Books
  <1>9. global \in Seq(Nat) /\ \A k \in 1 .. n : uncommitted[t[k]] \in Seq(Nat)
    BY <1>6, <1>7, <1>8 DEF Agree
  <1>10. PICK f : /\ f[0] = global /\ f[n] = StoredThrough(t, n)
                  /\ \A k \in Nat : k < n => f[k + 1] = f[k] \o uncommitted[t[k + 1]]
    BY <1>4, <1>9, StoredBlocks
  <1>11. f[0] = g /\ \A k \in Nat : k < n => f[k + 1] = f[k] \o u[t[k + 1]]
    BY <1>6, <1>10
  <1>12. n <= Len(t)
    BY <1>2, <1>4
  <1>13. Agree(f[n], WithStored(w, u, t, n))
    BY <1>3, <1>4, <1>7, <1>11, <1>12, BlocksAppended
  <1>14. streams' = WithStored(w, u, t, n)
    <2>1. \A d : d \in {t[i] : i \in 1 .. n} <=> \E i \in 1 .. n : t[i] = d
      OBVIOUS
    <2>2. streams' = [d \in MemoryDevices |-> IF \E i \in 1 .. n : t[i] = d THEN streams[d] \o uncommitted[d]
                                              ELSE streams[d]]
      BY <1>5, <2>1
    <2> QED
      BY <1>6, <2>2 DEF WithStored
  <1>15. Agree(global', streams')
    BY <1>5, <1>10, <1>13, <1>14
  <1>16. tracked' \in Seq(MemoryDevices) /\ Once(tracked')
    <2>1. PICK e \in Seq(MemoryDevices) : e = <<>> /\ DOMAIN e = {}
      BY EmptyHasNoPlaces
    <2>2. Once(e)
      BY <2>1 DEF Once
    <2>3. tracked' = t \/ tracked' = e
      BY <1>5, <2>1
    <2> QED
      BY <1>3, <2>2, <2>3
  <1> QED
    BY <1>5, <1>15, <1>16 DEF StreamsIndInv

LEMMA StreamsCleared ==
  ASSUME StreamsIndInv, ClearMemory, MemoryIndInv'
  PROVE  StreamsIndInv'
  <1>1. /\ tracked' = <<>> /\ global' = <<>> /\ outstanding' = uncommitted /\ raised' = raised
        /\ streams' = [d \in MemoryDevices |-> <<>>]
    BY DEF ClearMemory
  <1>2. PICK w, u, o, n : w = streams /\ u = uncommitted /\ o = outstanding /\ n = raised
    OBVIOUS
  <1>3. Books(w, u, o) /\ Owned(o) /\ UpTo(o, n)
    BY <1>2, BooksKept DEF StreamsIndInv
  <1>4. Owned(u) /\ UpTo(u, n)
    <2>1. n \in Nat
      BY <1>2, BooksKept DEF StreamsIndInv
    <2> QED
      BY <1>3, <2>1, UnstoredOwned
  <1>5. Owned(outstanding') /\ UpTo(outstanding', raised')
    BY <1>1, <1>2, <1>4
  <1>6. Agree(global', streams')
    BY <1>1, EmptyAgree
  <1>7. PICK e \in Seq(MemoryDevices) : e = <<>> /\ DOMAIN e = {}
    BY EmptyHasNoPlaces
  <1>8. tracked' \in Seq(MemoryDevices) /\ Once(tracked')
    BY <1>1, <1>7 DEF Once
  <1> QED
    BY <1>5, <1>6, <1>8 DEF StreamsIndInv

LEMMA StreamsStepKeeps ==
  ASSUME StreamsIndInv, [MemoryNext]_memoryVars
  PROVE  StreamsIndInv'
  <1>1. MemoryIndInv'
    BY MemoryKeeps DEF StreamsIndInv
  <1>2. ASSUME NEW d \in MemoryDevices, CreateDevice(d) \/ UpdateDevice(d) \/ ConfigureDevice(d) \/ RecordMetrics(d)
        PROVE  StreamsIndInv'
    <2>1. AddEvent(d)
      BY <1>2 DEF CreateDevice, UpdateDevice, ConfigureDevice, RecordMetrics
    <2> QED
      BY <1>1, <2>1, StreamsRaised
  <1>3. ASSUME NEW d \in MemoryDevices, Track(d) PROVE StreamsIndInv'
    BY <1>1, <1>3, StreamsTracked
  <1>4. CASE Commit
    BY <1>1, <1>4, StreamsCommitted
  <1>5. CASE ClearMemory
    BY <1>1, <1>5, StreamsCleared
  <1>6. CASE UNCHANGED <<aggregateVars, memoryStoreVars>> /\ (UNCHANGED tracked \/ tracked' = <<>>)
    <2>1. PICK e \in Seq(MemoryDevices) : e = <<>> /\ DOMAIN e = {}
      BY EmptyHasNoPlaces
    <2>2. tracked' \in Seq(MemoryDevices) /\ Once(tracked')
      BY <1>6, <2>1 DEF Once, StreamsIndInv
    <2> QED
      BY <1>1, <1>6, <2>2 DEF StreamsIndInv, aggregateVars, memoryStoreVars
  <1> QED
    BY <1>2, <1>3, <1>4, <1>5, <1>6 DEF MemoryNext, SaveDevice, DropDevice, CommitAgain, Rollback, memoryVars, unitVars

LEMMA MemoryIsRight == StreamsIndInv => MemoryInv
  <1> SUFFICES ASSUME StreamsIndInv PROVE MemoryInv
    OBVIOUS
  <1>1. MemoryIndInv
    BY DEF StreamsIndInv
  <1>2. PICK g, w : g = global /\ w = streams
    OBVIOUS
  <1>3. Agree(g, w)
    BY <1>2 DEF StreamsIndInv
  <1>4. ToSet(g) = UNION {ToSet(w[d]) : d \in MemoryDevices}
    <2>1. \A x : x \in ToSet(g) <=> \E i \in DOMAIN g : g[i] = x
      BY DEF ToSet
    <2>2. \A d \in MemoryDevices : \A x : x \in ToSet(w[d]) <=> \E i \in DOMAIN w[d] : w[d][i] = x
      BY DEF ToSet
    <2>3. \A x : (\E i \in DOMAIN g : g[i] = x) <=> \E d \in MemoryDevices : \E i \in DOMAIN w[d] : w[d][i] = x
      BY <1>3 DEF Agree
    <2>4. ASSUME NEW x PROVE x \in ToSet(g) <=> \E d \in MemoryDevices : x \in ToSet(w[d])
      <3>1. (\E i \in DOMAIN g : g[i] = x) <=> \E d \in MemoryDevices : \E i \in DOMAIN w[d] : w[d][i] = x
        BY <2>3
      <3>2. \A d \in MemoryDevices : x \in ToSet(w[d]) <=> \E i \in DOMAIN w[d] : w[d][i] = x
        BY <2>2
      <3> QED
        BY <2>1, <3>1, <3>2, Zenon
    <2> QED
      BY <2>4
  <1>5. StreamsAgree
    BY <1>2, <1>3, <1>4 DEF Agree, StreamsAgree
  <1>6. StoredOnce /\ NeverRefusedInVain /\ LatestMetrics
    BY <1>1, MemoryBooksRight
  <1> QED
    BY <1>5, <1>6 DEF MemoryInv


-----------------------------------------------------------------------------
(* A table and its file *)

\* The table and its file: the last restoring is of the file that is there, so the invariant is
\* inductive as it stands.
LEMMA TableStepKeeps == RestoredAsSaved /\ [TableNext]_tableVars => RestoredAsSaved'
  <1> SUFFICES ASSUME RestoredAsSaved, [TableNext]_tableVars PROVE RestoredAsSaved'
    OBVIOUS
  <1>1. ASSUME reported' = FALSE PROVE RestoredAsSaved'
    BY <1>1 DEF RestoredAsSaved
  <1>2. ASSUME NEW c \in (SUBSET Columns) \ {{}}, AlterTable(c) PROVE RestoredAsSaved'
    BY <1>1, <1>2 DEF AlterTable
  <1>3. ASSUME NEW d \in SUBSET Data, Write(d) PROVE RestoredAsSaved'
    BY <1>1, <1>3 DEF Write
  <1>4. CASE BackupTableData
    BY <1>1, <1>4 DEF BackupTableData
  <1>5. CASE RestoreTableData
    <2>1. saved' = saved
      BY <1>5 DEF RestoreTableData
    <2>2. saved.data = {} \/ tuples' = saved.data \/ reported' = FALSE
      BY <1>5 DEF RestoreTableData, Replaced
    <2> QED
      BY <1>1, <2>1, <2>2 DEF RestoredAsSaved
  <1>6. CASE UNCHANGED tableVars
    BY <1>6 DEF tableVars, RestoredAsSaved
  <1> QED
    BY <1>2, <1>3, <1>4, <1>5, <1>6 DEF TableNext

\* A reported restoring has left the table with the rows of its file: `restore_table_data`, after
\* any writes, column changes and other backups in between.
THEOREM TableIsRestored == TableSpec => []RestoredAsSaved
  <1>1. TableInit => RestoredAsSaved
    BY DEF TableInit, RestoredAsSaved
  <1> QED
    BY <1>1, TableStepKeeps, PTL DEF TableSpec

\* A copy holds the schema as it was before the operation that made it, and only the clock's
\* second decides which copy is replaced: `migrate_to_latest` and `rollback_to_revision` copy first.
LEMMA CopiedBefore ==
  ASSUME [MigrationsNext]_migVars, NEW s \in DOMAIN copies, copies'[s] # copies[s]
  PROVE  s = second /\ copies'[s] = schema
  <1>1. ASSUME NEW c \in BOOLEAN, Copied(c) PROVE s = second /\ copies'[s] = schema
    BY <1>1 DEF Copied
  <1>2. copies' # copies
    OBVIOUS
  <1>3. PICK c \in BOOLEAN, n \in 0 .. MaxScripts : MigrateToLatest(c, n) \/ RollbackToRevision(c, n)
    BY <1>2 DEF MigrationsNext, ModelsChange, GenerateMigration, CreateTables, DropTables, SecondPasses, migVars
  <1> QED
    BY <1>1, <1>3 DEF MigrateToLatest, RollbackToRevision

-----------------------------------------------------------------------------
(* Each store by itself *)

\* The schema of the database is what the scripts up to its revision make of an empty one, for any
\* models and any number of scripts: `DatabaseMigrator`, with half-way failures and rollbacks.
THEOREM SchemaIsOfRevision == MigrationsSpec => []SchemaFollowsRevision
  BY MigrationsInitially, MigrationsStepKeeps, MigrationsChecked, PTL DEF MigrationsSpec

\* However commits fail half-way, are rolled back or repeated: every event is stored once and in its
\* order or is still to be stored, the stream of all events has those of each device in their order,
\* a commit is refused only for a device that was configured or stored before the store was cleared,
\* and an aggregate has its latest metrics
\* (InMemoryUnitOfWork.commit, InMemoryEventStore.save_events, DeviceAggregate.record_metrics).
THEOREM MemoryKeepsEvents == MemorySpec => []MemoryInv
  BY StreamsInitially, StreamsStepKeeps, MemoryIsRight, PTL DEF MemorySpec

-----------------------------------------------------------------------------
(* All that is stored *)

\* What every part keeps, beside the device store.
PartsFollow ==
    /\ MigrationsFollow /\ RestoredAsSaved /\ AlertFollows /\ GroupsFollow
    /\ RowFollows /\ QueriesIndInv /\ SchemasTyped /\ DataTyped /\ HealthFollows
    /\ SecretsFollow /\ ContextFollows /\ HandlerFollows /\ StreamsIndInv

\* A step is one of a part, and of the others none.
LEMMA PartsStep ==
  ASSUME [Next]_storesVars
  PROVE  /\ [StoreNext]_vars
         /\ [MigrationsNext]_migVars /\ [TableNext]_tableVars /\ [AlertRowsNext]_alertRowVars /\ [GroupsNext]_groupVars
         /\ [DeviceRowsNext]_deviceRowVars /\ [QueriesNext]_queryVars /\ [SchemasNext]_schemaVars
         /\ [DataNext]_checkedVars /\ [DeviceHealthNext]_healthVars
         /\ [SecretsNext]_secretVars /\ [LogNext]_logVars /\ [MemoryNext]_memoryVars
  <1>1. \/ StoreNext /\ UNCHANGED <<recordVars, checkVars, coreVars>>
        \/ NextRecord /\ UNCHANGED <<vars, checkVars, coreVars>>
        \/ NextCheck /\ UNCHANGED <<vars, recordVars, coreVars>>
        \/ NextCore /\ UNCHANGED <<vars, recordVars, checkVars>>
        \/ UNCHANGED <<vars, recordVars, checkVars, coreVars>>
    BY DEF Next, storesVars
  <1>2. NextRecord \/ UNCHANGED recordVars
    BY <1>1
  <1>3. NextCheck \/ UNCHANGED checkVars
    BY <1>1
  <1>4. NextCore \/ UNCHANGED coreVars
    BY <1>1
  <1>5. [StoreNext]_vars
    BY <1>1
  <1>6. [MigrationsNext]_migVars /\ [TableNext]_tableVars /\ [AlertRowsNext]_alertRowVars /\ [GroupsNext]_groupVars
    BY <1>2 DEF NextRecord, recordVars
  <1>7. /\ [DeviceRowsNext]_deviceRowVars /\ [QueriesNext]_queryVars /\ [SchemasNext]_schemaVars
        /\ [DataNext]_checkedVars /\ [DeviceHealthNext]_healthVars
    BY <1>3 DEF NextCheck, checkVars
  <1>8. [SecretsNext]_secretVars /\ [LogNext]_logVars /\ [MemoryNext]_memoryVars
    BY <1>4 DEF NextCore, coreVars
  <1> QED
    BY <1>5, <1>6, <1>7, <1>8

LEMMA PartsBegin == Init => PartsFollow
  <1> SUFFICES ASSUME Init PROVE PartsFollow
    OBVIOUS
  <1>1. RestoredAsSaved
    BY DEF Init, TableInit, RestoredAsSaved
  <1> QED
    BY <1>1, MigrationsInitially, AlertInitially, GroupsInitially, DeviceRowsInitially, QueriesInitially,
       SchemasInitially, DataInitially, HealthInitially, SecretsInitially, LogInitially, StreamsInitially
    DEF Init, PartsFollow

LEMMA PartsKeep == PartsFollow /\ [Next]_storesVars => PartsFollow'
  <1> SUFFICES ASSUME PartsFollow, [Next]_storesVars PROVE PartsFollow'
    OBVIOUS
  <1>1. MigrationsFollow' /\ RestoredAsSaved' /\ AlertFollows' /\ GroupsFollow'
    BY PartsStep, MigrationsStepKeeps, TableStepKeeps, AlertStepKeeps, GroupsStepKeeps DEF PartsFollow
  <1>2. RowFollows' /\ QueriesIndInv' /\ SchemasTyped' /\ DataTyped' /\ HealthFollows'
    BY PartsStep, DeviceRowsStepKeeps, QueriesStepKeeps, SchemasStepKeeps, DataStepKeeps, HealthStepKeeps
    DEF PartsFollow
  <1>3. SecretsFollow' /\ ContextFollows' /\ HandlerFollows' /\ StreamsIndInv'
    BY PartsStep, SecretsStepKeeps, LogStepKeeps, StreamsStepKeeps DEF PartsFollow
  <1> QED
    BY <1>1, <1>2, <1>3 DEF PartsFollow

LEMMA PartsAreRight ==
  PartsFollow => /\ SchemaFollowsRevision /\ RestoredAsSaved /\ AlertRowInv /\ GroupInv
                 /\ DeviceRowInv /\ QueriesInv /\ SchemaInv /\ DataInv /\ HealthToldInv
                 /\ SecretsInv /\ LogInv /\ MemoryInv
  BY MigrationsChecked, AlertChecked, GroupsChecked, DeviceRowsChecked, QueriesAreRight, SchemasChecked,
     DataChecked, HealthIsRight, SecretsChecked, LogChecked, MemoryIsRight DEF PartsFollow

\* Every part of what is stored, shown and logged has its invariant, whatever moves: an alert's row,
\* the counts of groups, the schema with its revision, a restored table, the pages of a list, what
\* the checks answer, the secrets and the log.
THEOREM PartsStayRight ==
  Spec => [](/\ SchemaFollowsRevision /\ RestoredAsSaved /\ AlertRowInv /\ GroupInv
             /\ DeviceRowInv /\ QueriesInv /\ SchemaInv /\ DataInv /\ HealthToldInv
             /\ SecretsInv /\ LogInv /\ MemoryInv)
  BY PartsBegin, PartsKeep, PartsAreRight, PTL DEF Spec

\* With one client and no faults what the device store's events are read as is right too: the
\* invariant of all parts.
THEOREM RecordsAreRight ==
  ASSUME Alone, PlainKinds, ~Faults
  PROVE  Spec => []RecordsInv
  <1>1. Init => PartsFollow /\ AloneReads
    BY PartsBegin, ReadsInitially DEF Init
  <1>2. PartsFollow /\ AloneReads /\ [Next]_storesVars => (PartsFollow /\ AloneReads)'
    BY PartsKeep, PartsStep, ReadsNext
  <1>3. PartsFollow /\ AloneReads => RecordsInv
    <2> SUFFICES ASSUME PartsFollow, AloneReads PROVE RecordsInv
      OBVIOUS
    <2>1. EventReadsInv
      BY ReadsAreRight
    <2> QED
      BY <2>1, PartsAreRight DEF RecordsInv
  <1> QED
    BY <1>1, <1>2, <1>3, PTL DEF Spec

\* A migration's copies are of before it, whatever else moves.
THEOREM CopiesStay == Spec => CopiesAreOfBefore
  <1>1. [Next]_storesVars => [\A s \in DOMAIN copies : copies'[s] # copies[s] => s = second /\ copies'[s] = schema]_migVars
    BY PartsStep, CopiedBefore
  <1> QED
    BY <1>1, PTL DEF Spec, CopiesAreOfBefore

=============================================================================
