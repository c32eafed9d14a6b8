-------------------------- MODULE AlertManagerProofs --------------------------
(* Theorems about AlertManager: the types, one open alert per trouble, the   *)
(* decisions of operators, and the books.                                   *)
EXTENDS AlertManager, FiniteSetTheorems, WellFoundedInduction, TLAPS

\* A set of natural numbers that is not empty has a least element, which is what
\* Least returns.
LEMMA LeastIn ==
  ASSUME NEW S \in SUBSET Nat, S # {}
  PROVE  Least(S) \in S /\ \A j \in S : Least(S) <= j
  <1> DEFINE R == OpToRel(<, Nat)
  <1>0. IsWellFoundedOn(R, Nat)
    BY NatLessThanWellFounded
  <1>a. R = {p \in Nat \X Nat : p[1] < p[2]}
    BY DEF OpToRel
  <1> HIDE DEF R
  <1>b. \A x, y \in Nat : y < x => <<y, x>> \in R
    BY <1>a
  <1>1. PICK x \in S : \A y \in S : ~(<<y, x>> \in R)
    BY <1>0, WFMin
  <1>2. ASSUME NEW y \in S PROVE x <= y
    <2>1. x \in Nat /\ y \in Nat /\ ~(<<y, x>> \in R)
      BY <1>1
    <2>2. ~(y < x)
      BY <1>b, <2>1
    <2> QED
      BY <2>1, <2>2
  <1> QED
    BY <1>2 DEF Least

\* The places of the rules are finitely many, so their number is a number.
LEMMA PlacesType ==
  ASSUME TypeOK
  PROVE  Places \subseteq Nat /\ Cardinality(Places) \in Nat
  <1>1. DOMAIN rules = 1 .. Len(rules) /\ Len(rules) \in Nat
    BY DEF TypeOK
  <1>2. IsFiniteSet(1 .. Len(rules))
    BY <1>1, FS_Interval
  <1> QED
    BY <1>1, <1>2, FS_Subset, FS_CardinalityType DEF Places

\* Changing an alert that exists, or appending one, gives alerts with the same ids.
LEMMA AlertsType ==
  ASSUME alerts \in Seq(Alert), NEW alert \in Alert
  PROVE  /\ \A a \in DOMAIN alerts : /\ [alerts EXCEPT ![a] = alert] \in Seq(Alert)
                                     /\ DOMAIN [alerts EXCEPT ![a] = alert] = DOMAIN alerts
         /\ Append(alerts, alert) \in Seq(Alert)
         /\ DOMAIN Append(alerts, alert) = DOMAIN alerts \cup {Len(alerts) + 1}
         /\ Append(alerts, alert)[Len(alerts) + 1] = alert
         /\ \A a \in DOMAIN alerts : Append(alerts, alert)[a] = alerts[a]
  OBVIOUS

\* Initially the types are right.
LEMMA TypeInit == Init => TypeOK
  BY AlertAssumption DEF Init, TypeOK, NoIter

\* What a suppress action and what an escalation make of an alert is an alert.
LEMMA ChangedType ==
  ASSUME NEW alert \in Alert
  PROVE  /\ Escalated(alert) \in Alert
         /\ [alert EXCEPT !.count = @ + 1] \in Alert
         /\ \A s \in Status : [alert EXCEPT !.status = s] \in Alert
         /\ [alert EXCEPT !.status = "suppressed", !.suppressed = TRUE] \in Alert
  <1>1. alert.severity \in Severity /\ alert.level \in Nat /\ alert.count \in Nat \ {0}
    BY DEF Alert
  <1>2. Raised(alert.severity) \in Severity
    BY <1>1 DEF Raised, Severity
  <1>3. alert.level + 1 \in Nat /\ alert.count + 1 \in Nat \ {0}
    BY <1>1
  <1>4. Escalated(alert) \in Alert
    BY <1>2, <1>3 DEF Alert, Escalated
  <1>5. [alert EXCEPT !.count = @ + 1] \in Alert
    BY <1>3 DEF Alert
  <1>6. /\ \A s \in Status : [alert EXCEPT !.status = s] \in Alert
        /\ [alert EXCEPT !.status = "suppressed", !.suppressed = TRUE] \in Alert
    BY DEF Alert, Status
  <1> QED
    BY <1>4, <1>5, <1>6

\* Alerts that are changed only, without new ids, keep the types, as long as none
\* that stays active becomes resolved.
LEMMA TypeChange ==
  ASSUME TypeOK, alerts' \in Seq(Alert), DOMAIN alerts' = DOMAIN alerts,
         active' \subseteq active, \A a \in active' : alerts'[a].status # "resolved",
         UNCHANGED <<history, rules, making, iter, notified, raised>>,
         current' \in Callers \cup {Nobody},
         todo' \in [Callers -> Seq(Action)], calls' \in [Keys -> Nat],
         \A c \in Callers : making[c] = 0 => todo'[c] = <<>>
  PROVE  TypeOK'
  BY DEF TypeOK

\* A call of create_alert that makes an alert keeps the types.
LEMMA TypeCreate ==
  ASSUME TypeOK, NEW c \in Callers, NEW k \in Keys, NEW s \in Severities, Create(c, k, s)
  PROVE  TypeOK'
  <1> DEFINE a == Len(alerts) + 1
             quiet == <<k, s>> \in Suppressed
             alert == [key |-> k, severity |-> s, level |-> 0, count |-> 1,
                       status |-> IF quiet THEN "suppressed" ELSE "active",
                       suppressed |-> quiet]
  <1>1. alert \in Alert /\ alert.status # "resolved"
    BY AlertAssumption DEF Alert, Status, Severity
  <1>2. /\ alerts' = Append(alerts, alert)
        /\ active' = active \cup {a}
        /\ Remember(a, alert)
        /\ making' = [making EXCEPT ![c] = a]
        /\ iter' = [iter EXCEPT ![c] = [used |-> Cardinality(Places), pos |-> 0,
                                        left |-> Cardinality(Places)]]
        /\ current' = c
        /\ calls' = [calls EXCEPT ![k] = @ + 1]
        /\ making[c] = 0
        /\ UNCHANGED <<rules, todo, notified, raised>>
    BY DEF Create, Calls
  <1> HIDE DEF alert
  <1>3. /\ alerts' \in Seq(Alert)
        /\ DOMAIN alerts' = DOMAIN alerts \cup {a}
        /\ alerts'[a] = alert /\ \A b \in DOMAIN alerts : alerts'[b] = alerts[b]
    BY <1>1, <1>2, AlertsType DEF TypeOK
  <1>4. DOMAIN history' \subseteq DOMAIN history \cup {a}
        /\ \A b \in DOMAIN history' : history'[b] = IF b = a THEN alert ELSE history[b]
    BY <1>2 DEF Remember
  <1>5. /\ active' \subseteq DOMAIN alerts' /\ \A b \in active' : alerts'[b].status # "resolved"
        /\ DOMAIN history' \subseteq DOMAIN alerts' /\ \A b \in DOMAIN history' : history'[b] \in Alert
    BY <1>1, <1>2, <1>3, <1>4 DEF TypeOK
  <1>6. /\ making' \in [Callers -> DOMAIN alerts' \cup {0}]
        /\ notified' \cup raised' \subseteq DOMAIN alerts'
    BY <1>2, <1>3 DEF TypeOK
  <1>7. /\ iter' \in [Callers -> [used : Nat, pos : Nat, left : Nat]]
        /\ calls' \in [Keys -> Nat]
    <2>1. Cardinality(Places) \in Nat
      BY PlacesType
    <2>2. iter' \in [Callers -> [used : Nat, pos : Nat, left : Nat]]
      BY <1>2, <2>1 DEF TypeOK
    <2>3. calls' \in [Keys -> Nat]
      BY <1>2 DEF TypeOK
    <2> QED
      BY <2>2, <2>3
  <1>8. a # 0
    BY DEF TypeOK
  <1>9. \A d \in Callers : making'[d] = 0 => todo'[d] = <<>> /\ iter'[d] = NoIter
    BY <1>2, <1>8 DEF TypeOK
  <1> QED
    BY <1>2, <1>3, <1>5, <1>6, <1>7, <1>9 DEF TypeOK

\* The steps of a call that processes the rules keep the types.
LEMMA TypeRules ==
  ASSUME TypeOK, NEW c \in Callers, ProcessRules(c)
  PROVE  TypeOK'
  <1>1. Goes(c) => making[c] \in DOMAIN alerts /\ making[c] # 0
    BY DEF Goes, TypeOK
  <1>2. CASE NextRule(c)
    <2>1. Ahead(c) \in SUBSET Nat /\ Ahead(c) \subseteq Places /\ Ahead(c) # {}
      BY <1>2, PlacesType DEF NextRule, Ahead
    <2>2. PICK i \in Ahead(c) :
             /\ iter' = [iter EXCEPT ![c].pos = i, ![c].left = @ - 1]
             /\ todo' = [todo EXCEPT ![c] = IF Its(c).severity \in RuleMatches[rules[i]]
                                            THEN RuleActions[rules[i]] ELSE <<>>]
      BY <1>2, <2>1, LeastIn DEF NextRule
    <2>3. rules[i] \in Rules /\ i \in Nat
      BY <2>1 DEF Places, TypeOK
    <2>4. todo' \in [Callers -> Seq(Action)]
      BY <2>2, <2>3, AlertAssumption DEF TypeOK
    <2>5. iter[c] \in [used : Nat, pos : Nat, left : Nat] /\ iter[c].left # 0
      BY <1>2 DEF NextRule, IterFails, TypeOK
    <2>6. iter' \in [Callers -> [used : Nat, pos : Nat, left : Nat]]
      BY <2>2, <2>3, <2>5 DEF TypeOK
    <2>7. \A d \in Callers : making[d] = 0 => todo'[d] = todo[d] /\ iter'[d] = iter[d]
      BY <1>1, <1>2, <2>2 DEF NextRule, TypeOK
    <2> QED
      BY <1>2, <2>4, <2>6, <2>7 DEF NextRule, TypeOK
  <1>3. ASSUME Ends(c)
        PROVE  /\ making' \in [Callers -> DOMAIN alerts \cup {0}]
               /\ iter' \in [Callers -> [used : Nat, pos : Nat, left : Nat]]
               /\ todo' \in [Callers -> Seq(Action)]
               /\ \A d \in Callers : making'[d] = 0 => todo'[d] = <<>> /\ iter'[d] = NoIter
               /\ current' = Nobody
    BY <1>3 DEF Ends, NoIter, TypeOK
  <1>4. CASE RulesChanged(c)
    BY <1>1, <1>3, <1>4 DEF RulesChanged, TypeOK
  <1>5. CASE RulesDone(c)
    BY <1>1, <1>3, <1>5 DEF RulesDone, TypeOK
  <1>6. ASSUME NEW action, Does(c, action)
        PROVE  /\ making[c] \in DOMAIN alerts
               /\ todo' \in [Callers -> Seq(Action)]
               /\ \A d \in Callers : making[d] = 0 => todo'[d] = <<>>
               /\ UNCHANGED <<active, history, rules, making, iter, notified, raised, calls>>
    <2>1. todo[c] \in Seq(Action) /\ todo[c] # <<>> /\ making[c] \in DOMAIN alerts
      BY <1>1, <1>6 DEF Does, TypeOK
    <2>2. Tail(todo[c]) \in Seq(Action)
      BY <2>1
    <2> QED
      BY <1>1, <1>6, <2>1, <2>2 DEF Does, TypeOK
  <1>7. ASSUME NEW action, Does(c, action), current' \in {c, Nobody}, UNCHANGED alerts
        PROVE  TypeOK'
    BY <1>6, <1>7, TypeChange DEF TypeOK
  <1>8. ASSUME NEW action, Does(c, action), current' \in {c, Nobody}, NEW alert \in Alert,
               alert.status # "resolved" \/ making[c] \notin active,
               alerts' = [alerts EXCEPT ![making[c]] = alert]
        PROVE  TypeOK'
    <2>1. making[c] \in DOMAIN alerts
      BY <1>6, <1>8
    <2>2. alerts' \in Seq(Alert) /\ DOMAIN alerts' = DOMAIN alerts
      BY <1>8, <2>1, AlertsType DEF TypeOK
    <2>3. \A a \in active : alerts'[a].status # "resolved"
      BY <1>8 DEF TypeOK
    <2> QED
      BY <1>6, <1>8, <2>2, <2>3, TypeChange DEF TypeOK
  <1>9. CASE Suppress(c)
    <2> DEFINE alert == [alerts[making[c]] EXCEPT !.status = "suppressed", !.suppressed = TRUE]
    <2>1. making[c] \in DOMAIN alerts
      BY <1>6, <1>9 DEF Suppress
    <2>2. alerts[making[c]] \in Alert
      BY <2>1 DEF TypeOK
    <2>3. alert \in Alert /\ alert.status # "resolved"
      BY <2>2, ChangedType DEF Alert
    <2>4. alerts' = [alerts EXCEPT ![making[c]] = alert]
      BY <1>9 DEF Suppress
    <2> HIDE DEF alert
    <2> QED
      BY <1>8, <1>9, <2>3, <2>4 DEF Suppress
  <1>10. CASE EscalateByRule(c)
    <2>1. CASE making[c] \in active
      <3>1. making[c] \in DOMAIN alerts
        BY <1>6, <1>10 DEF EscalateByRule
      <3>2. alerts[making[c]] \in Alert /\ alerts[making[c]].status # "resolved"
        BY <2>1, <3>1 DEF TypeOK
      <3>3. Escalated(alerts[making[c]]) \in Alert
        BY <3>2, ChangedType
      <3>4. Escalated(alerts[making[c]]).status # "resolved"
        BY <3>2 DEF Escalated, Alert
      <3>5. alerts' = [alerts EXCEPT ![making[c]] = Escalated(alerts[making[c]])] /\ current' = Nobody
        BY <1>10, <2>1 DEF EscalateByRule
      <3> QED
        BY <1>8, <1>10, <3>3, <3>4, <3>5 DEF EscalateByRule
    <2>2. CASE making[c] \notin active
      BY <1>7, <1>10, <2>2 DEF EscalateByRule
    <2> QED
      BY <2>1, <2>2
  <1>11. CASE NotifyByRule(c) \/ ActionFails(c)
    BY <1>7, <1>11 DEF NotifyByRule, ActionFails
  <1> QED
    BY <1>2, <1>4, <1>5, <1>9, <1>10, <1>11 DEF ProcessRules

\* The steps of operators keep the types.
LEMMA TypeOperators ==
  ASSUME TypeOK,
         \/ \E a \in active : Acknowledge(a) \/ Resolve(a) \/ Escalate(a)
         \/ \E r \in Rules : AddAlertRule(r) \/ RemoveAlertRule(r)
  PROVE  TypeOK'
  <1>1. ASSUME NEW a \in active, NEW alert \in Alert,
               alerts' = [alerts EXCEPT ![a] = alert],
               \/ alert.status # "resolved" /\ UNCHANGED active
               \/ active' = active \ {a},
               UNCHANGED rules, Operates
        PROVE  TypeOK'
    <2>1. alerts' \in Seq(Alert) /\ DOMAIN alerts' = DOMAIN alerts
      BY <1>1, AlertsType DEF TypeOK
    <2>2. active' \subseteq active /\ \A b \in active' : alerts'[b].status # "resolved"
      BY <1>1 DEF TypeOK
    <2> QED
      BY <1>1, <2>1, <2>2, TypeChange DEF Operates, callVars, TypeOK
  <1>2. ASSUME NEW a \in active, Acknowledge(a) PROVE TypeOK'
    <2> DEFINE alert == [alerts[a] EXCEPT !.status = "acknowledged"]
    <2>1. alerts[a] \in Alert
      BY DEF TypeOK
    <2>2. alert \in Alert /\ alert.status # "resolved"
      BY <2>1, ChangedType DEF Alert, Status
    <2>3. alerts' = [alerts EXCEPT ![a] = alert]
      BY <1>2 DEF Acknowledge
    <2> HIDE DEF alert
    <2> QED
      BY <1>1, <1>2, <2>2, <2>3 DEF Acknowledge
  <1>3. ASSUME NEW a \in active, Resolve(a) PROVE TypeOK'
    <2> DEFINE alert == [alerts[a] EXCEPT !.status = "resolved"]
    <2>0. alerts[a] \in Alert
      BY DEF TypeOK
    <2>1. alert \in Alert
      BY <2>0, ChangedType DEF Status
    <2>2. alerts' = [alerts EXCEPT ![a] = alert]
      BY <1>3 DEF Resolve
    <2> HIDE DEF alert
    <2> QED
      BY <1>1, <1>3, <2>1, <2>2 DEF Resolve
  <1>4. ASSUME NEW a \in active, Escalate(a) PROVE TypeOK'
    <2>1. alerts[a] \in Alert /\ alerts[a].status # "resolved"
      BY DEF TypeOK
    <2>2. Escalated(alerts[a]) \in Alert
      BY <2>1, ChangedType
    <2>3. Escalated(alerts[a]).status # "resolved"
      BY <2>1 DEF Escalated, Alert
    <2> QED
      BY <1>1, <1>4, <2>2, <2>3 DEF Escalate
  <1>5. ASSUME NEW r \in Rules, AddAlertRule(r) PROVE TypeOK'
    BY <1>5 DEF AddAlertRule, Operates, callVars, TypeOK
  <1>6. ASSUME NEW r \in Rules, RemoveAlertRule(r) PROVE TypeOK'
    <2>0. /\ DOMAIN rules = 1 .. Len(rules) /\ Len(rules) \in Nat
          /\ \A i \in DOMAIN rules : rules[i] \in Rules \cup {NoRule}
      BY DEF TypeOK
    <2>1. rules' \in Seq(Rules \cup {NoRule})
      BY <1>6, <2>0 DEF RemoveAlertRule
    <2> QED
      BY <1>6, <2>1 DEF RemoveAlertRule, Operates, callVars, TypeOK
  <1> QED
    BY <1>2, <1>3, <1>4, <1>5, <1>6

\* Every step keeps the types.
LEMMA TypeNext == TypeOK /\ [Next]_vars => TypeOK'
  <1> SUFFICES ASSUME TypeOK, [Next]_vars PROVE TypeOK'
    OBVIOUS
  <1>1. ASSUME NEW c \in Callers, NEW k \in Keys, UpdateExisting(c, k) PROVE TypeOK'
    <2> DEFINE a == Least(Similar(k))
               alert == [alerts[a] EXCEPT !.count = @ + 1]
    <2>1. Similar(k) \in SUBSET Nat /\ Similar(k) \subseteq active /\ Similar(k) # {}
      BY <1>1 DEF UpdateExisting, Similar, TypeOK
    <2>2. a \in active
      BY <2>1, LeastIn
    <2> HIDE DEF a
    <2>3. alerts[a] \in Alert /\ alerts[a].status # "resolved" /\ a \in DOMAIN alerts
      BY <2>2 DEF TypeOK
    <2>4. alert \in Alert /\ alert.status # "resolved"
      BY <2>3, ChangedType DEF Alert
    <2>5. alerts' = [alerts EXCEPT ![a] = alert]
      BY <1>1 DEF UpdateExisting, a
    <2> HIDE DEF alert
    <2>6. alerts' \in Seq(Alert) /\ DOMAIN alerts' = DOMAIN alerts
      BY <2>3, <2>4, <2>5, AlertsType DEF TypeOK
    <2>7. \A b \in active : alerts'[b].status # "resolved"
      BY <2>3, <2>4, <2>5 DEF TypeOK
    <2>8. calls' \in [Keys -> Nat]
      BY <1>1 DEF UpdateExisting, Calls, TypeOK
    <2> QED
      BY <1>1, <2>6, <2>7, <2>8, TypeChange DEF UpdateExisting, callVars, TypeOK
  <1>2. CASE UNCHANGED vars
    BY <1>2 DEF vars, callVars, TypeOK
  <1> QED
    BY <1>1, <1>2, TypeCreate, TypeRules, TypeOperators DEF Next

\* Every variable keeps its type, whatever tasks, rules and operators there are.
THEOREM TypeCorrect == Spec => []TypeOK
  BY TypeInit, TypeNext, PTL DEF Spec

-----------------------------------------------------------------------------
(* How a step changes the alerts *)

\* A step leaves the alerts alone (apart from taking resolved ones out of
\* active_alerts), makes a new one, or changes one alert in one of five ways:
\* another occurrence, an acknowledgement, a resolution, an escalation, or a
\* suppression by the rules of the call that makes it.
Counted(a) == a \in active /\ alerts[a].status \in Open
              /\ TotalCalls < MaxCalls /\ alerts[a].key \in Keys
              /\ calls' = [calls EXCEPT ![alerts[a].key] = @ + 1]
              /\ alerts' = [alerts EXCEPT ![a].count = @ + 1]
              /\ UNCHANGED <<active, history, making, notified, raised>>
Acknowledged(a) == a \in active
              /\ alerts' = [alerts EXCEPT ![a].status = "acknowledged"]
              /\ UNCHANGED <<active, history, making, notified, raised, calls>>
Resolved(a) == a \in active /\ active' = active \ {a}
              /\ alerts' = [alerts EXCEPT ![a].status = "resolved"]
              /\ UNCHANGED <<history, making, notified, raised, calls>>
EscalatedIs(a) == a \in active
              /\ alerts' = [alerts EXCEPT ![a] = Escalated(@)]
              /\ UNCHANGED <<active, history, making, notified, raised, calls>>
SuppressedIs(a) == (\E c \in Callers : making[c] = a)
              /\ alerts' = [alerts EXCEPT ![a].status = "suppressed", ![a].suppressed = TRUE]
              /\ UNCHANGED <<active, history, making, notified, raised, calls>>

Changes(a) == Counted(a) \/ Acknowledged(a) \/ Resolved(a) \/ EscalatedIs(a) \/ SuppressedIs(a)

\* A step that leaves them alone may end the call that makes one.
Elsewhere ==
    /\ UNCHANGED <<alerts, active, history, calls>>
    /\ \/ UNCHANGED <<making, notified, raised>>
       \/ \E c \in Callers : RulesChanged(c) \/ RulesDone(c)

\* Every step is of one of these kinds.
LEMMA AlertSteps ==
  ASSUME TypeOK, [Next]_vars
  PROVE  \/ Elsewhere
         \/ \E c \in Callers, k \in Keys, s \in Severities : Create(c, k, s)
         \/ \E a \in DOMAIN alerts : Changes(a)
  <1>1. ASSUME NEW c \in Callers, NEW k \in Keys, UpdateExisting(c, k)
        PROVE  \E a \in DOMAIN alerts : Counted(a)
    <2>1. Similar(k) \in SUBSET Nat /\ Similar(k) \subseteq active /\ Similar(k) # {}
      BY <1>1 DEF UpdateExisting, Similar, TypeOK
    <2>2. PICK a \in Similar(k) : a = Least(Similar(k))
      BY <2>1, LeastIn
    <2>3. a \in active /\ alerts[a].status \in Open /\ a \in DOMAIN alerts /\ alerts[a].key = k
      BY <2>2 DEF Similar, TypeOK
    <2> QED
      BY <1>1, <2>2, <2>3 DEF UpdateExisting, Calls, Counted, callVars
  <1>2. ASSUME NEW c \in Callers, ProcessRules(c)
        PROVE  Elsewhere \/ \E a \in DOMAIN alerts : Changes(a)
    <2>1. CASE NextRule(c) \/ NotifyByRule(c) \/ ActionFails(c)
      BY <2>1 DEF NextRule, NotifyByRule, ActionFails, Does, Elsewhere
    <2>2. CASE RulesChanged(c) \/ RulesDone(c)
      BY <2>2 DEF RulesChanged, RulesDone, Elsewhere
    <2>3. CASE Suppress(c)
      <3>1. making[c] \in DOMAIN alerts /\ SuppressedIs(making[c])
        BY <2>3 DEF Suppress, Does, Goes, SuppressedIs, TypeOK
      <3> QED
        BY <3>1 DEF Changes
    <2>4. CASE EscalateByRule(c)
      <3>1. making[c] \in active => making[c] \in DOMAIN alerts /\ EscalatedIs(making[c])
        BY <2>4 DEF EscalateByRule, Does, Goes, EscalatedIs, TypeOK
      <3>2. making[c] \notin active => Elsewhere
        BY <2>4 DEF EscalateByRule, Does, Elsewhere
      <3> QED
        BY <3>1, <3>2 DEF Changes
    <2> QED
      BY <1>2, <2>1, <2>2, <2>3, <2>4 DEF ProcessRules
  <1>3. ASSUME NEW a \in active, Acknowledge(a) \/ Resolve(a) \/ Escalate(a)
        PROVE  a \in DOMAIN alerts /\ Changes(a)
    <2>1. a \in DOMAIN alerts
      BY DEF TypeOK
    <2>2. Acknowledge(a) => Acknowledged(a)
      BY DEF Acknowledge, Acknowledged, Operates, callVars
    <2>3. Resolve(a) => Resolved(a)
      BY DEF Resolve, Resolved, Operates, callVars
    <2>4. Escalate(a) => EscalatedIs(a)
      BY DEF Escalate, EscalatedIs, Operates, callVars
    <2> QED
      BY <1>3, <2>1, <2>2, <2>3, <2>4 DEF Changes
  <1>4. ASSUME NEW r \in Rules, AddAlertRule(r) \/ RemoveAlertRule(r)
        PROVE  Elsewhere
    BY <1>4 DEF AddAlertRule, RemoveAlertRule, Operates, callVars, Elsewhere
  <1>5. CASE UNCHANGED vars
    BY <1>5 DEF vars, callVars, Elsewhere
  <1> QED
    BY <1>1, <1>2, <1>3, <1>4, <1>5 DEF Next, Changes

-----------------------------------------------------------------------------
(* One open alert per key *)

\* OneOpenPerKey is inductive with one more fact: a status SUPPRESSED comes with
\* the flag, so that acknowledging a suppressed alert makes no second open one.
OpenInv ==
    /\ \A a \in DOMAIN alerts : alerts[a].status = "suppressed" => alerts[a].suppressed
    /\ OneOpenPerKey

\* Without alerts there is nothing to show.
LEMMA OpenInit == Init => OpenInv
  BY DEF Init, OpenInv, OneOpenPerKey

\* A change of one alert keeps the invariant if it keeps the key and the flag and
\* opens nothing that was not open.
LEMMA OpenChange ==
  ASSUME TypeOK, OpenInv, NEW a \in DOMAIN alerts, NEW alert \in Alert,
         alerts' = [alerts EXCEPT ![a] = alert], active' \subseteq active,
         alert.key = alerts[a].key,
         alert.status = "suppressed" => alert.suppressed,
         a \in active' /\ alert.status \in Open /\ ~alert.suppressed
             => alerts[a].status \in Open /\ ~alerts[a].suppressed
  PROVE  OpenInv'
  <1>1. DOMAIN alerts' = DOMAIN alerts /\ alerts'[a] = alert
        /\ \A b \in DOMAIN alerts \ {a} : alerts'[b] = alerts[b]
    BY DEF TypeOK
  <1>2. active' \subseteq DOMAIN alerts
    BY DEF TypeOK
  <1>3. \A b \in DOMAIN alerts' : alerts'[b].status = "suppressed" => alerts'[b].suppressed
    BY <1>1 DEF OpenInv
  <1>4. ASSUME NEW b \in active'
        PROVE  /\ alerts'[b].key = alerts[b].key
               /\ alerts'[b].status \in Open /\ ~alerts'[b].suppressed
                      => alerts[b].status \in Open /\ ~alerts[b].suppressed
    BY <1>1, <1>2
  <1>5. OneOpenPerKey'
    BY <1>4 DEF OpenInv, OneOpenPerKey
  <1> QED
    BY <1>3, <1>5 DEF OpenInv

\* A new alert finds no open one of its key.
LEMMA OpenCreate ==
  ASSUME TypeOK, OpenInv,
         NEW c \in Callers, NEW k \in Keys, NEW s \in Severities, Create(c, k, s)
  PROVE  OpenInv'
  <1> DEFINE n == Len(alerts) + 1
             quiet == <<k, s>> \in Suppressed
             alert == [key |-> k, severity |-> s, level |-> 0, count |-> 1,
                       status |-> IF quiet THEN "suppressed" ELSE "active",
                       suppressed |-> quiet]
  <1>1. alert.key = k /\ (alert.status = "suppressed" => alert.suppressed)
    BY Zenon
  <1>2. alerts' = Append(alerts, alert) /\ active' = active \cup {n} /\ Similar(k) = {}
    BY DEF Create
  <1> HIDE DEF alert
  <1>3. /\ DOMAIN alerts' = DOMAIN alerts \cup {n}
        /\ alerts'[n] = alert /\ \A b \in DOMAIN alerts : alerts'[b] = alerts[b]
    BY <1>1, <1>2, AlertsType DEF TypeOK
  <1>4. \A b \in DOMAIN alerts' : alerts'[b].status = "suppressed" => alerts'[b].suppressed
    BY <1>1, <1>3 DEF OpenInv
  <1>5. \A b \in active : b \in DOMAIN alerts /\ alerts'[b] = alerts[b]
    BY <1>3 DEF TypeOK
  <1>6. \A b \in active : alerts[b].key = k => alerts[b].status \notin Open
    BY <1>2 DEF Similar
  <1>7. OneOpenPerKey'
    BY <1>1, <1>2, <1>3, <1>5, <1>6 DEF OpenInv, OneOpenPerKey
  <1> QED
    BY <1>4, <1>7 DEF OpenInv

\* Every step keeps the invariant.
LEMMA OpenNext == TypeOK /\ OpenInv /\ [Next]_vars => OpenInv'
  <1> SUFFICES ASSUME TypeOK, OpenInv, [Next]_vars PROVE OpenInv'
    OBVIOUS
  <1>1. CASE Elsewhere
    BY <1>1 DEF Elsewhere, OpenInv, OneOpenPerKey
  <1>2. ASSUME NEW a \in DOMAIN alerts, Changes(a) PROVE OpenInv'
    <2>1. alerts[a] \in Alert /\ (alerts[a].status = "suppressed" => alerts[a].suppressed)
      BY DEF TypeOK, OpenInv
    <2>2. a \in active => alerts[a].status # "resolved"
      BY DEF TypeOK
    <2>3. CASE Counted(a)
      <3> DEFINE alert == [alerts[a] EXCEPT !.count = @ + 1]
      <3>1. alert \in Alert /\ alert.key = alerts[a].key /\ alert.status = alerts[a].status
            /\ alert.suppressed = alerts[a].suppressed
        BY <2>1, ChangedType DEF Alert
      <3>2. alerts' = [alerts EXCEPT ![a] = alert] /\ active' = active
        BY <2>3 DEF Counted
      <3> HIDE DEF alert
      <3> QED
        BY <2>1, <3>1, <3>2, OpenChange
    <2>4. CASE Acknowledged(a)
      <3> DEFINE alert == [alerts[a] EXCEPT !.status = "acknowledged"]
      <3>1. alert \in Alert /\ alert.key = alerts[a].key /\ alert.status = "acknowledged"
            /\ alert.suppressed = alerts[a].suppressed
        BY <2>1, ChangedType DEF Alert, Status
      <3>2. alerts' = [alerts EXCEPT ![a] = alert] /\ active' = active /\ a \in active
        BY <2>4 DEF Acknowledged
      <3>3. ~alerts[a].suppressed => alerts[a].status \in Open
        BY <2>1, <2>2, <3>2 DEF Alert, Status, Open
      <3> HIDE DEF alert
      <3> QED
        BY <3>1, <3>2, <3>3, OpenChange
    <2>5. CASE Resolved(a)
      <3> DEFINE alert == [alerts[a] EXCEPT !.status = "resolved"]
      <3>1. alert \in Alert /\ alert.key = alerts[a].key /\ alert.status = "resolved"
        BY <2>1, ChangedType DEF Alert, Status
      <3>2. alerts' = [alerts EXCEPT ![a] = alert] /\ active' \subseteq active /\ a \notin active'
        BY <2>5 DEF Resolved
      <3> HIDE DEF alert
      <3> QED
        BY <3>1, <3>2, OpenChange
    <2>6. CASE EscalatedIs(a)
      <3>1. Escalated(alerts[a]) \in Alert /\ Escalated(alerts[a]).key = alerts[a].key
            /\ Escalated(alerts[a]).status = alerts[a].status
            /\ Escalated(alerts[a]).suppressed = alerts[a].suppressed
        <4>1. Escalated(alerts[a]) \in Alert
          BY <2>1, ChangedType
        <4> QED
          BY <2>1, <4>1 DEF Escalated, Alert
      <3>2. alerts' = [alerts EXCEPT ![a] = Escalated(alerts[a])] /\ active' = active
        BY <2>6 DEF EscalatedIs
      <3> QED
        BY <2>1, <3>1, <3>2, OpenChange
    <2>7. CASE SuppressedIs(a)
      <3> DEFINE alert == [alerts[a] EXCEPT !.status = "suppressed", !.suppressed = TRUE]
      <3>1. alert \in Alert /\ alert.key = alerts[a].key /\ alert.suppressed
        BY <2>1, ChangedType DEF Alert
      <3>2. alerts' = [alerts EXCEPT ![a] = alert] /\ active' = active
        BY <2>7 DEF SuppressedIs
      <3> HIDE DEF alert
      <3> QED
        BY <3>1, <3>2, OpenChange
    <2> QED
      BY <1>2, <2>3, <2>4, <2>5, <2>6, <2>7 DEF Changes
  <1> QED
    BY <1>1, <1>2, OpenCreate, AlertSteps

\* Repeated trouble is one open alert, however calls of create_alert, rules and
\* operators interleave.
THEOREM OneAlertPerTrouble == Spec => []OneOpenPerKey
  <1>1. OpenInv => OneOpenPerKey
    BY DEF OpenInv
  <1> QED
    BY <1>1, OpenInit, OpenNext, TypeCorrect, PTL DEF Spec

-----------------------------------------------------------------------------
(* Decisions of operators *)

\* Only a suppress action of the call that makes an alert takes back an
\* acknowledgement or changes a resolved alert.
THEOREM DecisionsAreKept == Spec => DecisionsStand
  <1> DEFINE Stands(a) ==
               (\A c \in Callers : making[c] # a) =>
                  /\ alerts[a].status = "acknowledged" => alerts'[a].status \in {"acknowledged", "resolved"}
                  /\ alerts[a].status = "resolved" => alerts'[a] = alerts[a]
  <1>1. ASSUME TypeOK, [Next]_vars PROVE \A a \in DOMAIN alerts : Stands(a)
    <2> SUFFICES ASSUME NEW a \in DOMAIN alerts PROVE Stands(a)
      OBVIOUS
    <2>1. CASE alerts'[a] = alerts[a]
      BY <2>1
    <2>2. ASSUME NEW c \in Callers, NEW k \in Keys, NEW s \in Severities, Create(c, k, s)
          PROVE  alerts'[a] = alerts[a]
      BY <1>1, <2>2 DEF Create, TypeOK
    <2>3. ASSUME NEW b \in DOMAIN alerts \ {a}, Changes(b) PROVE alerts'[a] = alerts[a]
      BY <1>1, <2>3 DEF Changes, Counted, Acknowledged, Resolved, EscalatedIs, SuppressedIs, TypeOK
    <2>4. CASE Changes(a)
      <3>1. alerts[a] \in Alert /\ (a \in active => alerts[a].status # "resolved")
        BY <1>1 DEF TypeOK
      <3>2. CASE Counted(a)
        BY <1>1, <3>1, <3>2 DEF Counted, Alert, TypeOK
      <3>3. CASE Acknowledged(a)
        BY <1>1, <3>1, <3>3 DEF Acknowledged, Alert, TypeOK
      <3>4. CASE Resolved(a)
        BY <1>1, <3>1, <3>4 DEF Resolved, Alert, TypeOK
      <3>5. CASE EscalatedIs(a)
        BY <1>1, <3>1, <3>5 DEF EscalatedIs, Escalated, Alert, TypeOK
      <3>6. CASE SuppressedIs(a)
        BY <3>6 DEF SuppressedIs
      <3> QED
        BY <2>4, <3>2, <3>3, <3>4, <3>5, <3>6 DEF Changes
    <2> HIDE DEF Stands
    <2>5. Elsewhere => alerts'[a] = alerts[a]
      BY DEF Elsewhere
    <2> QED
      BY <1>1, <2>1, <2>2, <2>3, <2>4, <2>5, AlertSteps
  <1>2. TypeOK /\ [Next]_vars => [\A a \in DOMAIN alerts : Stands(a)]_vars
    BY <1>1
  <1> QED
    BY <1>2, TypeCorrect, PTL DEF Spec, DecisionsStand

-----------------------------------------------------------------------------
(* The books: what is kept of the alerts agrees with what was done *)

\* The calls made, and the occurrences the alerts of a key have counted.
CallUnits == {n \in Keys \X (1 .. MaxCalls) : n[2] <= calls[n[1]]}
Occurrences(k, made) == {n \in (DOMAIN made) \X (1 .. MaxCalls) :
                           made[n[1]].key = k /\ n[2] <= made[n[1]].count}

\* A call makes an alert of its own, and sends a notification or raises only as it ends.
MakersAlone ==
    /\ \A c, d \in Callers : making[c] # 0 /\ making[c] = making[d] => c = d
    /\ \A c \in Callers : making[c] \notin notified \cup raised

\* BooksAgree is inductive with two more facts: only finitely many calls were made, and
\* no two calls make the same alert.
BooksInv == BooksAgree /\ IsFiniteSet(CallUnits) /\ MakersAlone

\* Part of a set counted by its units up to a number: the number is smaller.
LEMMA UnitsWithin ==
  ASSUME NEW S, IsFiniteSet(S), NEW x, NEW n \in Nat, NEW m \in Nat,
         \A i \in 1 .. m : i <= n => <<x, i>> \in S,
         Cardinality(S) < m
  PROVE  n < m /\ n <= Cardinality(S)
  <1> DEFINE low == IF n <= m THEN n ELSE m
             mine == {x} \X (1 .. low)
  <1>1. low \in Nat /\ low <= n /\ low <= m
    OBVIOUS
  <1>2. mine \subseteq S
    BY <1>1
  <1>3. IsFiniteSet(mine) /\ Cardinality(mine) = low
    <2> HIDE DEF low
    <2>1. IsFiniteSet({x}) /\ Cardinality({x}) = 1
      BY FS_Singleton
    <2>2. IsFiniteSet(1 .. low) /\ Cardinality(1 .. low) = low
      BY <1>1, FS_Interval
    <2>3. IsFiniteSet(mine) /\ Cardinality(mine) = Cardinality({x}) * Cardinality(1 .. low)
      BY <2>1, <2>2, FS_Product
    <2> QED
      BY <1>1, <2>1, <2>2, <2>3
  <1> HIDE DEF mine
  <1>4. Cardinality(mine) <= Cardinality(S)
    BY <1>2, FS_Subset
  <1>5. Cardinality(S) \in Nat
    BY FS_CardinalityType
  <1> QED
    BY <1>3, <1>4, <1>5

\* A call that is still allowed: its key was called less often than that, and one call
\* more is one unit more.
LEMMA OneCallMore ==
  ASSUME TypeOK, IsFiniteSet(CallUnits), NEW k \in Keys, TotalCalls < MaxCalls,
         calls' = [calls EXCEPT ![k] = @ + 1]
  PROVE  calls[k] < MaxCalls /\ IsFiniteSet(CallUnits')
  <1>0. MaxCalls \in Nat /\ calls[k] \in Nat /\ calls' \in [Keys -> Nat]
    BY AlertAssumption DEF TypeOK
  <1>1. \A i \in 1 .. MaxCalls : i <= calls[k] => <<k, i>> \in CallUnits
    BY DEF CallUnits
  <1>2. Cardinality(CallUnits) < MaxCalls
    BY DEF TotalCalls, CallUnits
  <1>3. calls[k] < MaxCalls
    BY <1>0, <1>1, <1>2, UnitsWithin
  <1>4. CallUnits' \subseteq CallUnits \cup {<<k, calls[k] + 1>>}
    <2> SUFFICES ASSUME NEW n \in CallUnits' PROVE n \in CallUnits \cup {<<k, calls[k] + 1>>}
      OBVIOUS
    <2>1. n \in Keys \X (1 .. MaxCalls) /\ n[2] <= calls'[n[1]]
      BY DEF CallUnits
    <2>2. CASE n[1] = k
      <3>1. n[2] \in Nat /\ n[2] <= calls[k] + 1 /\ n = <<k, n[2]>>
        BY <1>0, <2>1, <2>2 DEF TypeOK
      <3>2. n[2] <= calls[k] \/ n[2] = calls[k] + 1
        BY <1>0, <3>1
      <3> QED
        BY <2>1, <2>2, <3>1, <3>2 DEF CallUnits
    <2>3. CASE n[1] # k
      BY <2>1, <2>3 DEF CallUnits, TypeOK
    <2> QED
      BY <2>2, <2>3
  <1>5. IsFiniteSet(CallUnits \cup {<<k, calls[k] + 1>>})
    BY FS_AddElement
  <1> QED
    BY <1>3, <1>4, <1>5, FS_Subset

\* The occurrences of a key are finitely many.
LEMMA OccurrencesFinite ==
  ASSUME TypeOK
  PROVE  \A k \in Keys : IsFiniteSet(Occurrences(k, alerts)) /\ Cardinality(Occurrences(k, alerts)) \in Nat
  <1>1. DOMAIN alerts = 1 .. Len(alerts) /\ Len(alerts) \in Nat /\ MaxCalls \in Nat
    BY AlertAssumption DEF TypeOK
  <1>2. IsFiniteSet(DOMAIN alerts) /\ IsFiniteSet(1 .. MaxCalls)
    BY <1>1, FS_Interval
  <1>3. IsFiniteSet((DOMAIN alerts) \X (1 .. MaxCalls))
    BY <1>2, FS_Product
  <1>4. \A k \in Keys : Occurrences(k, alerts) \subseteq (DOMAIN alerts) \X (1 .. MaxCalls)
    BY DEF Occurrences
  <1> QED
    BY <1>3, <1>4, FS_Subset, FS_CardinalityType

\* One unit more in the occurrences of the key called, and those of others as they were,
\* go with one call more.
LEMMA OccurrencesGrow ==
  ASSUME TypeOK, OccurrencesAddUp, NEW k \in Keys, NEW unit, unit \notin Occurrences(k, alerts),
         Occurrences(k, alerts') = Occurrences(k, alerts) \cup {unit},
         \A j \in Keys \ {k} : Occurrences(j, alerts') = Occurrences(j, alerts),
         calls' = [calls EXCEPT ![k] = @ + 1]
  PROVE  OccurrencesAddUp'
  <1>1. \A j \in Keys : calls[j] = Cardinality(Occurrences(j, alerts))
    BY DEF OccurrencesAddUp, Occurrences
  <1>2. IsFiniteSet(Occurrences(k, alerts)) /\ Cardinality(Occurrences(k, alerts)) \in Nat
    BY OccurrencesFinite
  <1>3. Cardinality(Occurrences(k, alerts) \cup {unit}) = Cardinality(Occurrences(k, alerts)) + 1
    BY <1>2, FS_AddElement
  <1>4. \A j \in Keys : calls'[j] = Cardinality(Occurrences(j, alerts'))
    <2> SUFFICES ASSUME NEW j \in Keys PROVE calls'[j] = Cardinality(Occurrences(j, alerts'))
      OBVIOUS
    <2>1. CASE j = k
      BY <1>1, <1>3, <2>1 DEF TypeOK
    <2>2. CASE j # k
      <3>1. calls'[j] = calls[j] /\ Occurrences(j, alerts') = Occurrences(j, alerts)
        BY <2>2 DEF TypeOK
      <3> QED
        BY <1>1, <3>1, Zenon
    <2> QED
      BY <2>1, <2>2
  <1> QED
    BY <1>4 DEF OccurrencesAddUp, Occurrences

\* Another occurrence of an alert that exists is counted.
LEMMA CountedAddsUp ==
  ASSUME TypeOK, OccurrencesAddUp, IsFiniteSet(CallUnits), NEW a \in DOMAIN alerts, Counted(a)
  PROVE  OccurrencesAddUp' /\ IsFiniteSet(CallUnits')
  <1>0. alerts[a] \in Alert /\ MaxCalls \in Nat
    BY AlertAssumption DEF TypeOK
  <1>k. PICK k \in Keys : k = alerts[a].key
    BY <1>0 DEF Alert
  <1>n. PICK n \in Nat : n = alerts[a].count
    BY <1>0 DEF Alert
  <1>1. alerts[a] \in Alert /\ k \in Keys /\ n \in Nat /\ MaxCalls \in Nat
    BY <1>0
  <1>2. calls[k] < MaxCalls /\ calls[k] \in Nat /\ IsFiniteSet(CallUnits')
    BY <1>1, <1>k, OneCallMore DEF Counted, TypeOK
  <1>3. calls[k] = Cardinality(Occurrences(k, alerts)) /\ IsFiniteSet(Occurrences(k, alerts))
    BY <1>1, OccurrencesFinite DEF OccurrencesAddUp, Occurrences
  <1>4. n < MaxCalls
    <2>1. \A i \in 1 .. MaxCalls : i <= n => <<a, i>> \in Occurrences(k, alerts)
      BY <1>k, <1>n DEF Occurrences
    <2> QED
      BY <1>1, <1>2, <1>3, <2>1, UnitsWithin
  <1>5. /\ DOMAIN alerts' = DOMAIN alerts
        /\ \A b \in DOMAIN alerts : alerts'[b].key = alerts[b].key
        /\ \A b \in DOMAIN alerts \ {a} : alerts'[b].count = alerts[b].count
        /\ alerts'[a].count = n + 1
    BY <1>1, <1>n DEF Counted, TypeOK, Alert
  <1>6. <<a, n + 1>> \notin Occurrences(k, alerts)
    BY <1>1, <1>n DEF Occurrences
  <1>7. Occurrences(k, alerts') = {u \in (DOMAIN alerts) \X (1 .. MaxCalls) :
                              alerts[u[1]].key = k /\ u[2] <= alerts'[u[1]].count}
    BY <1>5 DEF Occurrences
  <1>8. Occurrences(k, alerts') = Occurrences(k, alerts) \cup {<<a, n + 1>>}
    <2>1. ASSUME NEW u \in (DOMAIN alerts) \X (1 .. MaxCalls)
          PROVE  u \in Occurrences(k, alerts') <=> u \in Occurrences(k, alerts) \cup {<<a, n + 1>>}
      <3>1. CASE u[1] = a
        <4>1. u[2] \in Nat /\ u = <<a, u[2]>> /\ n = alerts[a].count /\ k = alerts[a].key
          BY <1>k, <1>n, <3>1
        <4>2. u[2] <= n + 1 <=> u[2] <= n \/ u[2] = n + 1
          BY <1>1, <4>1
        <4>3. u = <<a, n + 1>> <=> u[2] = n + 1
          BY <4>1
        <4>4. u \in Occurrences(k, alerts') <=> u[2] <= n + 1
          BY <1>5, <1>7, <3>1, <4>1
        <4>5. u \in Occurrences(k, alerts) <=> u[2] <= n
          BY <3>1, <4>1 DEF Occurrences
        <4> QED
          BY <4>2, <4>3, <4>4, <4>5
      <3>2. CASE u[1] # a
        BY <1>5, <1>7, <3>2 DEF Occurrences
      <3> QED
        BY <3>1, <3>2
    <2>2. <<a, n + 1>> \in (DOMAIN alerts) \X (1 .. MaxCalls)
      BY <1>1, <1>4
    <2>3. Occurrences(k, alerts') \subseteq (DOMAIN alerts) \X (1 .. MaxCalls)
          /\ Occurrences(k, alerts) \subseteq (DOMAIN alerts) \X (1 .. MaxCalls)
      BY <1>7 DEF Occurrences
    <2> QED
      BY <2>1, <2>2, <2>3
  <1>9. \A j \in Keys \ {k} : Occurrences(j, alerts') = Occurrences(j, alerts)
    <2> SUFFICES ASSUME NEW j \in Keys \ {k} PROVE Occurrences(j, alerts') = Occurrences(j, alerts)
      OBVIOUS
    <2>1. \A u \in (DOMAIN alerts) \X (1 .. MaxCalls) :
             alerts'[u[1]].key = j /\ u[2] <= alerts'[u[1]].count
                 <=> alerts[u[1]].key = j /\ u[2] <= alerts[u[1]].count
      BY <1>k, <1>5
    <2> QED
      BY <1>5, <2>1 DEF Occurrences
  <1>10. calls' = [calls EXCEPT ![k] = @ + 1]
    BY <1>k DEF Counted
  <1> QED
    BY <1>1, <1>2, <1>6, <1>8, <1>9, <1>10, OccurrencesGrow

\* What becomes of an alert apart from that leaves the occurrences alone.
LEMMA OccurrencesStay ==
  ASSUME OccurrencesAddUp, IsFiniteSet(CallUnits), calls' = calls, DOMAIN alerts' = DOMAIN alerts,
         \A b \in DOMAIN alerts : alerts'[b].key = alerts[b].key /\ alerts'[b].count = alerts[b].count
  PROVE  OccurrencesAddUp' /\ IsFiniteSet(CallUnits')
  <1>1. \A k \in Keys : Occurrences(k, alerts') = Occurrences(k, alerts)
    BY DEF Occurrences
  <1>2. \A k \in Keys : calls'[k] = Cardinality(Occurrences(k, alerts'))
    BY <1>1 DEF OccurrencesAddUp, Occurrences
  <1>3. CallUnits' = CallUnits
    BY DEF CallUnits
  <1> QED
    BY <1>2, <1>3 DEF OccurrencesAddUp, Occurrences

\* What a call that makes an alert changes, by name.
Made(c, k, alert) ==
    LET a == Len(alerts) + 1 IN
    /\ alert \in Alert /\ alert.key = k /\ alert.level = 0 /\ alert.count = 1
    /\ alerts' \in Seq(Alert) /\ DOMAIN alerts' = DOMAIN alerts \cup {a}
    /\ alerts'[a] = alert /\ \A b \in DOMAIN alerts : alerts'[b] = alerts[b]
    /\ a \notin DOMAIN alerts /\ a \in Nat \ {0} /\ \A b \in DOMAIN alerts : b \in Nat /\ b < a
    /\ TotalCalls < MaxCalls /\ calls' = [calls EXCEPT ![k] = @ + 1]
    /\ Remember(a, alert)
    /\ making[c] = 0 /\ making' = [making EXCEPT ![c] = a]
    /\ UNCHANGED <<notified, raised>>

LEMMA CreateMakes ==
  ASSUME TypeOK, NEW c \in Callers, NEW k \in Keys, NEW s \in Severities, Create(c, k, s)
  PROVE  \E alert : Made(c, k, alert)
  <1> DEFINE a == Len(alerts) + 1
             quiet == <<k, s>> \in Suppressed
             alert == [key |-> k, severity |-> s, level |-> 0, count |-> 1,
                       status |-> IF quiet THEN "suppressed" ELSE "active",
                       suppressed |-> quiet]
  <1>1. alert \in Alert
    BY AlertAssumption DEF Alert, Status, Severity
  <1>2. alert.key = k /\ alert.level = 0 /\ alert.count = 1
    OBVIOUS
  <1>3. /\ alerts' = Append(alerts, alert)
        /\ TotalCalls < MaxCalls /\ calls' = [calls EXCEPT ![k] = @ + 1]
        /\ Remember(a, alert)
        /\ making[c] = 0 /\ making' = [making EXCEPT ![c] = a]
        /\ UNCHANGED <<notified, raised>>
    BY DEF Create, Calls
  <1> HIDE DEF alert
  <1>4. /\ alerts' \in Seq(Alert)
        /\ DOMAIN alerts' = DOMAIN alerts \cup {a}
        /\ alerts'[a] = alert /\ \A b \in DOMAIN alerts : alerts'[b] = alerts[b]
    BY <1>1, <1>3, AlertsType DEF TypeOK
  <1>5. a \notin DOMAIN alerts /\ a \in Nat \ {0} /\ \A b \in DOMAIN alerts : b \in Nat /\ b < a
    BY DEF TypeOK
  <1>6. Made(c, k, alert)
    BY <1>1, <1>2, <1>3, <1>4, <1>5 DEF Made
  <1> QED
    BY <1>6

\* An alert that is made is the first occurrence of its trouble.
LEMMA MadeAddsUp ==
  ASSUME TypeOK, OccurrencesAddUp, IsFiniteSet(CallUnits),
         NEW c \in Callers, NEW k \in Keys, NEW alert, Made(c, k, alert)
  PROVE  OccurrencesAddUp' /\ IsFiniteSet(CallUnits')
  <1>0. PICK a \in Nat : a = Len(alerts) + 1
    BY DEF Made
  <1>1. /\ alert.key = k /\ alert.count = 1
        /\ DOMAIN alerts' = DOMAIN alerts \cup {a} /\ a \notin DOMAIN alerts
        /\ alerts'[a] = alert /\ \A b \in DOMAIN alerts : alerts'[b] = alerts[b]
        /\ TotalCalls < MaxCalls /\ calls' = [calls EXCEPT ![k] = @ + 1]
    BY <1>0 DEF Made
  <1>2. calls[k] < MaxCalls /\ calls[k] \in Nat /\ IsFiniteSet(CallUnits')
    BY <1>1, OneCallMore DEF TypeOK
  <1>3. 1 \in 1 .. MaxCalls /\ MaxCalls \in Nat
    BY <1>2, AlertAssumption
  <1>4. <<a, 1>> \notin Occurrences(k, alerts)
    BY <1>1 DEF Occurrences
  <1>5. ASSUME NEW j \in Keys, NEW u \in (DOMAIN alerts') \X (1 .. MaxCalls)
        PROVE  u \in Occurrences(j, alerts') <=> u \in Occurrences(j, alerts) \/ (j = k /\ u = <<a, 1>>)
    <2>1. CASE u[1] = a
      <3>1. u = <<a, u[2]>> /\ u[2] \in 1 .. MaxCalls
        BY <2>1
      <3>2. u[2] <= 1 <=> u[2] = 1
        BY <1>3, <3>1
      <3>3. u \in Occurrences(j, alerts') <=> k = j /\ u[2] <= 1
        BY <1>1, <2>1 DEF Occurrences
      <3>4. u \notin Occurrences(j, alerts)
        BY <1>1, <2>1 DEF Occurrences
      <3>5. u = <<a, 1>> <=> u[2] = 1
        BY <3>1
      <3> QED
        BY <3>2, <3>3, <3>4, <3>5
    <2>2. CASE u[1] # a
      <3>1. u[1] \in DOMAIN alerts /\ alerts'[u[1]] = alerts[u[1]] /\ u # <<a, 1>>
        BY <1>1, <2>2
      <3>2. u \in Occurrences(j, alerts') <=> alerts'[u[1]].key = j /\ u[2] <= alerts'[u[1]].count
        BY DEF Occurrences
      <3>3. u \in Occurrences(j, alerts) <=> alerts[u[1]].key = j /\ u[2] <= alerts[u[1]].count
        BY <3>1 DEF Occurrences
      <3> QED
        BY <3>1, <3>2, <3>3
    <2> QED
      BY <2>1, <2>2
  <1>6. ASSUME NEW j \in Keys
        PROVE  /\ Occurrences(j, alerts') \subseteq (DOMAIN alerts') \X (1 .. MaxCalls)
               /\ Occurrences(j, alerts) \subseteq (DOMAIN alerts') \X (1 .. MaxCalls)
               /\ <<a, 1>> \in (DOMAIN alerts') \X (1 .. MaxCalls)
    BY <1>1, <1>3 DEF Occurrences
  <1>7. \A j \in Keys : \A u : u \in Occurrences(j, alerts') <=> u \in Occurrences(j, alerts) \/ (j = k /\ u = <<a, 1>>)
    BY <1>5, <1>6, Zenon
  <1>8. Occurrences(k, alerts') = Occurrences(k, alerts) \cup {<<a, 1>>}
    BY <1>7, Zenon
  <1>9. \A j \in Keys \ {k} : Occurrences(j, alerts') = Occurrences(j, alerts)
    BY <1>7, Zenon
  <1> QED
    BY <1>1, <1>2, <1>4, <1>8, <1>9, OccurrencesGrow

\* A new entry of the history is behind the others, and the oldest go when there are
\* too many: the rest is as new, and none of them is missing.
LEMMA MadeIsRemembered ==
  ASSUME TypeOK, HistoryKeepsNewest,
         NEW c \in Callers, NEW k \in Keys, NEW alert, Made(c, k, alert)
  PROVE  HistoryKeepsNewest'
  <1> DEFINE a == Len(alerts) + 1
             ids == DOMAIN history \cup {a}
             Older(i) == {j \in ids : j < i}
  <1>0. PICK kept : /\ kept = IF Cardinality(ids) <= MaxHistory THEN ids
                             ELSE {i \in ids : Cardinality(Older(i)) >= Evicted}
                    /\ DOMAIN history' = kept
    BY DEF Made, Remember
  <1>1. /\ DOMAIN alerts' = DOMAIN alerts \cup {a} /\ a \notin DOMAIN alerts
        /\ a \in Nat /\ \A b \in DOMAIN alerts : b \in Nat /\ b < a
    BY DEF Made
  <1>2. /\ DOMAIN history \subseteq DOMAIN alerts /\ DOMAIN alerts = 1 .. a - 1
        /\ MaxHistory \in Nat /\ Evicted \in 1 .. MaxHistory
    BY AlertAssumption DEF TypeOK
  <1> HIDE DEF a
  <1>3. IsFiniteSet(DOMAIN history) /\ IsFiniteSet(ids) /\ Cardinality(DOMAIN history) \in Nat
        /\ Cardinality(ids) = Cardinality(DOMAIN history) + 1
    <2>1. IsFiniteSet(DOMAIN history)
      BY <1>1, <1>2, FS_Interval, FS_Subset
    <2>2. a \notin DOMAIN history
      BY <1>1, <1>2
    <2> QED
      BY <2>1, <2>2, FS_AddElement, FS_CardinalityType
  <1>4. Cardinality(DOMAIN history) <= MaxHistory
    BY DEF HistoryKeepsNewest
  <1>5. \A i \in ids, b \in DOMAIN alerts' : i \in Nat /\ b \in Nat /\ (b > i => b \in ids)
    <2>1. \A i \in DOMAIN history, b \in DOMAIN alerts : b > i => b \in DOMAIN history
      BY DEF HistoryKeepsNewest
    <2>2. \A i \in ids, b \in DOMAIN alerts' : i \in Nat /\ b \in Nat
      BY <1>1, <1>2
    <2>3. \A b \in DOMAIN alerts : ~(b > a)
      BY <1>1
    <2> QED
      BY <1>1, <1>2, <2>1, <2>2, <2>3
  <1>6. CASE Cardinality(ids) <= MaxHistory
    <2>1. DOMAIN history' = ids
      BY <1>0, <1>6
    <2> HIDE DEF ids
    <2> QED
      BY <1>5, <1>6, <2>1 DEF HistoryKeepsNewest
  <1>7. CASE ~(Cardinality(ids) <= MaxHistory)
    <2>0. kept = {i \in ids : Cardinality(Older(i)) >= Evicted}
      BY <1>0, <1>7
    <2>1. ids \in SUBSET Nat /\ ids # {}
      BY <1>1, <1>2
    <2>2. \A i \in ids : IsFiniteSet(Older(i)) /\ Cardinality(Older(i)) \in Nat
      BY <1>3, FS_Subset, FS_CardinalityType
    <2>3. PICK m \in ids : \A j \in ids : m <= j
      BY <2>1, LeastIn
    <2>4. Older(m) = {}
      BY <2>1, <2>3
    <2>5. m \notin kept
      <3>1. Cardinality(Older(m)) = 0
        BY <2>4, FS_EmptySet
      <3> HIDE DEF Older
      <3> QED
        BY <1>2, <2>0, <3>1
    <2>6. Cardinality(kept) <= MaxHistory
      <3>1. kept \subseteq ids \ {m}
        BY <2>0, <2>5
      <3>2. IsFiniteSet(ids \ {m}) /\ Cardinality(ids \ {m}) = Cardinality(ids) - 1
        BY <1>3, <2>3, FS_RemoveElement
      <3>3. Cardinality(kept) <= Cardinality(ids \ {m}) /\ Cardinality(kept) \in Nat
        BY <3>1, <3>2, FS_Subset, FS_CardinalityType
      <3> HIDE DEF ids
      <3> QED
        BY <1>2, <1>3, <1>4, <3>2, <3>3
    <2>7. ASSUME NEW i \in kept, NEW b \in DOMAIN alerts', b > i PROVE b \in kept
      <3>1. i \in ids /\ b \in ids /\ Cardinality(Older(i)) >= Evicted
        BY <1>5, <2>0, <2>7
      <3>2. Older(i) \subseteq Older(b)
        BY <2>1, <2>7, <3>1
      <3>3. Cardinality(Older(i)) <= Cardinality(Older(b))
        BY <2>2, <3>1, <3>2, FS_Subset
      <3>4. Evicted \in Nat
        BY <1>2
      <3>6. Cardinality(Older(i)) \in Nat /\ Cardinality(Older(b)) \in Nat
        BY <2>2, <3>1, Zenon
      <3> HIDE DEF Older
      <3>5. Cardinality(Older(b)) >= Evicted
        BY <3>1, <3>3, <3>4, <3>6
      <3> QED
        BY <2>0, <3>1, <3>5 DEF Older
    <2> QED
      BY <1>0, <2>6, <2>7 DEF HistoryKeepsNewest
  <1> QED
    BY <1>6, <1>7

\* Changes of an alert: what each does to the fields the books are about.
LEMMA ChangedFields ==
  ASSUME TypeOK, NEW a \in DOMAIN alerts, Changes(a)
  PROVE  /\ DOMAIN alerts' = DOMAIN alerts
         /\ \A b \in DOMAIN alerts \ {a} : alerts'[b] = alerts[b]
         /\ alerts'[a].key = alerts[a].key
         /\ ~Counted(a) => alerts'[a].count = alerts[a].count /\ calls' = calls
         /\ \/ alerts'[a].severity = alerts[a].severity /\ alerts'[a].level = alerts[a].level
            \/ /\ alerts'[a].severity = Raised(alerts[a].severity)
               /\ alerts'[a].level = alerts[a].level + 1
         /\ alerts'[a].suppressed = alerts[a].suppressed \/ \E c \in Callers : making[c] = a
         /\ UNCHANGED <<history, making, notified, raised>>
  <1>1. alerts[a] \in Alert
    BY DEF TypeOK
  <1>2. CASE Counted(a)
    BY <1>1, <1>2 DEF Counted, Alert, TypeOK
  <1>3. CASE Acknowledged(a)
    BY <1>1, <1>3 DEF Acknowledged, Alert, TypeOK
  <1>4. CASE Resolved(a)
    BY <1>1, <1>4 DEF Resolved, Alert, TypeOK
  <1>5. CASE EscalatedIs(a)
    BY <1>1, <1>5 DEF EscalatedIs, Escalated, Alert, TypeOK
  <1>6. CASE SuppressedIs(a)
    BY <1>1, <1>6 DEF SuppressedIs, Alert, TypeOK
  <1> QED
    BY <1>2, <1>3, <1>4, <1>5, <1>6 DEF Changes

\* An escalation raises the severity as far as one level more does.
LEMMA OneLevelMore ==
  ASSUME NEW h \in Severity, NEW l \in Nat
  PROVE  LET Capped(n) == IF n > 4 THEN 4 ELSE n
         IN  Raised(Capped(h + l)) = Capped(h + (l + 1))
  BY DEF Severity, Raised

\* Severities and levels stay together.
LEMMA SeverityKept ==
  ASSUME TypeOK, SeverityFollowsLevel, NEW a \in DOMAIN alerts, Changes(a)
  PROVE  SeverityFollowsLevel'
  <1>1. ASSUME NEW b \in DOMAIN history
        PROVE  LET raisedTo == history[b].severity + alerts'[b].level
               IN  alerts'[b].severity = IF raisedTo > 4 THEN 4 ELSE raisedTo
    <2>1. history[b] \in Alert /\ alerts[b] \in Alert
      BY DEF TypeOK
    <2>2. history[b].severity \in Severity /\ alerts[b].level \in Nat
      BY <2>1 DEF Alert
    <2>3. alerts[b].severity = IF history[b].severity + alerts[b].level > 4 THEN 4
                               ELSE history[b].severity + alerts[b].level
      BY DEF SeverityFollowsLevel
    <2>4. CASE b # a \/ (alerts'[b].severity = alerts[b].severity /\ alerts'[b].level = alerts[b].level)
      <3>1. alerts'[b].severity = alerts[b].severity /\ alerts'[b].level = alerts[b].level
        BY <2>4, ChangedFields DEF TypeOK
      <3> QED
        BY <2>3, <3>1
    <2>5. CASE /\ alerts'[b].severity = Raised(alerts[b].severity)
               /\ alerts'[b].level = alerts[b].level + 1
      <3>1. PICK h \in Severity, l \in Nat : h = history[b].severity /\ l = alerts[b].level
        BY <2>2
      <3>2. Raised(IF h + l > 4 THEN 4 ELSE h + l) = IF h + (l + 1) > 4 THEN 4 ELSE h + (l + 1)
        BY OneLevelMore
      <3>3. alerts'[b].severity = Raised(IF h + l > 4 THEN 4 ELSE h + l) /\ alerts'[b].level = l + 1
        BY <2>3, <2>5, <3>1
      <3> QED
        BY <3>1, <3>2, <3>3
    <2>6. \/ b # a
          \/ alerts'[b].severity = alerts[b].severity /\ alerts'[b].level = alerts[b].level
          \/ /\ alerts'[b].severity = Raised(alerts[b].severity)
             /\ alerts'[b].level = alerts[b].level + 1
      BY ChangedFields
    <2> QED
      BY <2>4, <2>5, <2>6
  <1>2. history' = history
    BY ChangedFields
  <1> QED
    BY <1>1, <1>2 DEF SeverityFollowsLevel

\* A new alert has the severity its entry has.
LEMMA SeverityMade ==
  ASSUME TypeOK, SeverityFollowsLevel,
         NEW c \in Callers, NEW k \in Keys, NEW alert, Made(c, k, alert)
  PROVE  SeverityFollowsLevel'
  <1> DEFINE a == Len(alerts) + 1
  <1>1. /\ alert \in Alert /\ alert.level = 0
        /\ alerts'[a] = alert /\ \A b \in DOMAIN alerts : alerts'[b] = alerts[b]
        /\ Remember(a, alert)
    BY DEF Made
  <1>2. alert.severity \in 1 .. 4
    BY <1>1 DEF Alert, Severity
  <1> HIDE DEF a
  <1>3. /\ DOMAIN history' \subseteq DOMAIN history \cup {a}
        /\ \A b \in DOMAIN history' : history'[b] = IF b = a THEN alert ELSE history[b]
    BY <1>1 DEF Remember
  <1>4. ASSUME NEW b \in DOMAIN history'
        PROVE  LET raisedTo == history'[b].severity + alerts'[b].level
               IN  alerts'[b].severity = IF raisedTo > 4 THEN 4 ELSE raisedTo
    <2>1. CASE b = a
      BY <1>1, <1>2, <1>3, <2>1
    <2>2. CASE b # a
      <3>1. b \in DOMAIN history /\ b \in DOMAIN alerts /\ history'[b] = history[b] /\ alerts'[b] = alerts[b]
        BY <1>1, <1>3, <2>2 DEF TypeOK
      <3> QED
        BY <3>1 DEF SeverityFollowsLevel
    <2> QED
      BY <2>1, <2>2
  <1> QED
    BY <1>4 DEF SeverityFollowsLevel

\* A call is alone with its alert, so what it decides on as it ends is what holds then.
LEMMA SilenceElsewhere ==
  ASSUME TypeOK, MakersAlone, SilentIffSuppressed, Elsewhere
  PROVE  MakersAlone' /\ SilentIffSuppressed'
  <1>1. alerts' = alerts
    BY DEF Elsewhere
  <1>2. CASE UNCHANGED <<making, notified, raised>>
    BY <1>1, <1>2 DEF MakersAlone, SilentIffSuppressed
  <1>3. ASSUME NEW c \in Callers, RulesChanged(c) \/ RulesDone(c)
        PROVE  MakersAlone' /\ SilentIffSuppressed'
    <2>1. /\ making[c] \in DOMAIN alerts /\ making[c] # 0
          /\ making' = [making EXCEPT ![c] = 0]
          /\ \/ raised' = raised \cup {making[c]} /\ notified' = notified
             \/ /\ raised' = raised
                /\ notified' = IF alerts[making[c]].suppressed THEN notified
                               ELSE notified \cup {making[c]}
      BY <1>3 DEF RulesChanged, RulesDone, Ends, Goes, Its, TypeOK
    <2>2. 0 \notin DOMAIN alerts
      BY DEF TypeOK
    <2>3. /\ making'[c] = 0 /\ \A d \in Callers \ {c} : making'[d] = making[d]
          /\ notified' \cup raised' \subseteq notified \cup raised \cup {making[c]}
          /\ 0 \notin notified \cup raised
      BY <2>1, <2>2 DEF TypeOK
    <2>4. \A d \in Callers \ {c} : making[d] # making[c]
      BY <2>1 DEF MakersAlone
    <2>5. MakersAlone'
      <3>1. \A d, e \in Callers : making'[d] # 0 /\ making'[d] = making'[e] => d = e
        BY <2>3 DEF MakersAlone
      <3>2. \A d \in Callers : making'[d] \notin notified' \cup raised'
        BY <2>1, <2>3, <2>4 DEF MakersAlone
      <3> QED
        BY <3>1, <3>2 DEF MakersAlone
    <2>6. making[c] \notin notified
      BY DEF MakersAlone
    <2>7. ASSUME NEW a \in DOMAIN alerts \ raised', \A d \in Callers : making'[d] # a
          PROVE  a \in notified' <=> ~alerts[a].suppressed
      <3>1. CASE a = making[c]
        <4>1. notified' = IF alerts[a].suppressed THEN notified ELSE notified \cup {a}
          BY <2>1, <3>1
        <4> QED
          BY <2>6, <3>1, <4>1
      <3>2. CASE a # making[c]
        <4>1. a \notin raised /\ (a \in notified' <=> a \in notified)
          BY <2>1, <3>2
        <4>2. \A d \in Callers : making[d] # a
          BY <2>3, <2>7, <3>2
        <4> QED
          BY <4>1, <4>2 DEF SilentIffSuppressed
      <3> QED
        BY <3>1, <3>2
    <2>8. SilentIffSuppressed'
      BY <1>1, <2>7 DEF SilentIffSuppressed
    <2> QED
      BY <2>5, <2>8
  <1> QED
    BY <1>2, <1>3 DEF Elsewhere

LEMMA SilenceKept ==
  ASSUME TypeOK, MakersAlone, SilentIffSuppressed, NEW a \in DOMAIN alerts, Changes(a)
  PROVE  MakersAlone' /\ SilentIffSuppressed'
  <1>1. /\ DOMAIN alerts' = DOMAIN alerts
        /\ \A b \in DOMAIN alerts \ {a} : alerts'[b] = alerts[b]
        /\ alerts'[a].suppressed = alerts[a].suppressed \/ \E c \in Callers : making[c] = a
        /\ making' = making /\ notified' = notified /\ raised' = raised
    BY ChangedFields
  <1>2. \A b \in DOMAIN alerts' \ raised' : (\A c \in Callers : making'[c] # b) =>
            alerts'[b].suppressed = alerts[b].suppressed
    BY <1>1
  <1> QED
    BY <1>1, <1>2 DEF MakersAlone, SilentIffSuppressed

LEMMA SilenceMade ==
  ASSUME TypeOK, MakersAlone, SilentIffSuppressed,
         NEW c \in Callers, NEW k \in Keys, NEW alert, Made(c, k, alert)
  PROVE  MakersAlone' /\ SilentIffSuppressed'
  <1> DEFINE a == Len(alerts) + 1
  <1>1. /\ DOMAIN alerts' = DOMAIN alerts \cup {a} /\ a \notin DOMAIN alerts
        /\ \A b \in DOMAIN alerts : alerts'[b] = alerts[b]
        /\ making[c] = 0 /\ making' = [making EXCEPT ![c] = a]
        /\ UNCHANGED <<notified, raised>> /\ a # 0
    BY DEF Made
  <1> HIDE DEF a
  <1>2. making'[c] = a /\ \A d \in Callers \ {c} : making'[d] = making[d]
    BY <1>1 DEF TypeOK
  <1>3. \A d \in Callers : making[d] # a
    BY <1>1 DEF TypeOK
  <1>4. MakersAlone'
    <2>1. \A d, e \in Callers : making'[d] # 0 /\ making'[d] = making'[e] => d = e
      BY <1>2, <1>3 DEF MakersAlone
    <2>2. \A d \in Callers : making'[d] \notin notified' \cup raised'
      BY <1>1, <1>2 DEF MakersAlone, TypeOK
    <2> QED
      BY <2>1, <2>2 DEF MakersAlone
  <1>5. SilentIffSuppressed'
    <2>1. ASSUME NEW b \in DOMAIN alerts' \ raised', \A d \in Callers : making'[d] # b
          PROVE  b \in notified' <=> ~alerts'[b].suppressed
      <3>1. b \in DOMAIN alerts \ raised /\ alerts'[b] = alerts[b]
        BY <1>1, <1>2, <2>1
      <3>2. \A d \in Callers : making[d] # b
        BY <1>1, <1>2, <2>1, <3>1 DEF TypeOK
      <3> QED
        BY <1>1, <3>1, <3>2 DEF SilentIffSuppressed
    <2> QED
      BY <2>1 DEF SilentIffSuppressed
  <1> QED
    BY <1>4, <1>5

LEMMA BooksInit == Init => BooksInv
  <1> SUFFICES ASSUME Init PROVE BooksInv
    OBVIOUS
  <1>1. alerts = <<>> /\ DOMAIN alerts = {} /\ DOMAIN history = {} /\ notified = {} /\ raised = {}
        /\ calls = [k \in Keys |-> 0] /\ making = [c \in Callers |-> 0]
    BY DEF Init
  <1>2. OccurrencesAddUp
    <2>1. \A k \in Keys : Occurrences(k, alerts) = {}
      BY <1>1 DEF Occurrences
    <2>2. \A k \in Keys : calls[k] = Cardinality(Occurrences(k, alerts))
      BY <1>1, <2>1, FS_EmptySet
    <2> QED
      BY <2>2 DEF OccurrencesAddUp, Occurrences
  <1>3. IsFiniteSet(CallUnits)
    <2>1. CallUnits = {}
      BY <1>1, AlertAssumption DEF CallUnits
    <2> QED
      BY <2>1, FS_EmptySet
  <1>4. HistoryKeepsNewest
    BY <1>1, FS_EmptySet, AlertAssumption DEF HistoryKeepsNewest
  <1>5. SeverityFollowsLevel /\ SilentIffSuppressed /\ MakersAlone
    BY <1>1 DEF SeverityFollowsLevel, SilentIffSuppressed, MakersAlone
  <1> QED
    BY <1>2, <1>3, <1>4, <1>5 DEF BooksInv, BooksAgree

\* Every step keeps the books.
LEMMA BooksNext == TypeOK /\ BooksInv /\ [Next]_vars => BooksInv'
  <1> SUFFICES ASSUME TypeOK, BooksInv, [Next]_vars PROVE BooksInv'
    OBVIOUS
  <1>0. /\ OccurrencesAddUp /\ IsFiniteSet(CallUnits) /\ SeverityFollowsLevel
        /\ SilentIffSuppressed /\ HistoryKeepsNewest /\ MakersAlone
    BY DEF BooksInv, BooksAgree
  <1>1. CASE Elsewhere
    <2>1. UNCHANGED <<alerts, history, calls>>
      BY <1>1 DEF Elsewhere
    <2>2. OccurrencesAddUp' /\ IsFiniteSet(CallUnits')
      BY <1>0, <2>1, OccurrencesStay
    <2>3. SeverityFollowsLevel' /\ HistoryKeepsNewest'
      BY <1>0, <2>1 DEF SeverityFollowsLevel, HistoryKeepsNewest
    <2> QED
      BY <1>0, <1>1, <2>2, <2>3, SilenceElsewhere DEF BooksInv, BooksAgree
  <1>2. ASSUME NEW c \in Callers, NEW k \in Keys, NEW s \in Severities, Create(c, k, s)
        PROVE  BooksInv'
    <2>1. PICK alert : Made(c, k, alert)
      BY <1>2, CreateMakes
    <2>2. OccurrencesAddUp' /\ IsFiniteSet(CallUnits')
      BY <1>0, <2>1, MadeAddsUp
    <2>3. HistoryKeepsNewest'
      BY <1>0, <2>1, MadeIsRemembered
    <2>4. SeverityFollowsLevel'
      BY <1>0, <2>1, SeverityMade
    <2>5. MakersAlone' /\ SilentIffSuppressed'
      BY <1>0, <2>1, SilenceMade
    <2> QED
      BY <2>2, <2>3, <2>4, <2>5 DEF BooksInv, BooksAgree
  <1>3. ASSUME NEW a \in DOMAIN alerts, Changes(a) PROVE BooksInv'
    <2>1. OccurrencesAddUp' /\ IsFiniteSet(CallUnits')
      <3>1. CASE Counted(a)
        BY <1>0, <3>1, CountedAddsUp
      <3>2. CASE ~Counted(a)
        <4>1. /\ calls' = calls /\ DOMAIN alerts' = DOMAIN alerts
              /\ \A b \in DOMAIN alerts : alerts'[b].key = alerts[b].key
                                          /\ alerts'[b].count = alerts[b].count
          BY <1>3, <3>2, ChangedFields
        <4> QED
          BY <1>0, <4>1, OccurrencesStay
      <3> QED
        BY <3>1, <3>2
    <2>2. HistoryKeepsNewest'
      BY <1>0, <1>3, ChangedFields DEF HistoryKeepsNewest
    <2>3. SeverityFollowsLevel' /\ MakersAlone' /\ SilentIffSuppressed'
      BY <1>0, <1>3, SeverityKept, SilenceKept
    <2> QED
      BY <2>1, <2>2, <2>3 DEF BooksInv, BooksAgree
  <1> QED
    BY <1>1, <1>2, <1>3, AlertSteps

\* However calls of create_alert, rules and operators interleave: every call is counted
\* once, the severity of an alert is the one it was made with raised once a level, its
\* notification was sent exactly if it is not suppressed, and the history has the newest.
THEOREM BooksAreRight == Spec => []BooksAgree
  <1>1. BooksInv => BooksAgree
    BY DEF BooksInv
  <1> QED
    BY <1>1, BooksInit, BooksNext, TypeCorrect, PTL DEF Spec

=============================================================================
