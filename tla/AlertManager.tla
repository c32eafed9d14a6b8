------------------------------ MODULE AlertManager ------------------------------
(***************************************************************************)
(* The alert manager of reports/core/alert_manager.py: alerts, the rules   *)
(* that act on each new alert, and the operators who acknowledge, resolve  *)
(* and escalate alerts while the rules are still being processed.          *)
(*                                                                         *)
(* A task suspends only while a notification or a callback is delivered:   *)
(* "current" is the task the event loop is running, and others go on only  *)
(* when it is Nobody.  The persistence hooks of the class are empty.       *)
(***************************************************************************)
EXTENDS Integers, Sequences, FiniteSets

CONSTANTS
    Callers,       \* tasks that call create_alert, one call at a time
    Keys,          \* (title, alert_type, device_id) of the alerts created
    Severities,    \* severities they are created with
    Suppressed,    \* pairs of key and severity the suppression rules match
    Rules,         \* ids of alert rules
    RuleMatches,   \* the severities a rule's conditions accept
    RuleActions,   \* the actions of a rule, in order
    InitialRules,  \* the rules there are at first, in order
    MaxHistory,    \* max_history_entries
    Evicted,       \* entries dropped when there are more (1000 in the code)
    Nobody,        \* no task
    NoRule,        \* the place of a removed rule
    MaxCalls,      \* bound: calls of create_alert
    MaxLevel,      \* bound: escalations of an alert
    MaxRules       \* bound: rules ever added (the dict is not resized below 5)

Severity == 1 .. 4    \* LOW .. CRITICAL
Action == {"escalate", "notify", "suppress", "object"}

ASSUME AlertAssumption ==
    /\ Severities \subseteq Severity
    /\ Suppressed \subseteq Keys \X Severities
    /\ RuleMatches \in [Rules -> SUBSET Severity]
    /\ RuleActions \in [Rules -> Seq(Action)]
    /\ InitialRules \in Seq(Rules)
    /\ NoRule \notin Rules /\ Nobody \notin Callers
    /\ MaxHistory \in Nat /\ Evicted \in 1 .. MaxHistory
    /\ MaxCalls \in Nat /\ MaxLevel \in Nat /\ MaxRules \in 0 .. 5

VARIABLES
    alerts,    \* the alert objects made, in order; an alert's id is its index
    active,    \* the ids in active_alerts
    history,   \* alert_history: id -> what was copied when the alert was made
    rules,     \* alert_rules in the order of the dict, NoRule where one was removed
    current,   \* the task that runs, Nobody between suspensions
    making,    \* per caller: the alert its call has stored, 0 if none
    iter,      \* per caller: the iterator over alert_rules
    todo,      \* per caller: actions of the current rule still to execute
    notified,  \* alerts whose alert notification was sent
    raised,    \* alerts whose create_alert raised after storing them
    calls      \* calls of create_alert with each key

callVars == <<current, making, iter, todo>>
vars == <<alerts, active, history, rules, callVars, notified, raised, calls>>

Status == {"active", "acknowledged", "resolved", "suppressed"}
Open == {"active", "acknowledged"}
Alert == [key : Keys, severity : Severity, status : Status, suppressed : BOOLEAN,
          level : Nat, count : Nat \ {0}]
NoIter == [used |-> 0, pos |-> 0, left |-> 0]

Least(S) == CHOOSE i \in S : \A j \in S : i <= j
Raised(s) == IF s < 4 THEN s + 1 ELSE s

Init ==
    /\ alerts = <<>> /\ active = {}
    /\ history = [i \in {} |-> 0]
    /\ rules = InitialRules
    /\ current = Nobody
    /\ making = [c \in Callers |-> 0]
    /\ iter = [c \in Callers |-> NoIter]
    /\ todo = [c \in Callers |-> <<>>]
    /\ notified = {} /\ raised = {}
    /\ calls = [k \in Keys |-> 0]

-----------------------------------------------------------------------------
(* create_alert up to the alert rules *)

\* Mutant of Similar: an acknowledged alert is not looked at.
SimilarActive(k) == {a \in active : alerts[a].key = k /\ alerts[a].status = "active"}
Similar(k) == {a \in active : alerts[a].key = k /\ alerts[a].status \in Open}

TotalCalls == Cardinality({n \in Keys \X (1 .. MaxCalls) : n[2] <= calls[n[1]]})

Calls(c, k) ==
    /\ current = Nobody
    /\ making[c] = 0
    /\ TotalCalls < MaxCalls
    /\ calls' = [calls EXCEPT ![k] = @ + 1]

\* An open alert like it exists: that one is counted up.
UpdateExisting(c, k) ==
    /\ Calls(c, k)
    /\ Similar(k) # {}
    /\ alerts' = [alerts EXCEPT ![Least(Similar(k))].count = @ + 1]
    /\ UNCHANGED <<active, history, rules, callVars, notified, raised>>

\* _add_to_history: a copy of the alert, and the oldest entries go.
Remember(a, alert) ==
    LET ids == DOMAIN history \cup {a}
        kept == IF Cardinality(ids) <= MaxHistory THEN ids
                ELSE {i \in ids : Cardinality({j \in ids : j < i}) >= Evicted}
    IN history' = [i \in kept |-> IF i = a THEN alert ELSE history[i]]

Places == {i \in DOMAIN rules : rules[i] # NoRule}

Create(c, k, s) ==
    /\ Calls(c, k)
    /\ Similar(k) = {}
    /\ LET a == Len(alerts) + 1
           quiet == <<k, s>> \in Suppressed
           alert == [key |-> k, severity |-> s, level |-> 0, count |-> 1,
                     status |-> IF quiet THEN "suppressed" ELSE "active",
                     suppressed |-> quiet]
       IN /\ alerts' = Append(alerts, alert)
          /\ active' = active \cup {a}
          /\ Remember(a, alert)
          /\ making' = [making EXCEPT ![c] = a]
    /\ iter' = [iter EXCEPT ![c] = [used |-> Cardinality(Places), pos |-> 0,
                                    left |-> Cardinality(Places)]]
    /\ current' = c
    /\ UNCHANGED <<rules, todo, notified, raised>>

-----------------------------------------------------------------------------
(* _process_alert_rules and _execute_rule_actions for the alert of a call *)

Goes(c) == making[c] # 0 /\ current \in {c, Nobody}
Its(c) == alerts[making[c]]
Ahead(c) == {i \in Places : i > iter[c].pos}

\* next() on the items of the dict raises if their number has changed, or if it
\* finds an entry after as many as there were.
IterFails(c) == \/ Cardinality(Places) # iter[c].used
                \/ Ahead(c) # {} /\ iter[c].left = 0

\* Mutant of NextRule: the iterator is not advanced.
NextRuleAgain(c) ==
    /\ Goes(c) /\ todo[c] = <<>>
    /\ ~IterFails(c) /\ Ahead(c) # {}
    /\ LET i == Least(Ahead(c))
       IN todo' = [todo EXCEPT ![c] =
              IF Its(c).severity \in RuleMatches[rules[i]] THEN RuleActions[rules[i]] ELSE <<>>]
    /\ current' = c
    /\ UNCHANGED <<alerts, active, history, rules, making, iter, notified, raised, calls>>

NextRule(c) ==
    /\ Goes(c) /\ todo[c] = <<>>
    /\ ~IterFails(c) /\ Ahead(c) # {}
    /\ LET i == Least(Ahead(c))
       IN /\ iter' = [iter EXCEPT ![c].pos = i, ![c].left = @ - 1]
          /\ todo' = [todo EXCEPT ![c] =
                 IF Its(c).severity \in RuleMatches[rules[i]] THEN RuleActions[rules[i]] ELSE <<>>]
    /\ current' = c
    /\ UNCHANGED <<alerts, active, history, rules, making, notified, raised, calls>>

Ends(c) ==
    /\ making' = [making EXCEPT ![c] = 0]
    /\ iter' = [iter EXCEPT ![c] = NoIter]
    /\ todo' = [todo EXCEPT ![c] = <<>>]
    /\ current' = Nobody

\* The iterator raises: create_alert fails, and the alert stays stored.
RulesChanged(c) ==
    /\ Goes(c) /\ todo[c] = <<>>
    /\ IterFails(c)
    /\ raised' = raised \cup {making[c]}
    /\ Ends(c)
    /\ UNCHANGED <<alerts, active, history, rules, notified, calls>>

\* Mutant of RulesDone: the status is looked at, not the flag.
RulesDoneByStatus(c) ==
    /\ Goes(c) /\ todo[c] = <<>>
    /\ ~IterFails(c) /\ Ahead(c) = {}
    /\ notified' = IF Its(c).status = "suppressed" THEN notified ELSE notified \cup {making[c]}
    /\ Ends(c)
    /\ UNCHANGED <<alerts, active, history, rules, raised, calls>>

\* All rules are processed: the alert is notified unless suppressed.  Nothing
\* the call does after that changes anything.
RulesDone(c) ==
    /\ Goes(c) /\ todo[c] = <<>>
    /\ ~IterFails(c) /\ Ahead(c) = {}
    /\ notified' = IF Its(c).suppressed THEN notified ELSE notified \cup {making[c]}
    /\ Ends(c)
    /\ UNCHANGED <<alerts, active, history, rules, raised, calls>>

Does(c, action) ==
    /\ Goes(c) /\ todo[c] # <<>> /\ Head(todo[c]) = action
    /\ todo' = [todo EXCEPT ![c] = Tail(@)]
    /\ UNCHANGED <<active, history, rules, making, iter, notified, raised, calls>>

Escalated(alert) == [alert EXCEPT !.level = @ + 1, !.severity = Raised(@)]

\* A suppress action writes to the alert, whatever has become of it.
Suppress(c) ==
    /\ Does(c, "suppress")
    /\ alerts' = [alerts EXCEPT ![making[c]].status = "suppressed",
                                ![making[c]].suppressed = TRUE]
    /\ current' = c

\* An escalate action: nothing if the alert is resolved by now.
EscalateByRule(c) ==
    /\ Does(c, "escalate")
    /\ IF making[c] \in active
       THEN /\ alerts' = [alerts EXCEPT ![making[c]] = Escalated(@)]
            /\ current' = Nobody
       ELSE current' = c /\ UNCHANGED alerts

NotifyByRule(c) ==
    /\ Does(c, "notify")
    /\ current' = Nobody
    /\ UNCHANGED alerts

\* A RuleAction object, which cannot be subscripted: the error is logged.
ActionFails(c) ==
    /\ Does(c, "object")
    /\ current' = c
    /\ UNCHANGED alerts

-----------------------------------------------------------------------------
(* Operators *)

Operates == current = Nobody /\ UNCHANGED <<history, callVars, notified, raised, calls>>

Acknowledge(a) ==
    /\ a \in active
    /\ alerts[a].status # "acknowledged"
    /\ alerts' = [alerts EXCEPT ![a].status = "acknowledged"]
    /\ UNCHANGED <<active, rules>>
    /\ Operates

\* Mutant of Resolve: the alert stays in active_alerts.
ResolveKeepsActive(a) ==
    /\ a \in active
    /\ alerts[a].status # "resolved"
    /\ alerts' = [alerts EXCEPT ![a].status = "resolved"]
    /\ UNCHANGED <<active, rules>>
    /\ Operates

Resolve(a) ==
    /\ a \in active
    /\ alerts[a].status # "resolved"
    /\ alerts' = [alerts EXCEPT ![a].status = "resolved"]
    /\ active' = active \ {a}
    /\ UNCHANGED rules
    /\ Operates

Escalate(a) ==
    /\ a \in active
    /\ alerts[a].level < MaxLevel
    /\ alerts' = [alerts EXCEPT ![a] = Escalated(@)]
    /\ UNCHANGED <<active, rules>>
    /\ Operates

AddAlertRule(r) ==
    /\ \A i \in Places : rules[i] # r
    /\ Len(rules) < MaxRules
    /\ rules' = Append(rules, r)
    /\ UNCHANGED <<alerts, active>>
    /\ Operates

RemoveAlertRule(r) ==
    /\ \E i \in Places : rules[i] = r
    /\ rules' = [i \in DOMAIN rules |-> IF rules[i] = r THEN NoRule ELSE rules[i]]
    /\ UNCHANGED <<alerts, active>>
    /\ Operates

-----------------------------------------------------------------------------
ProcessRules(c) ==
    \/ NextRule(c) \/ RulesChanged(c) \/ RulesDone(c)
    \/ EscalateByRule(c) \/ NotifyByRule(c) \/ Suppress(c) \/ ActionFails(c)

Next ==
    \/ \E c \in Callers :
          \/ \E k \in Keys : \/ UpdateExisting(c, k)
                             \/ \E s \in Severities : Create(c, k, s)
          \/ ProcessRules(c)
    \/ \E a \in active : Acknowledge(a) \/ Resolve(a) \/ Escalate(a)
    \/ \E r \in Rules : AddAlertRule(r) \/ RemoveAlertRule(r)

Spec == Init /\ [][Next]_vars

\* Deliveries end (they have timeouts), and the event loop resumes their tasks.
FairSpec == Spec /\ \A c \in Callers : WF_vars(ProcessRules(c))

-----------------------------------------------------------------------------
(* Properties *)

\* The shape of the state; only alerts that exist are active, remembered, being
\* processed or notified, active_alerts holds no resolved alert, and a caller has
\* rules and actions to process only while it creates an alert.
TypeOK ==
    /\ alerts \in Seq(Alert)
    /\ active \subseteq DOMAIN alerts
    /\ \A a \in active : alerts[a].status # "resolved"
    /\ DOMAIN history \subseteq DOMAIN alerts
    /\ \A a \in DOMAIN history : history[a] \in Alert
    /\ rules \in Seq(Rules \cup {NoRule})
    /\ current \in Callers \cup {Nobody}
    /\ making \in [Callers -> DOMAIN alerts \cup {0}]
    /\ iter \in [Callers -> [used : Nat, pos : Nat, left : Nat]]
    /\ todo \in [Callers -> Seq(Action)]
    /\ \A c \in Callers : making[c] = 0 => todo[c] = <<>> /\ iter[c] = NoIter
    /\ notified \cup raised \subseteq DOMAIN alerts
    /\ calls \in [Keys -> Nat]

\* Repeated trouble is one alert: of the open alerts of one title, type and device at
\* most one was never suppressed, whatever operators and rules did to the others.
OneOpenPerKey ==
    \A a, b \in active :
        /\ alerts[a].key = alerts[b].key
        /\ {alerts[a].status, alerts[b].status} \subseteq Open
        /\ ~alerts[a].suppressed /\ ~alerts[b].suppressed
        => a = b

\* Every call of create_alert is one occurrence of exactly one alert.
OccurrencesAddUp ==
    \A k \in Keys :
        calls[k] = Cardinality({n \in (DOMAIN alerts) \X (1 .. MaxCalls) :
                                  alerts[n[1]].key = k /\ n[2] <= alerts[n[1]].count})

\* Escalations by rules and operators add up: the severity is the one the alert was
\* made with (which its history entry still has) raised once for each, up to CRITICAL.
SeverityFollowsLevel ==
    \A a \in DOMAIN history :
        LET raisedTo == history[a].severity + alerts[a].level
        IN alerts[a].severity = IF raisedTo > 4 THEN 4 ELSE raisedTo

\* When create_alert has returned, its alert notification was sent exactly if neither
\* a suppression rule nor an action of an alert rule suppressed the alert, even if
\* an operator acknowledged or resolved it meanwhile.
SilentIffSuppressed ==
    \A a \in DOMAIN alerts \ raised :
        (\A c \in Callers : making[c] # a) => (a \in notified <=> ~alerts[a].suppressed)

\* The history is bounded and holds the newest alerts without a gap.
HistoryKeepsNewest ==
    /\ Cardinality(DOMAIN history) <= MaxHistory
    /\ \A a \in DOMAIN history : \A b \in DOMAIN alerts : b > a => b \in DOMAIN history

\* Once its rules are processed, an acknowledged alert stays so until it is resolved,
\* and a resolved one stays resolved.
DecisionsStand ==
    [][\A a \in DOMAIN alerts :
          (\A c \in Callers : making[c] # a) =>
              /\ alerts[a].status = "acknowledged" => alerts'[a].status \in {"acknowledged", "resolved"}
              /\ alerts[a].status = "resolved" => alerts'[a] = alerts[a]]_vars

\* A call of create_alert ends, whatever happens to the rules meanwhile.
CreateEnds == \A c \in Callers : making[c] # 0 ~> making[c] = 0

\* What is kept of alerts agrees with what was done: occurrences, levels, notifications
\* and the history.
BooksAgree ==
    OccurrencesAddUp /\ SeverityFollowsLevel /\ SilentIffSuppressed /\ HistoryKeepsNewest

=============================================================================
