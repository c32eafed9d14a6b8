------------------------------ MODULE AlertRules ------------------------------
(***************************************************************************)
(* The alert rule engine.  A call of process_alert walks the rules it      *)
(* found enabled, in the order of their priority; a rule whose conditions  *)
(* hold changes the alert and may call a web hook.  Only the web hook      *)
(* suspends, and a rule counts its execution when all its actions are      *)
(* done: calls overlap, share the rules' counters and see rules that were  *)
(* removed or disabled meanwhile.                                          *)
(***************************************************************************)
EXTENDS Naturals, FiniteSets, Sequences, SequencesExt, TLC

CONSTANTS
    Rules,           \* rule objects
    RulePriority, RuleConditions, RuleLogic, RuleActions,   \* by rule
    MaxExecutions, Cooldown,    \* by rule, 0 for none
    AlertCalls,      \* calls of process_alert under way at a time
    NewAlerts,       \* the alerts they are given, as functions of their fields
    MaxTime, MaxCalls

ASSUME AlertRulesAssumption ==
    /\ RulePriority \in [Rules -> Nat] /\ RuleLogic \in [Rules -> {"AND", "OR"}]
    /\ MaxExecutions \in [Rules -> Nat] /\ Cooldown \in [Rules -> Nat]
    /\ \A r \in Rules : RuleActions[r] \in
           Seq({"escalate", "suppress", "auto_resolve", "webhook", "note"})
    /\ IsFiniteSet(Rules) /\ IsFiniteSet(AlertCalls)

VARIABLES
    engineRules,     \* the rules added and not removed
    ruleEnabled, executions, lastExecuted,   \* by rule; lastExecuted is 0 for never
    lastEnd,         \* ghost, by rule: when an execution ended last
    ruleTime,
    ruleCall,        \* by call; ghost: the alert as it came, the rules that have matched
    onLoop,          \* the call that runs, if any: it goes on until it suspends in a web hook
    callsMade        \* ghost

ruleVars == <<engineRules, ruleEnabled, executions, lastExecuted, lastEnd, ruleTime, ruleCall,
              onLoop, callsMade>>

Nobody == "nobody"
NoCall == [at |-> "free", alert |-> <<>>, todo |-> <<>>, actions |-> <<>>, given |-> <<>>,
           matched |-> <<>>]

RulesInit ==
    /\ engineRules = Rules /\ ruleEnabled = [r \in Rules |-> TRUE]
    /\ executions = [r \in Rules |-> 0] /\ lastExecuted = [r \in Rules |-> 0]
    /\ lastEnd = [r \in Rules |-> 0]
    /\ ruleTime = 1 /\ callsMade = 0 /\ onLoop = Nobody
    /\ ruleCall = [c \in AlertCalls |-> NoCall]

-----------------------------------------------------------------------------
(* Conditions *)

\* A condition on a field the alert lacks is false, whatever its type; so is an order
\* between things that are no numbers, and a frequency, which is not implemented.
Holds(condition, alert) ==
    /\ condition.field \in DOMAIN alert
    /\ LET v == alert[condition.field]
       IN CASE condition.type = "equals" -> v = condition.value
            [] condition.type = "not_equals" -> v # condition.value
            [] condition.type = "in_list" -> v \in condition.value
            [] condition.type = "not_in_list" -> v \notin condition.value
            [] condition.type = "greater_than" -> v \in Nat /\ v > condition.value
            [] condition.type = "less_equal" -> v \in Nat /\ v <= condition.value
            [] OTHER -> FALSE

Matches(r, alert) ==
    \/ RuleConditions[r] = {}
    \/ IF RuleLogic[r] = "OR"
       THEN \E c \in RuleConditions[r] : Holds(c, alert)
       ELSE \A c \in RuleConditions[r] : Holds(c, alert)

-----------------------------------------------------------------------------
(* Actions *)

Severities == <<"low", "medium", "high", "critical">>
Rank(severity) == CHOOSE k \in DOMAIN Severities : Severities[k] = severity

Field(alert, f, default) == IF f \in DOMAIN alert THEN alert[f] ELSE default
With(alert, f, v) == [g \in DOMAIN alert \cup {f} |-> IF g = f THEN v ELSE alert[g]]
SeverityOf(alert) == Field(alert, "severity", "medium")
LevelOf(alert) == Field(alert, "escalation_level", 0)

\* An alert has one of the severities, and a level if it was escalated before.
ASSUME NewAlertsAssumption ==
    \A alert \in NewAlerts :
        LevelOf(alert) \in Nat /\ \E k \in DOMAIN Severities : SeverityOf(alert) = Severities[k]

\* One step up, and CRITICAL stays.
Escalate(alert) ==
    LET rank == Rank(SeverityOf(alert))
    IN With(With(alert, "escalation_level", LevelOf(alert) + 1),
            "severity", Severities[IF rank = 4 THEN 4 ELSE rank + 1])

Effect(alert, action) ==
    CASE action = "escalate" -> Escalate(alert)
      [] action = "suppress" -> With(alert, "status", "suppressed")
      [] action = "auto_resolve" -> With(alert, "status", "resolved")
      [] OTHER -> alert        \* notify, ticket, function; tags and the priority are left out

\* Mutant of CanExecute: one execution too many.
CanExecuteOnce(r) ==
    /\ ruleEnabled[r]
    /\ MaxExecutions[r] = 0 \/ executions[r] <= MaxExecutions[r]
    /\ Cooldown[r] = 0 \/ lastExecuted[r] = 0 \/ ruleTime >= lastExecuted[r] + Cooldown[r]
CanExecute(r) ==
    /\ ruleEnabled[r]
    /\ MaxExecutions[r] = 0 \/ executions[r] < MaxExecutions[r]
    /\ Cooldown[r] = 0 \/ lastExecuted[r] = 0 \/ ruleTime >= lastExecuted[r] + Cooldown[r]

-----------------------------------------------------------------------------
(* The engine *)

AddRule(r) ==
    /\ onLoop = Nobody
    /\ r \notin engineRules /\ engineRules' = engineRules \cup {r}
    /\ UNCHANGED <<ruleEnabled, executions, lastExecuted, lastEnd, ruleTime, ruleCall, onLoop, callsMade>>

RemoveRule(r) ==
    /\ onLoop = Nobody
    /\ r \in engineRules /\ engineRules' = engineRules \ {r}
    /\ UNCHANGED <<ruleEnabled, executions, lastExecuted, lastEnd, ruleTime, ruleCall, onLoop, callsMade>>

SetEnabled(r) ==
    /\ onLoop = Nobody
    /\ ruleEnabled' = [ruleEnabled EXCEPT ![r] = ~@]
    /\ UNCHANGED <<engineRules, executions, lastExecuted, lastEnd, ruleTime, ruleCall, onLoop, callsMade>>

InOrder(list) ==
    \A i, j \in DOMAIN list : i < j =>
        RulePriority[list[i]] <= RulePriority[list[j]] /\ list[i] # list[j]

\* The rules that are enabled, those with the smallest number first; rules of the same priority
\* come as the dictionary has them, in any order.
ListRules ==
    LET enabled == {r \in engineRules : ruleEnabled[r]}
    IN {list \in [1 .. Cardinality(enabled) -> enabled] : InOrder(list)}

ProcessAlert(c, alert) ==
    /\ onLoop = Nobody /\ ruleCall[c].at = "free" /\ callsMade < MaxCalls
    /\ callsMade' = callsMade + 1 /\ onLoop' = c
    /\ \E list \in ListRules :
           ruleCall' = [ruleCall EXCEPT ![c] =
               [NoCall EXCEPT !.at = "rule", !.alert = alert, !.given = alert, !.todo = list]]
    /\ UNCHANGED <<engineRules, ruleEnabled, executions, lastExecuted, lastEnd, ruleTime>>

\* The next rule does not match, or matches but may not execute: it is reported, with no action.
PassRule(c) ==
    /\ onLoop = c /\ ruleCall[c].at = "rule" /\ ruleCall[c].todo # <<>>
    /\ LET r == Head(ruleCall[c].todo)
           matches == Matches(r, ruleCall[c].alert)
       IN /\ ~matches \/ ~CanExecute(r)
          /\ ruleCall' = [ruleCall EXCEPT ![c].todo = Tail(@),
                                          ![c].matched = IF matches THEN Append(@, r) ELSE @]
    /\ UNCHANGED <<engineRules, ruleEnabled, executions, lastExecuted, lastEnd, ruleTime, onLoop, callsMade>>

BeginRule(c) ==
    /\ onLoop = c /\ ruleCall[c].at = "rule" /\ ruleCall[c].todo # <<>>
    /\ LET r == Head(ruleCall[c].todo)
       IN /\ Matches(r, ruleCall[c].alert) /\ CanExecute(r)
          /\ ruleCall' = [ruleCall EXCEPT
                 ![c].at = "actions", ![c].actions = RuleActions[r], ![c].matched = Append(@, r)]
    /\ UNCHANGED <<engineRules, ruleEnabled, executions, lastExecuted, lastEnd, ruleTime, onLoop, callsMade>>

Act(c) ==
    /\ onLoop = c /\ ruleCall[c].at = "actions" /\ ruleCall[c].actions # <<>>
    /\ Head(ruleCall[c].actions) # "webhook"
    /\ ruleCall' = [ruleCall EXCEPT ![c].actions = Tail(@),
                                    ![c].alert = Effect(@, Head(ruleCall[c].actions))]
    /\ UNCHANGED <<engineRules, ruleEnabled, executions, lastExecuted, lastEnd, ruleTime, onLoop, callsMade>>

\* The call waits for the answer of the web hook, and goes on whatever it is.
CallHook(c) ==
    /\ onLoop = c /\ ruleCall[c].at = "actions" /\ ruleCall[c].actions # <<>>
    /\ Head(ruleCall[c].actions) = "webhook"
    /\ ruleCall' = [ruleCall EXCEPT ![c].actions = Tail(@)] /\ onLoop' = Nobody
    /\ UNCHANGED <<engineRules, ruleEnabled, executions, lastExecuted, lastEnd, ruleTime, callsMade>>

HookAnswers(c) ==
    /\ onLoop = Nobody /\ ruleCall[c].at = "actions" /\ onLoop' = c
    /\ UNCHANGED <<engineRules, ruleEnabled, executions, lastExecuted, lastEnd, ruleTime, ruleCall, callsMade>>

\* All actions are done: the execution is counted.
RuleDone(c) ==
    /\ onLoop = c /\ ruleCall[c].at = "actions" /\ ruleCall[c].actions = <<>>
    /\ LET r == Head(ruleCall[c].todo)
       IN /\ executions' = [executions EXCEPT ![r] = @ + 1]
          /\ lastExecuted' = [lastExecuted EXCEPT ![r] = ruleTime]
          /\ lastEnd' = [lastEnd EXCEPT ![r] = ruleTime]
    /\ ruleCall' = [ruleCall EXCEPT ![c].at = "rule", ![c].todo = Tail(@)]
    /\ UNCHANGED <<engineRules, ruleEnabled, ruleTime, onLoop, callsMade>>

AlertProcessed(c) ==
    /\ onLoop = c /\ ruleCall[c].at = "rule" /\ ruleCall[c].todo = <<>>
    /\ ruleCall' = [ruleCall EXCEPT ![c] = NoCall] /\ onLoop' = Nobody
    /\ UNCHANGED <<engineRules, ruleEnabled, executions, lastExecuted, lastEnd, ruleTime, callsMade>>

RuleTimePasses ==
    /\ onLoop = Nobody /\ ruleTime < MaxTime /\ ruleTime' = ruleTime + 1
    /\ UNCHANGED <<engineRules, ruleEnabled, executions, lastExecuted, lastEnd, ruleCall, onLoop, callsMade>>

RuleStep(c) ==
    \/ PassRule(c) \/ BeginRule(c) \/ Act(c) \/ RuleDone(c) \/ AlertProcessed(c)
    \/ CallHook(c) \/ HookAnswers(c)

RulesNext ==
    \/ \E c \in AlertCalls : RuleStep(c) \/ (\E alert \in NewAlerts : ProcessAlert(c, alert))
    \/ \E r \in Rules : AddRule(r) \/ RemoveRule(r) \/ SetEnabled(r)
    \/ RuleTimePasses

RulesSpec == RulesInit /\ [][RulesNext]_ruleVars

-----------------------------------------------------------------------------
(* Properties *)

\* Calls that overlap may each pass the check of the limit before the others are counted: a
\* rule exceeds its limit by no more than the other calls there can be.
ExecutionsBounded ==
    \A r \in Rules : MaxExecutions[r] > 0 =>
        executions[r] + Cardinality({c \in AlertCalls : ruleCall[c].at = "actions"
                                        /\ Head(ruleCall[c].todo) = r})
            <= MaxExecutions[r] + Cardinality(AlertCalls) - 1

\* A rule begins only when it is enabled, whatever it was when the call listed it, and when
\* its cooldown has passed since the end of every execution that has ended.
CooldownBetween ==
    [][\A c \in AlertCalls, r \in Rules :
           (ruleCall[c].at = "rule" /\ ruleCall'[c].at = "actions" /\ Head(ruleCall[c].todo) = r)
               => /\ ruleEnabled[r]
                  /\ lastEnd[r] = 0 \/ ruleTime >= lastEnd[r] + Cooldown[r]]_ruleVars

\* The rules report in the order of their priority, each once.
ReportedInOrder == \A c \in AlertCalls : InOrder(ruleCall[c].matched)

\* Rules never lower a severity, and it is that the alert came with, raised by the levels it was
\* escalated since.
EscalationAddsUp ==
    \A c \in AlertCalls : LET call == ruleCall[c] IN
        call.at # "free" =>
            LET raised == Rank(SeverityOf(call.given)) + (LevelOf(call.alert) - LevelOf(call.given))
            IN Rank(SeverityOf(call.alert)) = IF raised > 4 THEN 4 ELSE raised

\* Rules keep their limits, report in order and escalate by what they say.
RuleInv == ExecutionsBounded /\ ReportedInOrder /\ EscalationAddsUp

=============================================================================
