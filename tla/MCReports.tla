------------------------------ MODULE MCReports ------------------------------
(***************************************************************************)
(* The notification service, the alert rule engine, the report engine and  *)
(* a dashboard share no state here: a behaviour is one of one of them, and *)
(* the others stay as they began.                                          *)
(***************************************************************************)
EXTENDS Notifications, AlertRules, ReportEngine, Dashboard

CONSTANTS mail, number, url, r1, r2

VARIABLE part

reportsVars == <<part, notificationVars, ruleVars, reportVars, dashVars>>

\* Instance of the notifications: three kinds of addresses.
MCAccepts == [c \in Channels |->
    CASE c = "email" -> {mail} [] c = "sms" -> {number} [] c = "webhook" -> {url} [] OTHER -> {}]
MCCustomChannels == <<"push", "webhook", "sms">>

\* Instance of the rules: r1 may be executed once, r2 has a cooldown.
MCPriority == (r1 :> 10) @@ (r2 :> 20)
MCConditions ==
    (r1 :> {[field |-> "severity", type |-> "not_equals", value |-> "critical"],
            [field |-> "occurrences", type |-> "greater_than", value |-> 1]})
 @@ (r2 :> {[field |-> "status", type |-> "in_list", value |-> {"suppressed", "active"}],
            [field |-> "severity", type |-> "equals", value |-> "critical"],
            [field |-> "occurrences", type |-> "frequency", value |-> 1]})
MCLogic == (r1 :> "AND") @@ (r2 :> "OR")
MCActions == (r1 :> <<"escalate", "webhook">>) @@ (r2 :> <<"webhook", "escalate", "suppress">>)
MCMax == (r1 :> 1) @@ (r2 :> 0)
MCCooldown == (r1 :> 0) @@ (r2 :> 1)
MCAlerts == {("severity" :> "high") @@ ("status" :> "active") @@ ("occurrences" :> 2),
             "occurrences" :> 2}

Init ==
    /\ part \in {"notifications", "rules", "reports", "dashboard"}
    /\ NotificationsInit /\ RulesInit /\ ReportsInit /\ DashboardInit
    /\ part # "notifications" => ready = {}

Next ==
    /\ UNCHANGED part
    /\ \/ part = "notifications" /\ NotificationsNext /\ UNCHANGED <<ruleVars, reportVars, dashVars>>
       \/ part = "rules" /\ RulesNext /\ UNCHANGED <<notificationVars, reportVars, dashVars>>
       \/ part = "reports" /\ ReportsNext /\ UNCHANGED <<notificationVars, ruleVars, dashVars>>
       \/ part = "dashboard" /\ DashboardNext /\ UNCHANGED <<notificationVars, ruleVars, reportVars>>

Spec == Init /\ [][Next]_reportsVars /\ NotificationsFairness /\ DashboardFairness

\* What holds of the rule engine and the report engine at any time.
ReportsInv == RuleInv /\ ReportInv

\* What the services of reporting do over time: nobody is called again after an answer,
\* notifications and the calls of a dashboard end, and rules wait for their cooldown.
ReportsPromises ==
    NeverAfterAnswer /\ NotificationsEnd /\ CooldownBetween /\ DashboardCallsEnd

=============================================================================
