----------------------------- MODULE MCAlertManager -----------------------------
(* Instances of AlertManager for TLC. *)
EXTENDS AlertManager, TLC

CONSTANTS r1, r2

\* The first rule tells somebody about high alerts, then suppresses them; the
\* second, given with one RuleAction object, escalates every alert.
MCRuleMatches == (r1 :> 3 .. 4) @@ (r2 :> 1 .. 4)
MCRuleActions == (r1 :> <<"notify", "suppress">>) @@ (r2 :> <<"object", "escalate">>)
MCInitialRules == <<r1>>

\* A suppression rule keeps quiet about medium heat.
MCSuppressed == {<<"heat", 2>>}
=============================================================================
