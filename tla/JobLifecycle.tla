----------------------------- MODULE JobLifecycle -----------------------------
(***************************************************************************)
(* What the scheduler of discovery promises of a job, without queue, clock *)
(* and workers: it waits, is under way, and ends once and for all; only so *)
(* many jobs are under way at a time, and a job is tried only so often.    *)
(***************************************************************************)
EXTENDS Naturals, FiniteSets

CONSTANTS AllJobs, MaxConcurrent, MaxRetries

VARIABLES phase, attempts

UnderWay == {j \in AllJobs : phase[j] = "underWay"}

Init ==
    /\ phase = [j \in AllJobs |-> "absent"]
    /\ attempts = [j \in AllJobs |-> 0]

Moves(j, from, to) ==
    /\ phase[j] = from
    /\ phase' = [phase EXCEPT ![j] = to]

Submit(j) == Moves(j, "absent", "waiting") /\ UNCHANGED attempts
Withdraw(j) == Moves(j, "waiting", "cancelled") /\ UNCHANGED attempts

Begin(j) ==
    /\ Cardinality(UnderWay) < MaxConcurrent
    /\ Moves(j, "waiting", "underWay")
    /\ UNCHANGED attempts

Succeed(j) == Moves(j, "underWay", "completed") /\ UNCHANGED attempts

\* A failed attempt is followed by another one as long as there are any left.
TryAgain(j) ==
    /\ attempts[j] < MaxRetries
    /\ Moves(j, "underWay", "waiting")
    /\ attempts' = [attempts EXCEPT ![j] = @ + 1]

GiveUp(j) ==
    /\ attempts[j] = MaxRetries
    /\ Moves(j, "underWay", "failed")
    /\ UNCHANGED attempts

\* A stop catches jobs between a failed attempt and the next one: they stay failed.
Interrupt ==
    /\ \E caught \in (SUBSET UnderWay) \ {{}} :
          phase' = [j \in AllJobs |-> IF j \in caught THEN "failed" ELSE phase[j]]
    /\ UNCHANGED attempts

\* A stop cancels everything that is under way.
CancelAll ==
    /\ phase' = [j \in AllJobs |-> IF j \in UnderWay THEN "cancelled" ELSE phase[j]]
    /\ UNCHANGED attempts

Next ==
    \/ \E j \in AllJobs : Submit(j) \/ Withdraw(j) \/ Begin(j) \/ Succeed(j) \/ TryAgain(j) \/ GiveUp(j)
    \/ Interrupt \/ CancelAll

Spec == Init /\ [][Next]_<<phase, attempts>>

=============================================================================
