---------------------------- MODULE HealthChecker ----------------------------
(***************************************************************************)
(* The health checker of the database: a loop that checks and sleeps,      *)
(* explicit checks that overlap with it, the count of failures in a row    *)
(* that decides on the health, and callbacks told of its changes.          *)
(* A check suspends in its query, and in each callback it calls; what it   *)
(* does between two suspensions is one step.                               *)
(***************************************************************************)
EXTENDS Naturals, FiniteSets, Sequences, SequencesExt

CONSTANTS
    Askers,                \* tasks that call force_check
    Callbacks,
    FailureThreshold,
    NoLoop,
    MaxLoops, MaxChecks    \* bounds of start() and of the checks

ASSUME HealthAssumption ==
    /\ FailureThreshold \in Nat \ {0}
    /\ MaxLoops \in Nat /\ MaxChecks \in Nat
    /\ Askers \cap (1 .. MaxLoops) = {} /\ NoLoop \notin Nat

VARIABLES
    isRunning, checkTask,  \* of the checker: the loop it knows of
    loops,                 \* the loops started
    cancelled,             \* loops asked to stop, until they have
    checkAt,               \* by asker and loop: idle, query, telling, sleep, ended
    saying, position,      \* by asker and loop: what it tells, and the next callback's index
    callbacks,             \* in the order they were added
    isHealthy, consecutiveFailures, checksDone,
    told,                  \* ghost: by callback, the health it was last told, or found when added
    reset,                 \* ghost: the metrics have been reset since the last success
    muddled                \* ghost: calls of callbacks have overlapped, been cut short, or been
                           \* under way while the callbacks changed

hcVars == <<isRunning, checkTask, loops, cancelled, checkAt, saying, position, callbacks, isHealthy,
            consecutiveFailures, checksDone, told, reset, muddled>>

LoopIds == 1 .. MaxLoops
Checking == Askers \cup LoopIds

HealthInit ==
    /\ isRunning = FALSE /\ checkTask = NoLoop /\ loops = 0 /\ cancelled = {}
    /\ checkAt = [w \in Checking |-> "idle"]
    /\ saying = [w \in Checking |-> TRUE] /\ position = [w \in Checking |-> 1]
    /\ callbacks = <<>>
    /\ isHealthy = TRUE /\ consecutiveFailures = 0 /\ checksDone = 0
    /\ told = [b \in Callbacks |-> TRUE] /\ reset = FALSE /\ muddled = FALSE

Telling == {w \in Checking : checkAt[w] = "telling"}

-----------------------------------------------------------------------------
(* start, stop, the loop *)

MayBegin == ~isRunning

StartMonitoring ==
    /\ MayBegin /\ loops < MaxLoops
    /\ isRunning' = TRUE /\ loops' = loops + 1 /\ checkTask' = loops + 1
    /\ checkAt' = [checkAt EXCEPT ![loops + 1] = "query"]
    /\ UNCHANGED <<cancelled, saying, position, callbacks, isHealthy, consecutiveFailures,
                   checksDone, told, reset, muddled>>

\* stop() asks the loop to stop and waits for it.
StopMonitoring ==
    /\ isRunning
    /\ isRunning' = FALSE
    /\ cancelled' = cancelled \cup {checkTask}
    /\ UNCHANGED <<checkTask, loops, checkAt, saying, position, callbacks, isHealthy,
                   consecutiveFailures, checksDone, told, reset, muddled>>

\* A cancelled loop ends where it is suspended, also in a callback.
LoopBreaks(l) ==
    /\ l \in cancelled
    /\ cancelled' = cancelled \ {l}
    /\ checkAt' = [checkAt EXCEPT ![l] = "ended"]
    /\ muddled' = (muddled \/ checkAt[l] = "telling")
    /\ UNCHANGED <<isRunning, checkTask, loops, saying, position, callbacks, isHealthy,
                   consecutiveFailures, checksDone, told, reset>>

LoopWakes(l) ==
    /\ checkAt[l] = "sleep" /\ l \notin cancelled
    /\ checksDone < MaxChecks
    /\ checkAt' = [checkAt EXCEPT ![l] = "query"]
    /\ UNCHANGED <<isRunning, checkTask, loops, cancelled, saying, position, callbacks, isHealthy,
                   consecutiveFailures, checksDone, told, reset, muddled>>

ForceCheck(a) ==
    /\ checkAt[a] = "idle"
    /\ checkAt' = [checkAt EXCEPT ![a] = "query"]
    /\ UNCHANGED <<isRunning, checkTask, loops, cancelled, saying, position, callbacks, isHealthy,
                   consecutiveFailures, checksDone, told, reset, muddled>>

-----------------------------------------------------------------------------
(* perform_health_check *)

After(w) == IF w \in LoopIds THEN "sleep" ELSE "idle"

\* The check is over, or its callbacks are called when the health has changed.
GoesOn(w, changed, health) ==
    /\ checkAt' = [checkAt EXCEPT ![w] = IF changed THEN "telling" ELSE After(w)]
    /\ saying' = [saying EXCEPT ![w] = health \/ ~changed]
    /\ UNCHANGED position
    /\ muddled' = (muddled \/ (changed /\ Telling # {}))

Queried(w) ==
    /\ checkAt[w] = "query" /\ w \notin cancelled
    /\ checksDone < MaxChecks
    /\ checksDone' = checksDone + 1
    /\ UNCHANGED <<isRunning, checkTask, loops, cancelled, callbacks, told>>

CheckSucceeds(w) ==
    /\ Queried(w)
    /\ consecutiveFailures' = 0 /\ reset' = FALSE
    /\ isHealthy' = TRUE
    /\ GoesOn(w, ~isHealthy, TRUE)

Unhealthy(failures) == failures >= FailureThreshold

\* The query fails or takes too long.
CheckFails(w) ==
    /\ Queried(w)
    /\ consecutiveFailures' = consecutiveFailures + 1
    /\ isHealthy' = (isHealthy /\ ~Unhealthy(consecutiveFailures + 1))
    /\ GoesOn(w, isHealthy /\ Unhealthy(consecutiveFailures + 1), FALSE)
    /\ UNCHANGED reset

\* Mutant of Tell: the callbacks are called from the second on.
TellButFirst(w) ==
    /\ w \in Telling \ cancelled
    /\ position[w] <= Len(callbacks)
    /\ told' = IF position[w] = 1 THEN told ELSE [told EXCEPT ![callbacks[position[w]]] = saying[w]]
    /\ position' = [position EXCEPT ![w] = @ + 1]
    /\ UNCHANGED <<isRunning, checkTask, loops, cancelled, checkAt, saying, callbacks, isHealthy,
                   consecutiveFailures, checksDone, reset, muddled>>

\* The next callback is called; the list is walked by index, as it is now.
Tell(w) ==
    /\ w \in Telling \ cancelled
    /\ position[w] <= Len(callbacks)
    /\ told' = [told EXCEPT ![callbacks[position[w]]] = saying[w]]
    /\ position' = [position EXCEPT ![w] = @ + 1]
    /\ UNCHANGED <<isRunning, checkTask, loops, cancelled, checkAt, saying, callbacks, isHealthy,
                   consecutiveFailures, checksDone, reset, muddled>>

AllTold(w) ==
    /\ w \in Telling \ cancelled
    /\ position[w] > Len(callbacks)
    /\ checkAt' = [checkAt EXCEPT ![w] = After(w)]
    /\ saying' = [saying EXCEPT ![w] = TRUE] /\ position' = [position EXCEPT ![w] = 1]
    /\ UNCHANGED <<isRunning, checkTask, loops, cancelled, callbacks, isHealthy,
                   consecutiveFailures, checksDone, told, reset, muddled>>

-----------------------------------------------------------------------------
AddCallback(b) ==
    /\ b \notin ToSet(callbacks)
    /\ callbacks' = Append(callbacks, b)
    /\ told' = [told EXCEPT ![b] = isHealthy]
    /\ muddled' = (muddled \/ Telling # {})
    /\ UNCHANGED <<isRunning, checkTask, loops, cancelled, checkAt, saying, position, isHealthy,
                   consecutiveFailures, checksDone, reset>>

RemoveCallback(b) ==
    /\ \E i \in DOMAIN callbacks : callbacks[i] = b /\ callbacks' = RemoveAt(callbacks, i)
    /\ muddled' = (muddled \/ Telling # {})
    /\ UNCHANGED <<isRunning, checkTask, loops, cancelled, checkAt, saying, position, isHealthy,
                   consecutiveFailures, checksDone, told, reset>>

\* The health is not reset with the metrics.
ResetMetrics ==
    /\ checksDone > 0 /\ ~reset
    /\ consecutiveFailures' = 0 /\ reset' = TRUE
    /\ UNCHANGED <<isRunning, checkTask, loops, cancelled, checkAt, saying, position, callbacks,
                   isHealthy, checksDone, told, muddled>>

HealthStep(w) == CheckSucceeds(w) \/ CheckFails(w) \/ Tell(w) \/ AllTold(w)

HealthNext ==
    \/ StartMonitoring \/ StopMonitoring \/ ResetMetrics
    \/ \E l \in LoopIds : LoopBreaks(l) \/ LoopWakes(l)
    \/ \E a \in Askers : ForceCheck(a)
    \/ \E w \in Checking : HealthStep(w)
    \/ \E b \in Callbacks : AddCallback(b) \/ RemoveCallback(b)

HealthSpec == HealthInit /\ [][HealthNext]_hcVars

\* Queries have a time-out, callbacks return, and a cancelled task is resumed.
HealthFairness ==
    /\ \A w \in Checking : WF_hcVars(HealthStep(w))
    /\ \A l \in LoopIds : WF_hcVars(LoopBreaks(l))

-----------------------------------------------------------------------------
(* Properties *)

\* The shape of the state.
HealthTypeOK ==
    /\ {isRunning, isHealthy, reset, muddled} \subseteq BOOLEAN
    /\ loops \in 0 .. MaxLoops /\ cancelled \subseteq 1 .. loops
    /\ checkTask \in (1 .. loops) \cup {NoLoop}
    /\ checkAt \in [Checking -> {"idle", "query", "telling", "sleep", "ended"}]
    /\ ToSet(callbacks) \subseteq Callbacks /\ consecutiveFailures <= checksDone

\* However start() and stop() follow each other, also before a cancelled loop has ended,
\* one loop checks while the checker runs, and none when it does not.
OneLoop ==
    LET alive == {l \in LoopIds : checkAt[l] \notin {"idle", "ended"}} \ cancelled
    IN alive = IF isRunning THEN {checkTask} ELSE {}

\* The database counts as unhealthy exactly while the last checks, scheduled or explicit,
\* in the order they ended, were as many failures as the threshold; only a reset of the
\* metrics forgets failures without making it healthy.
HealthFollowsChecks ==
    /\ ~reset => (isHealthy <=> consecutiveFailures < FailureThreshold)
    /\ consecutiveFailures >= FailureThreshold => ~isHealthy

\* When nobody is calling callbacks, each has been told the health as it is, unless the
\* calls for two changes ever overlapped, or were cut short by stop(), or callbacks came
\* or went meanwhile.
ToldTheTruth ==
    Telling = {} /\ ~muddled => \A b \in ToSet(callbacks) : told[b] = isHealthy

\* stop() gets to an end: the loop it waits for does.
StoppedLoopsEnd == \A l \in LoopIds : l \in cancelled ~> checkAt[l] = "ended"

\* One loop, a health that follows the checks, and callbacks that were told of it.
HealthInv == HealthTypeOK /\ OneLoop /\ HealthFollowsChecks /\ ToldTheTruth

=============================================================================
