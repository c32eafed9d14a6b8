-------------------------- MODULE DiscoveryScheduler --------------------------
(***************************************************************************)
(* The job scheduler of discovery/scheduling.py: a priority queue of       *)
(* discovery jobs, a loop that adds the periodic job, a pool of worker     *)
(* tasks, and start() and stop(), which other tasks call.                  *)
(*                                                                         *)
(* Everything runs on one asyncio event loop, so an action is the code     *)
(* between two points where a task can really suspend.  The queue is       *)
(* unbounded and nothing suspends while _job_lock is held, so neither put  *)
(* nor the lock is such a point; waiting on an empty queue, publishing an  *)
(* event, running the discovery and the two awaits of stop() are.          *)
(***************************************************************************)
EXTENDS Integers, FiniteSets

CONSTANTS
    Jobs,           \* the job objects clients create
    PeriodicJobs,   \* those the scheduler loop creates ({}: config.enabled is False)
    Priority,       \* the JobPriority of each job, LOW = 1 .. CRITICAL = 4
    Workers,        \* identities for worker tasks, live or dead
    MaxConcurrent,  \* config.max_concurrent_jobs
    Operators,      \* the tasks that call start() and stop()
    Delays,         \* how far ahead clients schedule their jobs
    InitialDelay,   \* config.initial_delay_seconds
    RetryDelay,     \* retry_delay_seconds of a job
    MaxRetries,     \* max_retries of a job
    MaxTime,        \* bound: the clock stops here
    MaxSchedules,   \* bound: calls of schedule_job
    MaxStarts,      \* bound: calls of start()
    NoJob           \* what an idle worker holds

Horizon == MaxTime + InitialDelay + RetryDelay + 2
Times == 0 .. Horizon
AllJobs == Jobs \cup PeriodicJobs

ASSUME JobsAssumption ==
    /\ IsFiniteSet(Jobs) /\ IsFiniteSet(PeriodicJobs)
    /\ Jobs \cap PeriodicJobs = {}
    /\ NoJob \notin AllJobs
    /\ Priority \in [AllJobs -> 1 .. 4]
ASSUME WorkersAssumption ==
    IsFiniteSet(Workers) /\ MaxConcurrent \in Nat \ {0}
ASSUME DelaysAssumption ==
    /\ Delays \subseteq 0 .. 2
    /\ InitialDelay \in Nat /\ RetryDelay \in Nat
    /\ MaxRetries \in Nat /\ MaxTime \in Nat
    /\ MaxSchedules \in Nat /\ MaxStarts \in Nat

VARIABLES
    now,          \* the clock
    status,       \* job.status, "absent" for a job not in _jobs
    due,          \* job.scheduled_time
    retries,      \* job.retry_count
    queue,        \* _job_queue: how many entries each (job, scheduled time) has
    runningJobs,  \* _running_jobs
    stats,        \* _stats
    running,      \* _running
    starts,       \* calls of start() so far
    pc,           \* where each worker task is suspended
    job,          \* the job each worker task is processing
    opPc          \* where each caller of stop() is suspended

jobVars == <<status, due, retries>>
workerVars == <<pc, job>>
opVars == <<running, starts, opPc>>
vars == <<now, jobVars, queue, runningJobs, stats, opVars, workerVars>>

Waiting == {"pending", "scheduled"}
Status == {"absent", "pending", "scheduled", "running", "completed", "failed", "cancelled"}
WorkerPc == {"exited", "idle", "started", "discovering", "completed", "failed"}
Executing == {"started", "discovering"}
Busy == Executing \cup {"completed", "failed"}
OpPc == {"ready", "awaitScheduler", "awaitWorkers"}

\* Mutant of IsDue: the status is not looked at.
IsDueAnyStatus(j) == status[j] # "absent" /\ now >= due[j]
IsDue(j) == status[j] \in Waiting /\ now >= due[j]
\* Mutant of CanRetry: one attempt too many.
CanRetryOnceMore(j) == status[j] = "failed" /\ retries[j] <= MaxRetries
CanRetry(j) == status[j] = "failed" /\ retries[j] < MaxRetries

\* The entry a get() returns: the queue orders entries by (priority.value,
\* scheduled_time) and then by job_id, a random UUID, so ties fall either way.
IsHead(j, t) ==
    /\ queue[j][t] > 0
    /\ \A k \in AllJobs, u \in Times :
          queue[k][u] > 0 => \/ Priority[j] < Priority[k]
                             \/ Priority[j] = Priority[k] /\ t <= u

Put(j, t) == queue' = [queue EXCEPT ![j][t] = @ + 1]
Get(j, t) == IsHead(j, t) /\ queue' = [queue EXCEPT ![j][t] = @ - 1]

Init ==
    /\ now = 0
    /\ status = [j \in AllJobs |-> "absent"]
    /\ due = [j \in AllJobs |-> 0]
    /\ retries = [j \in AllJobs |-> 0]
    /\ queue = [j \in AllJobs |-> [t \in Times |-> 0]]
    /\ runningJobs = {}
    /\ stats = [scheduled |-> 0, completed |-> 0, failed |-> 0, cancelled |-> 0]
    /\ running = FALSE
    /\ starts = 0
    /\ pc = [w \in Workers |-> "exited"]
    /\ job = [w \in Workers |-> NoJob]
    /\ opPc = [o \in Operators |-> "ready"]

Tick ==
    /\ now < MaxTime
    /\ now' = now + 1
    /\ UNCHANGED <<jobVars, queue, runningJobs, stats, opVars, workerVars>>

-----------------------------------------------------------------------------
(* The public operations *)

\* schedule_job with a job the scheduler has not seen, for time t.
AddJob(j, t) ==
    /\ status[j] = "absent"
    /\ status' = [status EXCEPT ![j] = "pending"]
    /\ due' = [due EXCEPT ![j] = t]
    /\ Put(j, t)
    /\ stats' = [stats EXCEPT !.scheduled = @ + 1]
    /\ UNCHANGED <<now, retries, runningJobs, opVars, workerVars>>

ScheduleJob(j) ==
    /\ stats.scheduled < MaxSchedules
    /\ \E d \in Delays : AddJob(j, now + d)

\* Mutant of RescheduleJob: the job starts over, whatever its status.
RescheduleJobResets(j) ==
    /\ stats.scheduled < MaxSchedules
    /\ status[j] # "absent"
    /\ status' = [status EXCEPT ![j] = "pending"]
    /\ Put(j, due[j])
    /\ stats' = [stats EXCEPT !.scheduled = @ + 1]
    /\ UNCHANGED <<now, due, retries, runningJobs, opVars, workerVars>>

\* schedule_job with a job object that is registered already, whatever has
\* become of it: the queue gets one more entry for it.
RescheduleJob(j) ==
    /\ stats.scheduled < MaxSchedules
    /\ status[j] # "absent"
    /\ Put(j, due[j])
    /\ stats' = [stats EXCEPT !.scheduled = @ + 1]
    /\ UNCHANGED <<now, jobVars, runningJobs, opVars, workerVars>>

\* Mutant of CancelJob: any job may be cancelled.
CancelJobAnyStatus(j) ==
    /\ status[j] \notin {"absent", "cancelled"}
    /\ status' = [status EXCEPT ![j] = "cancelled"]
    /\ stats' = [stats EXCEPT !.cancelled = @ + 1]
    /\ UNCHANGED <<now, due, retries, queue, runningJobs, opVars, workerVars>>

\* The entry of a cancelled job stays in the queue.
CancelJob(j) ==
    /\ status[j] \in Waiting
    /\ status' = [status EXCEPT ![j] = "cancelled"]
    /\ stats' = [stats EXCEPT !.cancelled = @ + 1]
    /\ UNCHANGED <<now, due, retries, queue, runningJobs, opVars, workerVars>>

\* Worker tasks are appended to _worker_tasks, which still lists the workers
\* of earlier starts.
Start(o) ==
    /\ opPc[o] = "ready"
    /\ ~running
    /\ starts < MaxStarts
    /\ \E new \in SUBSET {w \in Workers : pc[w] = "exited"} :
          /\ Cardinality(new) = MaxConcurrent
          /\ pc' = [w \in Workers |-> IF w \in new THEN "idle" ELSE pc[w]]
    /\ running' = TRUE
    /\ starts' = starts + 1
    /\ UNCHANGED <<now, jobVars, queue, runningJobs, stats, job, opPc>>

\* stop() up to its first await: the scheduler loop, suspended in its sleep,
\* is cancelled and runs no more.
StopBegin(o) ==
    /\ opPc[o] = "ready"
    /\ running
    /\ running' = FALSE
    /\ opPc' = [opPc EXCEPT ![o] = "awaitScheduler"]
    /\ UNCHANGED <<now, jobVars, queue, runningJobs, stats, starts, workerVars>>

\* stop() between its awaits: every task of _worker_tasks is cancelled.  A
\* cancelled worker changes nothing before it ends, so it ends here.
StopWorkers(o) ==
    /\ opPc[o] = "awaitScheduler"
    /\ pc' = [w \in Workers |-> "exited"]
    /\ job' = [w \in Workers |-> NoJob]
    /\ opPc' = [opPc EXCEPT ![o] = "awaitWorkers"]
    /\ UNCHANGED <<now, jobVars, queue, runningJobs, stats, running, starts>>

\* stop() after the gather: the jobs of _running_jobs are cancelled, and stay in it.
StopFinish(o) ==
    /\ opPc[o] = "awaitWorkers"
    /\ status' = [j \in AllJobs |-> IF j \in runningJobs THEN "cancelled" ELSE status[j]]
    /\ stats' = [stats EXCEPT !.cancelled = @ + Cardinality(runningJobs)]
    /\ opPc' = [opPc EXCEPT ![o] = "ready"]
    /\ UNCHANGED <<now, due, retries, queue, runningJobs, running, starts, workerVars>>

-----------------------------------------------------------------------------
(* The scheduler loop: it is alive exactly while running is TRUE *)

SchedulePeriodic(j) ==
    /\ running
    /\ \A k \in PeriodicJobs : status[k] \notin Waiting
    /\ AddJob(j, now + InitialDelay)

-----------------------------------------------------------------------------
(* A worker task *)

\* Back at the loop condition.
Resume(w) ==
    /\ pc' = [pc EXCEPT ![w] = IF running THEN "idle" ELSE "exited"]
    /\ job' = [job EXCEPT ![w] = NoJob]

\* get() times out and the loop condition is false.
Leave(w) ==
    /\ pc[w] = "idle"
    /\ ~running
    /\ Resume(w)
    /\ UNCHANGED <<now, jobVars, queue, runningJobs, stats, opVars>>

\* get() returns a job that is due.
Claim(w, j) ==
    /\ pc[w] = "idle"
    /\ \E t \in Times : Get(j, t)
    /\ IsDue(j)
    /\ status' = [status EXCEPT ![j] = "running"]
    /\ runningJobs' = runningJobs \cup {j}
    /\ pc' = [pc EXCEPT ![w] = "started"]
    /\ job' = [job EXCEPT ![w] = j]
    /\ UNCHANGED <<now, due, retries, stats, opVars>>

\* get() returns an entry whose job is not due: the entry is gone.
Drop(w, j) ==
    /\ pc[w] = "idle"
    /\ \E t \in Times : Get(j, t)
    /\ ~IsDue(j)
    /\ Resume(w)
    /\ UNCHANGED <<now, jobVars, runningJobs, stats, opVars>>

\* The started event is delivered; the discovery begins.
Discover(w) ==
    /\ pc[w] = "started"
    /\ pc' = [pc EXCEPT ![w] = "discovering"]
    /\ UNCHANGED <<now, jobVars, queue, runningJobs, stats, opVars, job>>

\* discover_all returns within the timeout.
Complete(w) ==
    /\ pc[w] = "discovering"
    /\ status' = [status EXCEPT ![job[w]] = "completed"]
    /\ runningJobs' = runningJobs \ {job[w]}
    /\ stats' = [stats EXCEPT !.completed = @ + 1]
    /\ pc' = [pc EXCEPT ![w] = "completed"]
    /\ UNCHANGED <<now, due, retries, queue, opVars, job>>

\* It raises or runs out of time.
Fail(w) ==
    /\ pc[w] = "discovering"
    /\ status' = [status EXCEPT ![job[w]] = "failed"]
    /\ runningJobs' = runningJobs \ {job[w]}
    /\ stats' = [stats EXCEPT !.failed = @ + 1]
    /\ pc' = [pc EXCEPT ![w] = "failed"]
    /\ UNCHANGED <<now, due, retries, queue, opVars, job>>

\* The completed event is delivered.
Finish(w) ==
    /\ pc[w] = "completed"
    /\ Resume(w)
    /\ UNCHANGED <<now, jobVars, queue, runningJobs, stats, opVars>>

\* Mutant of Retry: the job is not put back on the queue.
RetryWithoutPut(w) ==
    /\ pc[w] = "failed"
    /\ CanRetry(job[w])
    /\ status' = [status EXCEPT ![job[w]] = "scheduled"]
    /\ retries' = [retries EXCEPT ![job[w]] = @ + 1]
    /\ due' = [due EXCEPT ![job[w]] = now + RetryDelay]
    /\ Resume(w)
    /\ UNCHANGED <<now, queue, runningJobs, stats, opVars>>

\* The error event is delivered, and the job may be tried again.
Retry(w) ==
    /\ pc[w] = "failed"
    /\ CanRetry(job[w])
    /\ status' = [status EXCEPT ![job[w]] = "scheduled"]
    /\ retries' = [retries EXCEPT ![job[w]] = @ + 1]
    /\ due' = [due EXCEPT ![job[w]] = now + RetryDelay]
    /\ Put(job[w], now + RetryDelay)
    /\ Resume(w)
    /\ UNCHANGED <<now, runningJobs, stats, opVars>>

GiveUp(w) ==
    /\ pc[w] = "failed"
    /\ ~CanRetry(job[w])
    /\ Resume(w)
    /\ UNCHANGED <<now, jobVars, queue, runningJobs, stats, opVars>>

-----------------------------------------------------------------------------
Client(j) == ScheduleJob(j) \/ RescheduleJob(j)

Stop(o) == StopWorkers(o) \/ StopFinish(o)

Worker(w) ==
    \/ Leave(w)
    \/ \E j \in AllJobs : Claim(w, j) \/ Drop(w, j)
    \/ Discover(w)
    \/ Complete(w)
    \/ Fail(w)
    \/ Finish(w)
    \/ Retry(w)
    \/ GiveUp(w)

Next ==
    \/ Tick
    \/ \E j \in Jobs : Client(j)
    \/ \E j \in AllJobs : CancelJob(j)
    \/ \E j \in PeriodicJobs : SchedulePeriodic(j)
    \/ \E o \in Operators : Start(o) \/ StopBegin(o) \/ Stop(o)
    \/ \E w \in Workers : Worker(w)

Spec == Init /\ [][Next]_vars

\* The event loop runs every ready task: a worker goes on (get() and wait_for
\* have timeouts, event handlers return), and so does a stop() under way, and
\* the clock.  Nothing forces a client or an operator to call.
FairSpec ==
    /\ Spec
    /\ WF_now(Tick)
    /\ \A w \in Workers : WF_vars(Worker(w))
    /\ \A o \in Operators : WF_vars(Stop(o))

-----------------------------------------------------------------------------
(* Properties *)

\* Every variable has the shape the code gives it; retry_count never passes
\* max_retries, and a worker holds a job exactly while it processes one.
TypeOK ==
    /\ now \in 0 .. MaxTime
    /\ status \in [AllJobs -> Status]
    /\ due \in [AllJobs -> Times]
    /\ retries \in [AllJobs -> 0 .. MaxRetries]
    /\ queue \in [AllJobs -> [Times -> Nat]]
    /\ runningJobs \subseteq AllJobs
    /\ stats \in [scheduled : Nat, completed : Nat, failed : Nat, cancelled : Nat]
    /\ running \in BOOLEAN
    /\ starts \in 0 .. MaxStarts
    /\ pc \in [Workers -> WorkerPc]
    /\ job \in [Workers -> AllJobs \cup {NoJob}]
    /\ \A w \in Workers : job[w] \in AllJobs <=> pc[w] \in Busy
    /\ opPc \in [Operators -> OpPc]

\* However often a job is in the queue (scheduled twice, retried), two workers
\* never run it at once: _process_job claims it in the step that looks at it.
OneWorkerPerJob ==
    \A v, w \in Workers :
        pc[v] \in Executing /\ pc[w] \in Executing /\ job[v] = job[w] => v = w

\* A job is RUNNING only while a worker runs it or a stop() is about to cancel
\* it: no cancellation of a worker leaves a job RUNNING for ever.
NoOrphanRunning ==
    \A j \in AllJobs : status[j] = "running" =>
        \/ \E w \in Workers : pc[w] \in Executing /\ job[w] = j
        \/ \E o \in Operators : opPc[o] = "awaitWorkers"

\* How _running_jobs, the job statuses and the workers hang together, which the
\* two properties above rest on: a job in _running_jobs is RUNNING or was
\* cancelled by a stop(), every executing worker's job is in it, and a job whose
\* failure is being published is FAILED and is left alone by everyone else.
JobsInv ==
    /\ \A j \in runningJobs : status[j] \in {"running", "cancelled"}
    /\ \A j \in AllJobs : status[j] = "running" => j \in runningJobs
    /\ \A w \in Workers : pc[w] \in Executing => job[w] \in runningJobs
    /\ \A w \in Workers : pc[w] = "failed" => status[job[w]] = "failed"
    /\ \A v, w \in Workers :
          pc[v] = "failed" /\ pc[w] = "failed" /\ job[v] = job[w] => v = w
    /\ OneWorkerPerJob
    /\ NoOrphanRunning

\* get_statistics() agrees with the jobs: jobs_completed counts the COMPLETED
\* jobs, and jobs_failed counts the failures that were retried and those that
\* were not, across stops, restarts and cancellations.
StatsMatchJobs ==
    /\ stats.completed = Cardinality({j \in AllJobs : status[j] = "completed"})
    /\ stats.failed = Cardinality({j \in AllJobs : status[j] = "failed"})
                         + Cardinality({r \in AllJobs \X (1 .. MaxRetries) : r[2] <= retries[r[1]]})

\* When no stop() is under way, a running scheduler has all its workers and a
\* stopped one has none, whatever they were doing when it was stopped.
WorkersMatchState ==
    (\A o \in Operators : opPc[o] = "ready") =>
        Cardinality({w \in Workers : pc[w] # "exited"}) = IF running THEN MaxConcurrent ELSE 0

\* A job that still waits to run has an entry in the queue.
WaitingJobsAreQueued ==
    \A j \in AllJobs : status[j] \in Waiting => \E t \in Times : queue[j][t] > 0

\* COMPLETED is final, even when start() and stop() overlap.
CompletedIsFinal ==
    [][\A j \in AllJobs : status[j] = "completed" => status'[j] = "completed"]_vars

\* While the scheduler stays up, a job that waits is run to an end.
JobsFinish ==
    \A j \in AllJobs :
        status[j] \in Waiting ~>
            (status[j] \in {"completed", "failed", "cancelled"} \/ ~running)

\* While the scheduler stays up it has all its workers, and every job that waits is served.
JobsServed == JobsFinish /\ []WorkersMatchState

\* A job is under way from its claim until the events of its end are delivered.
Phase(j) ==
    IF status[j] = "running" \/ \E w \in Workers : pc[w] = "failed" /\ job[w] = j THEN "underWay"
    ELSE IF status[j] \in Waiting THEN "waiting" ELSE status[j]

Lifecycle == INSTANCE JobLifecycle WITH phase <- [j \in AllJobs |-> Phase(j)], attempts <- retries

\* The scheduler implements the life of a job: whatever stale entries, retries and stops
\* there are, jobs begin only while a place is free, are tried no more often than
\* configured, and those completed, cancelled or given up never move again.
ImplementsLifecycle == Lifecycle!Spec

\* What the documentation says: a failed job with attempts left is executed
\* again, unless the scheduler is stopped.
FailedJobsAreRetried ==
    \A j \in AllJobs :
        (status[j] = "scheduled" /\ due[j] <= MaxTime) ~>
            (status[j] \notin Waiting \/ ~running)

=============================================================================
