----------------------- MODULE DiscoverySchedulerProofs -----------------------
(***************************************************************************)
(* Theorems about DiscoveryScheduler, for any jobs, priorities, workers,   *)
(* delays and bounds, and any number of tasks calling start() and stop().  *)
(***************************************************************************)
EXTENDS DiscoveryScheduler, FiniteSetTheorems, TLAPS

USE JobsAssumption, WorkersAssumption, DelaysAssumption

\* There are finitely many jobs, which the counters need.
LEMMA FiniteJobs == IsFiniteSet(AllJobs)
  BY FS_Union DEF AllJobs

\* The shape of the queue survives a put and a get.
LEMMA QueueType ==
  ASSUME queue \in [AllJobs -> [Times -> Nat]], NEW j \in AllJobs, NEW t \in Times
  PROVE  /\ Put(j, t) => queue' \in [AllJobs -> [Times -> Nat]]
         /\ Get(j, t) => queue' \in [AllJobs -> [Times -> Nat]]
  <1>1. queue[j] \in [Times -> Nat] /\ queue[j][t] \in Nat
    OBVIOUS
  <1>2. CASE Put(j, t)
    BY <1>1, <1>2 DEF Put
  <1>3. CASE Get(j, t)
    <2>1. queue[j][t] - 1 \in Nat
      BY <1>1, <1>3 DEF Get, IsHead
    <2> QED
      BY <1>1, <1>3, <2>1 DEF Get
  <1> QED
    BY <1>2, <1>3

\* Every time the code computes lies in Times.
LEMMA TimesType ==
  ASSUME now \in 0 .. MaxTime
  PROVE  /\ \A d \in Delays : now + d \in Times
         /\ now + InitialDelay \in Times
         /\ now + RetryDelay \in Times
  <1>1. \A d \in Delays : d \in 0 .. 2
    OBVIOUS
  <1> QED
    BY <1>1 DEF Times, Horizon

\* A new scheduler has empty, well-typed state.
LEMMA TypeInit == Init => TypeOK
  <1> SUFFICES ASSUME Init PROVE TypeOK
    OBVIOUS
  <1>1. 0 \in Times /\ NoJob \notin AllJobs
    BY DEF Times, Horizon
  <1>2. queue \in [AllJobs -> [Times -> Nat]]
    BY DEF Init
  <1>3. stats \in [scheduled : Nat, completed : Nat, failed : Nat, cancelled : Nat]
    BY DEF Init
  <1>4. /\ pc \in [Workers -> WorkerPc]
        /\ job \in [Workers -> AllJobs \cup {NoJob}]
        /\ \A w \in Workers : job[w] \in AllJobs <=> pc[w] \in Busy
    BY <1>1 DEF Init, WorkerPc, Busy, Executing
  <1>5. /\ status \in [AllJobs -> Status]
        /\ due \in [AllJobs -> Times]
        /\ retries \in [AllJobs -> 0 .. MaxRetries]
        /\ opPc \in [Operators -> OpPc]
    BY <1>1 DEF Init, Status, OpPc
  <1>6. now \in 0 .. MaxTime /\ starts \in 0 .. MaxStarts
    BY DEF Init
  <1>7. running \in BOOLEAN /\ runningJobs \subseteq AllJobs
    BY DEF Init
  <1> QED
    BY <1>2, <1>3, <1>4, <1>5, <1>6, <1>7 DEF TypeOK

\* Every operation, loop iteration and worker step keeps the types.
LEMMA TypeNext == TypeOK /\ [Next]_vars => TypeOK'
  <1> SUFFICES ASSUME TypeOK, [Next]_vars PROVE TypeOK'
    OBVIOUS
  <1> USE DEF TypeOK, jobVars, workerVars, opVars
  <1>1. CASE Tick
    BY <1>1 DEF Tick
  <1>2. ASSUME NEW j \in AllJobs, NEW t \in Times, AddJob(j, t) PROVE TypeOK'
    <2>1. queue' \in [AllJobs -> [Times -> Nat]]
      BY <1>2, QueueType DEF AddJob
    <2>2. stats' \in [scheduled : Nat, completed : Nat, failed : Nat, cancelled : Nat]
      BY <1>2 DEF AddJob
    <2>3. status' \in [AllJobs -> Status] /\ due' \in [AllJobs -> Times]
      BY <1>2 DEF AddJob, Status
    <2> QED
      BY <1>2, <2>1, <2>2, <2>3 DEF AddJob
  <1>3. ASSUME NEW j \in Jobs, ScheduleJob(j) PROVE TypeOK'
    BY <1>2, <1>3, TimesType DEF ScheduleJob, AllJobs
  <1>4. ASSUME NEW j \in Jobs, RescheduleJob(j) PROVE TypeOK'
    <2>1. j \in AllJobs /\ due[j] \in Times
      BY <1>4 DEF AllJobs
    <2> QED
      <3>1. queue' \in [AllJobs -> [Times -> Nat]]
        BY <1>4, <2>1, QueueType DEF RescheduleJob
      <3>2. stats' \in [scheduled : Nat, completed : Nat, failed : Nat, cancelled : Nat]
        BY <1>4 DEF RescheduleJob
      <3> QED
        BY <1>4, <3>1, <3>2 DEF RescheduleJob
  <1>5. ASSUME NEW j \in AllJobs, CancelJob(j) PROVE TypeOK'
    BY <1>5 DEF CancelJob, Status
  <1>6. ASSUME NEW j \in PeriodicJobs, SchedulePeriodic(j) PROVE TypeOK'
    BY <1>2, <1>6, TimesType DEF SchedulePeriodic, AllJobs
  <1>7. ASSUME NEW o \in Operators, Start(o) PROVE TypeOK'
    BY <1>7 DEF Start, WorkerPc, Busy, Executing
  <1>8. ASSUME NEW o \in Operators, StopBegin(o) PROVE TypeOK'
    BY <1>8 DEF StopBegin, OpPc
  <1>9. ASSUME NEW o \in Operators, StopWorkers(o) PROVE TypeOK'
    BY <1>9 DEF StopWorkers, OpPc, WorkerPc, Busy, Executing
  <1>10. ASSUME NEW o \in Operators, StopFinish(o) PROVE TypeOK'
    <2>1. Cardinality(runningJobs) \in Nat
      BY FiniteJobs, FS_Subset, FS_CardinalityType
    <2> QED
      BY <1>10, <2>1 DEF StopFinish, OpPc, Status
  <1>11. ASSUME NEW w \in Workers, Resume(w) PROVE
           /\ pc' \in [Workers -> WorkerPc]
           /\ job' \in [Workers -> AllJobs \cup {NoJob}]
           /\ \A v \in Workers : job'[v] \in AllJobs <=> pc'[v] \in Busy
    BY <1>11 DEF Resume, WorkerPc, Busy, Executing
  <1>12. ASSUME NEW w \in Workers, Worker(w) PROVE TypeOK'
    <2>1. CASE Leave(w)
      BY <1>11, <2>1 DEF Leave
    <2>2. ASSUME NEW j \in AllJobs, Claim(w, j) PROVE TypeOK'
      BY <2>2, QueueType DEF Claim, Status, WorkerPc, Busy, Executing
    <2>3. ASSUME NEW j \in AllJobs, Drop(w, j) PROVE TypeOK'
      BY <1>11, <2>3, QueueType DEF Drop
    <2>4. CASE Discover(w)
      BY <2>4 DEF Discover, WorkerPc, Busy, Executing
    <2>5. CASE Complete(w)
      <3>1. stats' \in [scheduled : Nat, completed : Nat, failed : Nat, cancelled : Nat]
        BY <2>5 DEF Complete
      <3> QED
        BY <2>5, <3>1 DEF Complete, WorkerPc, Busy, Executing, Status
    <2>6. CASE Fail(w)
      BY <2>6, SMTT(20) DEF Fail, WorkerPc, Busy, Executing, Status
    <2>7. CASE Finish(w)
      BY <1>11, <2>7 DEF Finish
    <2>8. CASE Retry(w)
      <3>1. job[w] \in AllJobs /\ now + RetryDelay \in Times
        BY <2>8, TimesType DEF Retry, Busy
      <3>2. retries[job[w]] + 1 \in 0 .. MaxRetries
        BY <2>8, <3>1 DEF Retry, CanRetry
      <3> QED
        BY <1>11, <2>8, <3>1, <3>2, QueueType DEF Retry, Status
    <2>9. CASE GiveUp(w)
      BY <1>11, <2>9 DEF GiveUp
    <2> QED
      BY <1>12, <2>1, <2>2, <2>3, <2>4, <2>5, <2>6, <2>7, <2>8, <2>9 DEF Worker
  <1>13. CASE UNCHANGED vars
    BY <1>13 DEF vars
  <1> QED
    BY <1>1, <1>3, <1>4, <1>5, <1>6, <1>7, <1>8, <1>9, <1>10, <1>12, <1>13
    DEF Next, Client, Stop

\* Type correctness: in particular no job is retried more than max_retries times.
THEOREM TypeCorrect == Spec => []TypeOK
  <1> QED
    BY TypeInit, TypeNext, PTL DEF Spec

-----------------------------------------------------------------------------
(* Who runs what *)

\* The workers' side of a step that touches no worker and no running job.
LEMMA JobsFrame ==
  ASSUME TypeOK, JobsInv,
         UNCHANGED <<runningJobs, workerVars>>,
         \A j \in AllJobs : status'[j] # status[j] =>
             status[j] \in {"absent", "pending", "scheduled"} /\ status'[j] # "running",
         \A o \in Operators : opPc[o] = "awaitWorkers" => opPc'[o] = "awaitWorkers"
  PROVE  JobsInv'
  <1> USE DEF workerVars
  <1>1. \A w \in Workers : pc[w] = "failed" => job[w] \in AllJobs
    BY DEF TypeOK, Busy
  <1>2. OneWorkerPerJob'
    BY DEF JobsInv, OneWorkerPerJob
  <1>3. NoOrphanRunning'
    BY DEF JobsInv, NoOrphanRunning
  <1> QED
    BY <1>1, <1>2, <1>3 DEF JobsInv, TypeOK

\* At first nothing runs.
LEMMA JobsInit == Init => JobsInv
  BY DEF Init, JobsInv, OneWorkerPerJob, NoOrphanRunning, Executing

\* A worker that goes back to its loop lets go of a job it no longer executes.
LEMMA JobsResume ==
  ASSUME TypeOK, JobsInv, NEW w \in Workers, pc[w] \notin Executing, Resume(w),
         UNCHANGED <<status, runningJobs, opPc>>
  PROVE  JobsInv'
  <1>1. pc' \in [Workers -> WorkerPc] /\ pc'[w] \in {"idle", "exited"}
    BY DEF TypeOK, Resume, WorkerPc
  <1>2. \A v \in Workers \ {w} : pc'[v] = pc[v] /\ job'[v] = job[v]
    BY DEF TypeOK, Resume
  <1>3. OneWorkerPerJob'
    BY <1>1, <1>2 DEF JobsInv, OneWorkerPerJob, Executing
  <1>4. NoOrphanRunning'
    BY <1>1, <1>2 DEF JobsInv, NoOrphanRunning
  <1> QED
    BY <1>1, <1>2, <1>3, <1>4 DEF JobsInv, Executing

\* Every step keeps the jobs, _running_jobs and the workers in agreement.
LEMMA JobsNext == TypeOK /\ JobsInv /\ [Next]_vars => JobsInv'
  <1> SUFFICES ASSUME TypeOK, JobsInv, [Next]_vars PROVE JobsInv'
    OBVIOUS
  <1> USE DEF jobVars, workerVars, opVars
  <1>1. CASE Tick \/ UNCHANGED vars
    BY <1>1, JobsFrame DEF Tick, vars
  <1>2. ASSUME NEW j \in AllJobs, NEW t \in Times, AddJob(j, t) PROVE JobsInv'
    BY <1>2, JobsFrame DEF AddJob, TypeOK
  <1>3. ASSUME NEW j \in Jobs, Client(j) PROVE JobsInv'
    BY <1>2, <1>3, JobsFrame, TimesType DEF Client, ScheduleJob, RescheduleJob, AllJobs, TypeOK
  <1>4. ASSUME NEW j \in AllJobs, CancelJob(j) PROVE JobsInv'
    BY <1>4, JobsFrame DEF CancelJob, TypeOK, Waiting
  <1>5. ASSUME NEW j \in PeriodicJobs, SchedulePeriodic(j) PROVE JobsInv'
    BY <1>2, <1>5, TimesType DEF SchedulePeriodic, AllJobs, TypeOK
  <1>6. ASSUME NEW o \in Operators, Start(o) PROVE JobsInv'
    <2>1. PICK new \in SUBSET {w \in Workers : pc[w] = "exited"} :
            pc' = [w \in Workers |-> IF w \in new THEN "idle" ELSE pc[w]]
      BY <1>6 DEF Start
    <2>2. UNCHANGED <<status, runningJobs, job, opPc>>
      BY <1>6 DEF Start
    <2>3. ASSUME NEW w \in Workers
          PROVE  pc'[w] = pc[w] \/ (pc[w] = "exited" /\ pc'[w] = "idle")
      <3>1. pc'[w] = IF w \in new THEN "idle" ELSE pc[w]
        BY <2>1
      <3>2. w \in new => pc[w] = "exited"
        BY <2>1
      <3> QED
        BY <3>1, <3>2
    <2>4. OneWorkerPerJob' /\ NoOrphanRunning'
      BY <2>2, <2>3 DEF JobsInv, OneWorkerPerJob, NoOrphanRunning, Executing
    <2> QED
      BY <2>2, <2>3, <2>4 DEF JobsInv, Executing
  <1>7. ASSUME NEW o \in Operators, StopBegin(o) PROVE JobsInv'
    BY <1>7, JobsFrame DEF StopBegin, TypeOK
  <1>8. ASSUME NEW o \in Operators, StopWorkers(o) PROVE JobsInv'
    <2>1. \A w \in Workers : pc'[w] = "exited"
      BY <1>8 DEF StopWorkers
    <2>2. opPc'[o] = "awaitWorkers"
      BY <1>8 DEF StopWorkers, TypeOK
    <2>3. OneWorkerPerJob' /\ NoOrphanRunning'
      BY <2>1, <2>2 DEF OneWorkerPerJob, NoOrphanRunning, Executing
    <2> QED
      BY <1>8, <2>1, <2>3 DEF StopWorkers, JobsInv, Executing
  <1>9. ASSUME NEW o \in Operators, StopFinish(o) PROVE JobsInv'
    <2>1. \A j \in AllJobs :
            status'[j] = IF j \in runningJobs THEN "cancelled" ELSE status[j]
      BY <1>9 DEF StopFinish, TypeOK
    <2>2. \A j \in AllJobs : status'[j] # "running"
      BY <2>1 DEF JobsInv
    <2>3. \A w \in Workers : pc[w] = "failed" => job[w] \in AllJobs \ runningJobs
      BY DEF JobsInv, TypeOK, Busy
    <2>4. OneWorkerPerJob' /\ NoOrphanRunning'
      BY <1>9, <2>2 DEF JobsInv, StopFinish, OneWorkerPerJob, NoOrphanRunning
    <2> QED
      BY <1>9, <2>1, <2>2, <2>3, <2>4 DEF StopFinish, JobsInv, TypeOK
  <1>10. ASSUME NEW w \in Workers, Worker(w) PROVE JobsInv'
    <2>1. CASE Leave(w) \/ Finish(w) \/ GiveUp(w)
      BY <2>1, JobsResume DEF Leave, Finish, GiveUp, Executing
    <2>2. ASSUME NEW j \in AllJobs, Drop(w, j) PROVE JobsInv'
      BY <2>2, JobsResume DEF Drop, Executing
    <2>3. ASSUME NEW j \in AllJobs, Claim(w, j) PROVE JobsInv'
      <3>1. /\ j \notin runningJobs
            /\ \A v \in Workers : pc[v] \in Executing \cup {"failed"} => job[v] # j
        BY <2>3 DEF Claim, IsDue, Waiting, JobsInv
      <3>2. /\ pc'[w] = "started" /\ job'[w] = j /\ pc[w] = "idle"
            /\ \A v \in Workers \ {w} : pc'[v] = pc[v] /\ job'[v] = job[v]
            /\ status'[j] = "running"
            /\ \A k \in AllJobs \ {j} : status'[k] = status[k]
            /\ runningJobs' = runningJobs \cup {j}
            /\ opPc' = opPc
        BY <2>3 DEF Claim, TypeOK
      <3>3. OneWorkerPerJob'
        BY <3>1, <3>2 DEF JobsInv, OneWorkerPerJob, Executing
      <3>4. NoOrphanRunning'
        BY <3>2 DEF JobsInv, NoOrphanRunning, Executing
      <3>5. /\ \A k \in runningJobs' : status'[k] \in {"running", "cancelled"}
            /\ \A k \in AllJobs : status'[k] = "running" => k \in runningJobs'
        BY <3>1, <3>2 DEF JobsInv, TypeOK
      <3>6. /\ \A v \in Workers : pc'[v] \in Executing => job'[v] \in runningJobs'
            /\ \A v \in Workers : pc'[v] = "failed" => job'[v] \in AllJobs
        BY <3>1, <3>2 DEF JobsInv, TypeOK, Executing, Busy
      <3>7. \A v \in Workers : pc'[v] = "failed" => status'[job'[v]] = "failed"
        BY <3>1, <3>2, <3>6 DEF JobsInv
      <3> QED
        BY <3>1, <3>2, <3>3, <3>4, <3>5, <3>6, <3>7 DEF JobsInv
    <2>4. CASE Discover(w)
      <3>1. /\ pc[w] = "started" /\ pc'[w] = "discovering" /\ job' = job
            /\ \A v \in Workers \ {w} : pc'[v] = pc[v]
            /\ UNCHANGED <<status, runningJobs, opPc>>
        BY <2>4 DEF Discover, TypeOK
      <3>2. OneWorkerPerJob' /\ NoOrphanRunning'
        BY <3>1 DEF JobsInv, OneWorkerPerJob, NoOrphanRunning, Executing
      <3> QED
        BY <3>1, <3>2 DEF JobsInv, Executing
    <2>5. CASE Complete(w) \/ Fail(w)
      <3>1. /\ pc[w] = "discovering" /\ pc'[w] \in {"completed", "failed"} /\ job' = job
            /\ \A v \in Workers \ {w} : pc'[v] = pc[v]
            /\ job[w] \in runningJobs /\ job[w] \in AllJobs
            /\ status'[job[w]] = pc'[w]
            /\ \A k \in AllJobs \ {job[w]} : status'[k] = status[k]
            /\ runningJobs' = runningJobs \ {job[w]}
            /\ opPc' = opPc
        BY <2>5 DEF Complete, Fail, TypeOK, JobsInv, Executing
      <3>2. \A v \in Workers \ {w} : pc[v] \in Executing \cup {"failed"} => job[v] # job[w]
        BY <3>1 DEF JobsInv, OneWorkerPerJob, Executing
      <3>3. OneWorkerPerJob'
        BY <3>1, <3>2 DEF JobsInv, OneWorkerPerJob, Executing
      <3>4. NoOrphanRunning'
        BY <3>1, <3>2 DEF JobsInv, NoOrphanRunning, Executing
      <3>5. /\ \A k \in runningJobs' : status'[k] \in {"running", "cancelled"}
            /\ \A k \in AllJobs : status'[k] = "running" => k \in runningJobs'
        BY <3>1, <3>2 DEF JobsInv, TypeOK
      <3>6. /\ \A v \in Workers : pc'[v] \in Executing => job'[v] \in runningJobs'
            /\ \A v \in Workers : pc'[v] = "failed" => job'[v] \in AllJobs
        BY <3>1, <3>2 DEF JobsInv, TypeOK, Executing, Busy
      <3>7. \A v \in Workers : pc'[v] = "failed" => status'[job'[v]] = "failed"
        BY <3>1, <3>2, <3>6 DEF JobsInv
      <3> QED
        BY <3>1, <3>2, <3>3, <3>4, <3>5, <3>6, <3>7 DEF JobsInv
    <2>6. CASE Retry(w)
      <3>1. /\ pc[w] = "failed" /\ pc'[w] \in {"idle", "exited"}
            /\ \A v \in Workers \ {w} : pc'[v] = pc[v] /\ job'[v] = job[v]
            /\ job[w] \in AllJobs /\ status'[job[w]] = "scheduled"
            /\ \A k \in AllJobs \ {job[w]} : status'[k] = status[k]
            /\ UNCHANGED <<runningJobs, opPc>>
        BY <2>6 DEF Retry, Resume, TypeOK, Busy
      <3>2. /\ \A v \in Workers \ {w} : pc[v] = "failed" => job[v] # job[w]
            /\ job[w] \notin runningJobs
        BY <3>1 DEF JobsInv
      <3>3. OneWorkerPerJob'
        BY <3>1 DEF JobsInv, OneWorkerPerJob, Executing
      <3>4. NoOrphanRunning'
        BY <3>1 DEF JobsInv, NoOrphanRunning, Executing
      <3>5. /\ \A k \in runningJobs' : status'[k] \in {"running", "cancelled"}
            /\ \A k \in AllJobs : status'[k] = "running" => k \in runningJobs'
        BY <3>1, <3>2 DEF JobsInv, TypeOK
      <3>6. /\ \A v \in Workers : pc'[v] \in Executing => job'[v] \in runningJobs'
            /\ \A v \in Workers : pc'[v] = "failed" => job'[v] \in AllJobs
        BY <3>1, <3>2 DEF JobsInv, TypeOK, Executing, Busy
      <3>7. \A v \in Workers : pc'[v] = "failed" => status'[job'[v]] = "failed"
        BY <3>1, <3>2, <3>6 DEF JobsInv
      <3> QED
        BY <3>1, <3>2, <3>3, <3>4, <3>5, <3>6, <3>7 DEF JobsInv
    <2> QED
      BY <1>10, <2>1, <2>2, <2>3, <2>4, <2>5, <2>6 DEF Worker
  <1> QED
    BY <1>1, <1>3, <1>4, <1>5, <1>6, <1>7, <1>8, <1>9, <1>10 DEF Next, Stop

\* The inductive invariant, and with it: two workers never run the same job, and
\* a job is RUNNING only while a worker runs it or a stop() will cancel it.
THEOREM JobsConsistent == Spec => []JobsInv
  <1>1. TypeOK /\ JobsInv /\ [Next]_vars => (TypeOK /\ JobsInv)'
    BY TypeNext, JobsNext
  <1>2. Init => TypeOK /\ JobsInv
    BY TypeInit, JobsInit
  <1> QED
    BY <1>1, <1>2, PTL DEF Spec

\* Two workers never run one job, however often it is scheduled, retried or stopped.
THEOREM MutualExclusion == Spec => []OneWorkerPerJob
  <1>1. JobsInv => OneWorkerPerJob
    BY DEF JobsInv
  <1> QED
    BY <1>1, JobsConsistent, PTL

\* No job stays RUNNING after the worker that ran it was cancelled.
THEOREM NoOrphans == Spec => []NoOrphanRunning
  <1>1. JobsInv => NoOrphanRunning
    BY DEF JobsInv
  <1> QED
    BY <1>1, JobsConsistent, PTL

-----------------------------------------------------------------------------
(* Results are final *)

\* No step takes a completed job out of COMPLETED: a worker that has a result or a
\* retry to write holds another job, and stop() cancels only jobs that still run.
LEMMA CompletedStep ==
  ASSUME TypeOK, JobsInv, [Next]_vars, NEW j \in AllJobs, status[j] = "completed"
  PROVE  status'[j] = "completed"
  <1> USE DEF jobVars, TypeOK
  <1>1. j \notin runningJobs
    BY DEF JobsInv
  <1>2. ASSUME NEW k \in AllJobs, NEW t \in Times, AddJob(k, t) PROVE status'[j] = "completed"
    BY <1>2 DEF AddJob
  <1>3. ASSUME NEW k \in Jobs, Client(k) PROVE status'[j] = "completed"
    BY <1>2, <1>3, TimesType DEF Client, ScheduleJob, RescheduleJob, AllJobs
  <1>4. ASSUME NEW k \in AllJobs, CancelJob(k) PROVE status'[j] = "completed"
    BY <1>4 DEF CancelJob, Waiting
  <1>5. ASSUME NEW k \in PeriodicJobs, SchedulePeriodic(k) PROVE status'[j] = "completed"
    BY <1>2, <1>5, TimesType DEF SchedulePeriodic, AllJobs
  <1>6. ASSUME NEW o \in Operators, StopFinish(o) PROVE status'[j] = "completed"
    BY <1>1, <1>6 DEF StopFinish
  <1>7. ASSUME NEW w \in Workers, Worker(w) PROVE status'[j] = "completed"
    <2>1. ASSUME NEW k \in AllJobs, Claim(w, k) PROVE status'[j] = "completed"
      BY <2>1 DEF Claim, IsDue, Waiting
    <2>2. CASE Complete(w) \/ Fail(w)
      <3>1. job[w] # j
        BY <1>1, <2>2 DEF JobsInv, Executing, Complete, Fail
      <3> QED
        BY <2>2, <3>1 DEF Complete, Fail
    <2>3. CASE Retry(w)
      <3>1. job[w] # j
        BY <2>3 DEF Retry, CanRetry
      <3> QED
        BY <2>3, <3>1 DEF Retry
    <2> QED
      BY <1>7, <2>1, <2>2, <2>3 DEF Worker, Leave, Drop, Discover, Finish, GiveUp
  <1>8. CASE Tick \/ UNCHANGED vars
    BY <1>8 DEF Tick, vars
  <1>9. ASSUME NEW o \in Operators, Start(o) \/ StopBegin(o) \/ StopWorkers(o)
        PROVE  status'[j] = "completed"
    BY <1>9 DEF Start, StopBegin, StopWorkers
  <1> QED
    BY <1>3, <1>4, <1>5, <1>6, <1>7, <1>8, <1>9 DEF Next, Stop

\* A completed job stays COMPLETED, however start() and stop() overlap.
THEOREM CompletedStays == Spec => CompletedIsFinal
  <1>1. TypeOK /\ JobsInv /\ [Next]_vars =>
          [\A j \in AllJobs : status[j] = "completed" => status'[j] = "completed"]_vars
    BY CompletedStep
  <1> QED
    BY <1>1, TypeCorrect, JobsConsistent, PTL DEF Spec, CompletedIsFinal

-----------------------------------------------------------------------------
(* Without delays no job is lost *)

NothingIsEarly == \A j \in AllJobs : due[j] <= now

\* A put adds its entry and keeps the others; a get touches one job's entries only.
LEMMA QueueStep ==
  ASSUME TypeOK, NEW j \in AllJobs, NEW t \in Times
  PROVE  /\ Put(j, t) =>
              /\ queue'[j][t] > 0
              /\ \A k \in AllJobs, u \in Times : queue[k][u] > 0 => queue'[k][u] > 0
         /\ Get(j, t) => \A k \in AllJobs \ {j} : queue'[k] = queue[k]
  <1> USE DEF TypeOK
  <1>1. ASSUME Put(j, t) PROVE queue'[j][t] = queue[j][t] + 1
    BY <1>1 DEF Put
  <1>2. ASSUME Put(j, t), NEW k \in AllJobs, NEW u \in Times, queue[k][u] > 0
        PROVE  queue'[k][u] > 0
    <2>1. queue'[k][u] = IF k = j /\ u = t THEN queue[k][u] + 1 ELSE queue[k][u]
      BY <1>2 DEF Put
    <2>2. queue[k][u] \in Nat
      OBVIOUS
    <2> QED
      BY <1>2, <2>1, <2>2
  <1>3. queue[j][t] \in Nat
    OBVIOUS
  <1>4. Get(j, t) => \A k \in AllJobs \ {j} : queue'[k] = queue[k]
    BY DEF Get
  <1> QED
    BY <1>1, <1>2, <1>3, <1>4

\* When clients schedule jobs for now and neither the periodic job nor retries are
\* delayed, every job that waits has an entry in the queue: workers discard the
\* entries of jobs that must not run, never of jobs that still have to.
THEOREM NoJobIsLost ==
  ASSUME Delays = {0}, InitialDelay = 0, RetryDelay = 0
  PROVE  Spec => []WaitingJobsAreQueued
  <1> DEFINE Inv == NothingIsEarly /\ WaitingJobsAreQueued
  <1>1. Init => Inv
    BY DEF Init, NothingIsEarly, WaitingJobsAreQueued, Waiting
  <1>2. TypeOK /\ Inv /\ [Next]_vars => Inv'
    <2> SUFFICES ASSUME TypeOK, Inv, [Next]_vars PROVE Inv'
      OBVIOUS
    <2> USE DEF jobVars
    <2>1. now \in Nat /\ now \in Times /\ \A j \in AllJobs : due[j] \in Nat
      BY DEF TypeOK, Times, Horizon
    <2>2. ASSUME now' \in Nat, now' >= now,
                 \A j \in AllJobs : due'[j] = due[j] \/ due'[j] = now
          PROVE  NothingIsEarly'
      BY <2>1, <2>2 DEF NothingIsEarly
    <2>3. ASSUME \A j \in AllJobs : status'[j] \in Waiting => status[j] \in Waiting,
                 UNCHANGED queue
          PROVE  WaitingJobsAreQueued'
      BY <2>3 DEF WaitingJobsAreQueued
    <2>4. ASSUME NEW j \in AllJobs, NEW t \in Times, Put(j, t),
                 \A k \in AllJobs \ {j} : status'[k] = status[k]
          PROVE  WaitingJobsAreQueued'
      BY <2>4, QueueStep DEF WaitingJobsAreQueued
    <2>5. ASSUME NEW j \in AllJobs, NEW t \in Times, Get(j, t), status'[j] \notin Waiting,
                 \A k \in AllJobs \ {j} : status'[k] = status[k]
          PROVE  WaitingJobsAreQueued'
      BY <2>5, QueueStep DEF WaitingJobsAreQueued
    <2>6. CASE Tick
      BY <2>1, <2>2, <2>3, <2>6 DEF Tick
    <2>7. ASSUME NEW j \in AllJobs, AddJob(j, now) PROVE Inv'
      <3>1. NothingIsEarly'
        BY <2>1, <2>2, <2>7 DEF AddJob, TypeOK
      <3>2. WaitingJobsAreQueued'
        BY <2>1, <2>4, <2>7 DEF AddJob, TypeOK
      <3> QED
        BY <3>1, <3>2
    <2>8. ASSUME NEW j \in Jobs, Client(j) PROVE Inv'
      <3>1. CASE ScheduleJob(j)
        <4>1. PICK d \in Delays : AddJob(j, now + d)
          BY <3>1 DEF ScheduleJob
        <4>2. now + d = now /\ j \in AllJobs
          BY <2>1 DEF AllJobs
        <4> QED
          BY <2>7, <4>1, <4>2
      <3>2. CASE RescheduleJob(j)
        <4>1. j \in AllJobs /\ due[j] \in Times
          BY DEF AllJobs, TypeOK
        <4> QED
          BY <2>1, <2>2, <2>4, <3>2, <4>1 DEF RescheduleJob
      <3> QED
        BY <2>8, <3>1, <3>2 DEF Client
    <2>9. ASSUME NEW j \in PeriodicJobs, SchedulePeriodic(j) PROVE Inv'
      <3>1. now + InitialDelay = now /\ j \in AllJobs
        BY <2>1 DEF AllJobs
      <3> QED
        BY <2>7, <2>9, <3>1 DEF SchedulePeriodic
    <2>10. ASSUME NEW j \in AllJobs, CancelJob(j) PROVE Inv'
      BY <2>1, <2>2, <2>3, <2>10 DEF CancelJob, TypeOK, Waiting
    <2>11. ASSUME NEW o \in Operators, Start(o) \/ StopBegin(o) \/ Stop(o) PROVE Inv'
      BY <2>1, <2>2, <2>3, <2>11
      DEF Start, StopBegin, Stop, StopWorkers, StopFinish, TypeOK, Waiting
    <2>12. ASSUME NEW w \in Workers, Worker(w) PROVE Inv'
      <3>1. CASE Leave(w) \/ Discover(w) \/ Finish(w) \/ GiveUp(w)
        BY <2>1, <2>2, <2>3, <3>1 DEF Leave, Discover, Finish, GiveUp
      <3>2. CASE Complete(w) \/ Fail(w)
        BY <2>1, <2>2, <2>3, <3>2 DEF Complete, Fail, TypeOK, Waiting
      <3>3. ASSUME NEW j \in AllJobs, Claim(w, j) PROVE Inv'
        <4>1. NothingIsEarly'
          BY <2>1, <2>2, <3>3 DEF Claim
        <4>2. WaitingJobsAreQueued'
          BY <2>5, <3>3 DEF Claim, TypeOK, Waiting
        <4> QED
          BY <4>1, <4>2
      <3>4. ASSUME NEW j \in AllJobs, Drop(w, j) PROVE Inv'
        <4>1. NothingIsEarly'
          BY <2>1, <2>2, <3>4 DEF Drop
        <4>2. status'[j] \notin Waiting
          BY <2>1, <3>4 DEF Drop, IsDue, NothingIsEarly
        <4>3. WaitingJobsAreQueued'
          BY <2>5, <3>4, <4>2 DEF Drop
        <4> QED
          BY <4>1, <4>3
      <3>5. CASE Retry(w)
        <4>1. job[w] \in AllJobs /\ now + RetryDelay = now
          BY <2>1, <3>5 DEF Retry, TypeOK, Busy
        <4>2. NothingIsEarly'
          BY <2>1, <2>2, <3>5, <4>1 DEF Retry, TypeOK
        <4>3. WaitingJobsAreQueued'
          BY <2>1, <2>4, <3>5, <4>1 DEF Retry, TypeOK
        <4> QED
          BY <4>2, <4>3
      <3> QED
        BY <2>12, <3>1, <3>2, <3>3, <3>4, <3>5 DEF Worker
    <2>13. CASE UNCHANGED vars
      BY <2>1, <2>2, <2>3, <2>13 DEF vars
    <2> QED
      BY <2>6, <2>8, <2>9, <2>10, <2>11, <2>12, <2>13 DEF Next
  <1>3. Inv => WaitingJobsAreQueued
    OBVIOUS
  <1> QED
    BY <1>1, <1>2, <1>3, TypeCorrect, PTL DEF Spec

-----------------------------------------------------------------------------
(* The statistics *)

CompletedJobs == {j \in AllJobs : status[j] = "completed"}
FailedJobs == {j \in AllJobs : status[j] = "failed"}
Attempts == {r \in AllJobs \X (1 .. MaxRetries) : r[2] <= retries[r[1]]}

\* What the counters are compared with is finite.
LEMMA CountedFinite ==
  /\ IsFiniteSet(CompletedJobs) /\ Cardinality(CompletedJobs) \in Nat
  /\ IsFiniteSet(FailedJobs) /\ Cardinality(FailedJobs) \in Nat
  /\ IsFiniteSet(Attempts) /\ Cardinality(Attempts) \in Nat
  <1>1. IsFiniteSet(CompletedJobs) /\ IsFiniteSet(FailedJobs)
    BY FiniteJobs, FS_Subset DEF CompletedJobs, FailedJobs
  <1>2. IsFiniteSet(AllJobs \X (1 .. MaxRetries))
    <2>1. IsFiniteSet(1 .. MaxRetries)
      BY FS_Interval
    <2> QED
      BY <2>1, FiniteJobs, FS_Product
  <1>3. Attempts \subseteq AllJobs \X (1 .. MaxRetries)
    BY DEF Attempts
  <1>4. IsFiniteSet(Attempts)
    BY <1>2, <1>3, FS_Subset
  <1> QED
    BY <1>1, <1>4, FS_CardinalityType

\* A step that neither ends an attempt nor follows one up is not counted.
LEMMA StatsFrame ==
  ASSUME StatsMatchJobs, stats'.completed = stats.completed, stats'.failed = stats.failed,
         retries' = retries,
         \A j \in AllJobs : status'[j] # status[j] =>
             {status[j], status'[j]} \cap {"completed", "failed"} = {}
  PROVE  StatsMatchJobs'
  <1>1. CompletedJobs' = CompletedJobs
    BY DEF CompletedJobs
  <1>2. FailedJobs' = FailedJobs
    BY DEF FailedJobs
  <1>3. Attempts' = Attempts
    BY DEF Attempts
  <1>4. /\ StatsMatchJobs <=> /\ stats.completed = Cardinality(CompletedJobs)
                              /\ stats.failed = Cardinality(FailedJobs) + Cardinality(Attempts)
        /\ StatsMatchJobs' <=> /\ stats'.completed = Cardinality(CompletedJobs')
                               /\ stats'.failed = Cardinality(FailedJobs') + Cardinality(Attempts')
    BY DEF StatsMatchJobs, CompletedJobs, FailedJobs, Attempts
  <1> QED
    BY <1>1, <1>2, <1>3, <1>4

\* A new scheduler has counted nothing.
LEMMA StatsInit == Init => StatsMatchJobs
  <1> SUFFICES ASSUME Init PROVE StatsMatchJobs
    OBVIOUS
  <1>1. CompletedJobs = {} /\ FailedJobs = {} /\ Attempts = {}
    BY DEF Init, CompletedJobs, FailedJobs, Attempts
  <1>2. Cardinality({}) = 0
    BY FS_EmptySet
  <1>3. stats.completed = 0 /\ stats.failed = 0
    BY DEF Init
  <1> QED
    BY <1>1, <1>2, <1>3 DEF StatsMatchJobs, CompletedJobs, FailedJobs, Attempts

\* An attempt ends: its job was in neither of the final statuses, and is now in one.
LEMMA StatsEnd ==
  ASSUME TypeOK, JobsInv, StatsMatchJobs, NEW w \in Workers, Complete(w) \/ Fail(w)
  PROVE  StatsMatchJobs'
  <1>1. PICK j \in AllJobs : j = job[w]
    BY DEF Complete, Fail, TypeOK, Busy, Executing
  <1>2. status[j] \notin {"completed", "failed"}
    BY <1>1 DEF JobsInv, Complete, Fail, Executing
  <1>3. Attempts' = Attempts
    BY DEF Attempts, Complete, Fail
  <1>4. /\ j \notin CompletedJobs /\ j \notin FailedJobs
        /\ Cardinality(CompletedJobs \cup {j}) = Cardinality(CompletedJobs) + 1
        /\ Cardinality(FailedJobs \cup {j}) = Cardinality(FailedJobs) + 1
    <2>1. j \notin CompletedJobs /\ j \notin FailedJobs
      BY <1>2 DEF CompletedJobs, FailedJobs
    <2> QED
      BY <2>1, CountedFinite, FS_AddElement
  <1>5. /\ stats.completed = Cardinality(CompletedJobs)
        /\ stats.failed = Cardinality(FailedJobs) + Cardinality(Attempts)
        /\ StatsMatchJobs' <=> /\ stats'.completed = Cardinality(CompletedJobs')
                               /\ stats'.failed = Cardinality(FailedJobs') + Cardinality(Attempts')
    BY DEF StatsMatchJobs, CompletedJobs, FailedJobs, Attempts
  <1>6. CASE Complete(w)
    <2>1. status' = [status EXCEPT ![j] = "completed"]
      BY <1>1, <1>6 DEF Complete
    <2>2. CompletedJobs' = CompletedJobs \cup {j} /\ FailedJobs' = FailedJobs
      BY <1>2, <2>1 DEF CompletedJobs, FailedJobs, TypeOK
    <2>3. stats'.completed = stats.completed + 1 /\ stats'.failed = stats.failed
      BY <1>6 DEF Complete, TypeOK
    <2> QED
      BY <1>3, <1>4, <1>5, <2>2, <2>3
  <1>7. CASE Fail(w)
    <2>1. status' = [status EXCEPT ![j] = "failed"]
      BY <1>1, <1>7 DEF Fail
    <2>2. FailedJobs' = FailedJobs \cup {j} /\ CompletedJobs' = CompletedJobs
      BY <1>2, <2>1 DEF CompletedJobs, FailedJobs, TypeOK
    <2>3. stats'.failed = stats.failed + 1 /\ stats'.completed = stats.completed
      BY <1>7 DEF Fail, TypeOK
    <2> QED
      BY <1>3, <1>4, <1>5, <2>2, <2>3, CountedFinite
  <1> QED
    BY <1>6, <1>7

\* A failed attempt that is followed up is counted with the retries instead.
LEMMA StatsRetry ==
  ASSUME TypeOK, JobsInv, StatsMatchJobs, NEW w \in Workers, Retry(w)
  PROVE  StatsMatchJobs'
  <1>1. PICK j \in AllJobs : j = job[w]
    BY DEF Retry, TypeOK, Busy
  <1>2. PICK n \in Nat : n = retries[j]
    BY DEF TypeOK
  <1>3. /\ status[j] = "failed" /\ n < MaxRetries /\ stats' = stats
        /\ status' = [status EXCEPT ![j] = "scheduled"]
        /\ retries' = [retries EXCEPT ![j] = n + 1]
    BY <1>1, <1>2 DEF Retry, CanRetry
  <1>4. CompletedJobs' = CompletedJobs /\ FailedJobs' = FailedJobs \ {j} /\ j \in FailedJobs
    BY <1>3 DEF CompletedJobs, FailedJobs, TypeOK
  <1>5. Attempts' = Attempts \cup {<<j, n + 1>>} /\ <<j, n + 1>> \notin Attempts
    <2>1. <<j, n + 1>> \notin Attempts
      BY <1>2 DEF Attempts
    <2>2. <<j, n + 1>> \in AllJobs \X (1 .. MaxRetries)
      BY <1>3
    <2>3. retries'[j] = n + 1 /\ \A k \in AllJobs \ {j} : retries'[k] = retries[k]
      BY <1>3 DEF TypeOK
    <2>4. ASSUME NEW r \in AllJobs \X (1 .. MaxRetries)
          PROVE  r \in Attempts' <=> r \in Attempts \cup {<<j, n + 1>>}
      <3>1. CASE r[1] = j
        <4>1. r = <<j, r[2]>> /\ r[2] \in Nat
          BY <3>1
        <4>2. r[2] <= n + 1 <=> r[2] <= n \/ r[2] = n + 1
          BY <4>1
        <4>3. (r \in Attempts' <=> r[2] <= n + 1) /\ (r \in Attempts <=> r[2] <= n)
          BY <1>2, <2>3, <3>1 DEF Attempts
        <4>4. r = <<j, n + 1>> <=> r[2] = n + 1
          BY <4>1
        <4> QED
          BY <4>2, <4>3, <4>4
      <3>2. CASE r[1] # j
        BY <2>3, <3>2 DEF Attempts
      <3> QED
        BY <3>1, <3>2
    <2>5. /\ Attempts' \subseteq AllJobs \X (1 .. MaxRetries)
          /\ Attempts \subseteq AllJobs \X (1 .. MaxRetries)
      BY DEF Attempts
    <2> QED
      BY <2>1, <2>2, <2>4, <2>5
  <1>6. /\ Cardinality(FailedJobs \ {j}) = Cardinality(FailedJobs) - 1
        /\ Cardinality(Attempts \cup {<<j, n + 1>>}) = Cardinality(Attempts) + 1
    BY <1>4, <1>5, CountedFinite, FS_RemoveElement, FS_AddElement
  <1>7. /\ stats.completed = Cardinality(CompletedJobs)
        /\ stats.failed = Cardinality(FailedJobs) + Cardinality(Attempts)
        /\ StatsMatchJobs' <=> /\ stats'.completed = Cardinality(CompletedJobs')
                               /\ stats'.failed = Cardinality(FailedJobs') + Cardinality(Attempts')
    BY DEF StatsMatchJobs, CompletedJobs, FailedJobs, Attempts
  <1>8. Cardinality(FailedJobs') + Cardinality(Attempts') = Cardinality(FailedJobs) + Cardinality(Attempts)
    BY <1>4, <1>5, <1>6, CountedFinite
  <1> QED
    BY <1>3, <1>4, <1>7, <1>8

\* Every step keeps the statistics in agreement with the jobs.
LEMMA StatsNext == TypeOK /\ JobsInv /\ StatsMatchJobs /\ [Next]_vars => StatsMatchJobs'
  <1> SUFFICES ASSUME TypeOK, JobsInv, StatsMatchJobs, [Next]_vars PROVE StatsMatchJobs'
    OBVIOUS
  <1> USE DEF jobVars
  <1>1. CASE Tick \/ UNCHANGED vars
    BY <1>1, StatsFrame DEF Tick, vars
  <1>2. ASSUME NEW j \in AllJobs, NEW t \in Times, AddJob(j, t) PROVE StatsMatchJobs'
    BY <1>2, StatsFrame DEF AddJob, TypeOK
  <1>3. ASSUME NEW j \in Jobs, Client(j) PROVE StatsMatchJobs'
    <2>1. CASE ScheduleJob(j)
      BY <1>2, <2>1, TimesType DEF ScheduleJob, AllJobs, TypeOK
    <2>2. CASE RescheduleJob(j)
      BY <2>2, StatsFrame DEF RescheduleJob, TypeOK
    <2> QED
      BY <1>3, <2>1, <2>2 DEF Client
  <1>4. ASSUME NEW j \in AllJobs, CancelJob(j) PROVE StatsMatchJobs'
    BY <1>4, StatsFrame DEF CancelJob, Waiting, TypeOK
  <1>5. ASSUME NEW j \in PeriodicJobs, SchedulePeriodic(j) PROVE StatsMatchJobs'
    BY <1>2, <1>5, TimesType DEF SchedulePeriodic, AllJobs, TypeOK
  <1>6. ASSUME NEW o \in Operators, Start(o) \/ StopBegin(o) \/ StopWorkers(o)
        PROVE  StatsMatchJobs'
    BY <1>6, StatsFrame DEF Start, StopBegin, StopWorkers
  <1>7. ASSUME NEW o \in Operators, StopFinish(o) PROVE StatsMatchJobs'
    <2>1. \A j \in AllJobs : status'[j] # status[j] => j \in runningJobs /\ status'[j] = "cancelled"
      BY <1>7 DEF StopFinish, TypeOK
    <2>2. \A j \in runningJobs : status[j] \in {"running", "cancelled"}
      BY DEF JobsInv
    <2>3. stats'.completed = stats.completed /\ stats'.failed = stats.failed /\ retries' = retries
      BY <1>7 DEF StopFinish, TypeOK
    <2>4. \A j \in AllJobs : status'[j] # status[j] =>
             {status[j], status'[j]} \cap {"completed", "failed"} = {}
      BY <2>1, <2>2
    <2> QED
      BY <2>3, <2>4, StatsFrame
  <1>8. ASSUME NEW w \in Workers, Worker(w) PROVE StatsMatchJobs'
    <2>1. ASSUME NEW j \in AllJobs, Claim(w, j) PROVE StatsMatchJobs'
      BY <2>1, StatsFrame DEF Claim, IsDue, Waiting, TypeOK
    <2>2. ASSUME NEW j \in AllJobs, Drop(w, j) PROVE StatsMatchJobs'
      BY <2>2, StatsFrame DEF Drop
    <2>3. CASE Leave(w) \/ Discover(w) \/ Finish(w) \/ GiveUp(w)
      BY <2>3, StatsFrame DEF Leave, Discover, Finish, GiveUp
    <2> QED
      BY <1>8, <2>1, <2>2, <2>3, StatsEnd, StatsRetry DEF Worker
  <1> QED
    BY <1>1, <1>3, <1>4, <1>5, <1>6, <1>7, <1>8 DEF Next, Stop

\* The statistics count what became of the jobs, across retries, stops and restarts.
THEOREM StatisticsAgree == Spec => []StatsMatchJobs
  BY StatsInit, StatsNext, TypeCorrect, JobsConsistent, PTL DEF Spec

-----------------------------------------------------------------------------
(* With one task that starts and stops the scheduler, the abstract life of jobs *)

Live == {w \in Workers : pc[w] # "exited"}

\* Where that task is says how many workers there are; and what a worker executes is
\* RUNNING, because jobs are cancelled only when no worker is left.
LifeInv(o) ==
    /\ opPc[o] = "ready" => IF running THEN Cardinality(Live) = MaxConcurrent ELSE Live = {}
    /\ opPc[o] = "awaitScheduler" => ~running /\ Cardinality(Live) <= MaxConcurrent
    /\ opPc[o] = "awaitWorkers" => ~running /\ Live = {}
    /\ \A w \in Workers : pc[w] \in Executing => status[job[w]] = "running"

LEMMA LiveFinite ==
  IsFiniteSet(Live) /\ Cardinality(Live) \in Nat
  BY FS_Subset, FS_CardinalityType DEF Live

\* No workers come, the task stays where it is, and they go only when the scheduler does not run.
LEMMA LifeFrame ==
  ASSUME NEW o, LifeInv(o), Live' \subseteq Live, running => Live' = Live,
         opPc'[o] = opPc[o], running' = running,
         \A w \in Workers : pc'[w] \in Executing => status'[job'[w]] = "running"
  PROVE  LifeInv(o)'
  <1>1. Cardinality(Live') <= Cardinality(Live) /\ Cardinality(Live') \in Nat
    BY LiveFinite, FS_Subset, FS_CardinalityType
  <1>2. Cardinality(Live) <= MaxConcurrent => Cardinality(Live') <= MaxConcurrent
    BY <1>1, LiveFinite
  <1>3. /\ opPc'[o] = "ready" => IF running' THEN Cardinality(Live') = MaxConcurrent ELSE Live' = {}
        /\ opPc'[o] = "awaitScheduler" => ~running' /\ Cardinality(Live') <= MaxConcurrent
        /\ opPc'[o] = "awaitWorkers" => ~running' /\ Live' = {}
    BY <1>2 DEF LifeInv
  <1> QED
    BY <1>3 DEF LifeInv

LEMMA LifeInit ==
  ASSUME NEW o \in Operators, Init
  PROVE  LifeInv(o)
  BY DEF Init, LifeInv, Live, Executing

\* A worker at the loop's condition leaves the loop only when the scheduler does not run.
LEMMA LifeResume ==
  ASSUME TypeOK, NEW o \in Operators, LifeInv(o), NEW w \in Workers, Resume(w), pc[w] # "exited",
         \A v \in Workers \ {w} : pc[v] \in Executing => status'[job[v]] = status[job[v]],
         UNCHANGED <<running, opPc>>
  PROVE  LifeInv(o)'
  <1>1. /\ pc'[w] = IF running THEN "idle" ELSE "exited"
        /\ \A v \in Workers \ {w} : pc'[v] = pc[v] /\ job'[v] = job[v]
    BY DEF Resume, TypeOK
  <1>2. Live' \subseteq Live
    BY <1>1 DEF Live
  <1>3. running => Live' = Live
    BY <1>1 DEF Live
  <1>4. \A v \in Workers : pc'[v] \in Executing => status'[job'[v]] = "running"
    BY <1>1 DEF LifeInv, Executing
  <1> QED
    BY <1>2, <1>3, <1>4, LifeFrame

\* Every step keeps it.
LEMMA LifeNext ==
  ASSUME TypeOK, JobsInv, NEW o \in Operators, Operators = {o}, LifeInv(o), [Next]_vars
  PROVE  LifeInv(o)'
  <1> USE DEF jobVars, workerVars, opVars
  <1>0. \A w \in Workers : pc[w] \in Executing => status[job[w]] = "running" /\ job[w] \in AllJobs
    BY DEF LifeInv, TypeOK, Busy
  <1>1. ASSUME UNCHANGED <<pc, job, opPc, running>>,
               \A j \in AllJobs : status'[j] # status[j] => status[j] # "running"
        PROVE  LifeInv(o)'
    <2>1. Live' = Live
      BY <1>1 DEF Live
    <2>2. \A w \in Workers : pc'[w] \in Executing => status'[job'[w]] = "running"
      BY <1>0, <1>1
    <2> QED
      BY <1>1, <2>1, <2>2, LifeFrame
  <1>2. CASE Tick \/ UNCHANGED vars
    BY <1>1, <1>2 DEF Tick, vars
  <1>3. ASSUME NEW j \in AllJobs, NEW t \in Times, AddJob(j, t) PROVE LifeInv(o)'
    BY <1>1, <1>3 DEF AddJob, TypeOK
  <1>4. ASSUME NEW j \in Jobs, Client(j) PROVE LifeInv(o)'
    BY <1>1, <1>3, <1>4, TimesType DEF Client, ScheduleJob, RescheduleJob, AllJobs, TypeOK
  <1>5. ASSUME NEW j \in AllJobs, CancelJob(j) PROVE LifeInv(o)'
    BY <1>1, <1>5 DEF CancelJob, Waiting, TypeOK
  <1>6. ASSUME NEW j \in PeriodicJobs, SchedulePeriodic(j) PROVE LifeInv(o)'
    BY <1>3, <1>6, TimesType DEF SchedulePeriodic, AllJobs, TypeOK
  <1>7. CASE Start(o)
    <2>1. PICK new \in SUBSET {w \in Workers : pc[w] = "exited"} :
            /\ Cardinality(new) = MaxConcurrent
            /\ pc' = [w \in Workers |-> IF w \in new THEN "idle" ELSE pc[w]]
      BY <1>7 DEF Start
    <2>2. Live = {} /\ running' = TRUE /\ opPc' = opPc /\ opPc[o] = "ready"
      BY <1>7 DEF Start, LifeInv
    <2>3. \A w \in Workers : pc[w] = "exited" /\ pc'[w] = IF w \in new THEN "idle" ELSE "exited"
      BY <2>1, <2>2 DEF Live
    <2>4. Live' = new
      BY <2>1, <2>3 DEF Live
    <2>5. \A w \in Workers : pc'[w] \notin Executing
      BY <2>3 DEF Executing
    <2> QED
      BY <2>1, <2>2, <2>4, <2>5 DEF LifeInv
  <1>8. CASE StopBegin(o)
    <2>1. /\ opPc[o] = "ready" /\ running /\ running' = FALSE
          /\ opPc'[o] = "awaitScheduler" /\ UNCHANGED <<pc, job, status>>
      BY <1>8 DEF StopBegin, TypeOK
    <2>2. Live' = Live /\ Cardinality(Live) = MaxConcurrent
      BY <2>1 DEF Live, LifeInv
    <2> QED
      BY <1>0, <2>1, <2>2 DEF LifeInv
  <1>9. CASE StopWorkers(o)
    <2>1. opPc[o] = "awaitScheduler" /\ opPc'[o] = "awaitWorkers" /\ running' = running
          /\ \A w \in Workers : pc'[w] = "exited"
      BY <1>9 DEF StopWorkers, TypeOK
    <2>2. Live' = {} /\ ~running
      BY <2>1 DEF Live, LifeInv
    <2> QED
      BY <2>1, <2>2 DEF LifeInv, Executing
  <1>10. CASE StopFinish(o)
    <2>1. opPc[o] = "awaitWorkers" /\ opPc'[o] = "ready" /\ UNCHANGED <<running, pc, job>>
      BY <1>10 DEF StopFinish, TypeOK
    <2>2. Live = {} /\ Live' = {} /\ ~running
      BY <2>1 DEF Live, LifeInv
    <2>3. \A w \in Workers : pc'[w] \notin Executing
      BY <2>1, <2>2 DEF Live, Executing
    <2> QED
      BY <2>1, <2>2, <2>3 DEF LifeInv
  <1>11. ASSUME NEW w \in Workers, Worker(w) PROVE LifeInv(o)'
    <2>1. CASE Leave(w) \/ Finish(w) \/ GiveUp(w)
      BY <2>1, LifeResume DEF Leave, Finish, GiveUp
    <2>2. ASSUME NEW j \in AllJobs, Drop(w, j) PROVE LifeInv(o)'
      BY <2>2, LifeResume DEF Drop
    <2>3. ASSUME UNCHANGED <<opPc, running>>, pc[w] # "exited", pc'[w] # "exited",
                 \A v \in Workers \ {w} : pc'[v] = pc[v] /\ job'[v] = job[v],
                 \A v \in Workers \ {w} : pc[v] \in Executing => status'[job[v]] = status[job[v]],
                 pc'[w] \in Executing => status'[job'[w]] = "running"
          PROVE  LifeInv(o)'
      <3>1. Live' = Live
        BY <2>3 DEF Live
      <3>2. \A v \in Workers : pc'[v] \in Executing => status'[job'[v]] = "running"
        BY <1>0, <2>3
      <3> QED
        BY <2>3, <3>1, <3>2, LifeFrame
    <2>4. ASSUME NEW j \in AllJobs, Claim(w, j) PROVE LifeInv(o)'
      <3>1. \A v \in Workers : pc[v] \in Executing => job[v] # j
        BY <1>0, <2>4 DEF Claim, IsDue, Waiting
      <3> QED
        BY <1>0, <2>3, <2>4, <3>1 DEF Claim, TypeOK
    <2>5. CASE Discover(w)
      BY <1>0, <2>3, <2>5 DEF Discover, Executing, TypeOK
    <2>6. CASE Complete(w) \/ Fail(w)
      <3>1. \A v \in Workers \ {w} : pc[v] \in Executing => job[v] # job[w]
        BY <2>6 DEF Complete, Fail, JobsInv, OneWorkerPerJob, Executing
      <3> QED
        BY <1>0, <2>3, <2>6, <3>1 DEF Complete, Fail, Executing, TypeOK
    <2>7. CASE Retry(w)
      <3>1. \A v \in Workers \ {w} : pc[v] \in Executing => job[v] # job[w]
        BY <1>0, <2>7 DEF Retry, CanRetry
      <3>2. \A v \in Workers \ {w} : pc[v] \in Executing => status'[job[v]] = status[job[v]]
        BY <1>0, <2>7, <3>1 DEF Retry, TypeOK
      <3> QED
        BY <2>7, <3>2, LifeResume DEF Retry
    <2> QED
      BY <1>11, <2>1, <2>2, <2>4, <2>5, <2>6, <2>7 DEF Worker
  <1> QED
    BY <1>2, <1>4, <1>5, <1>6, <1>7, <1>8, <1>9, <1>10, <1>11 DEF Next, Stop

\* When no stop() is under way, a running scheduler has all its workers and a stopped one
\* has none, if one task at a time starts and stops it.
THEOREM WorkersAreThere ==
  ASSUME NEW o \in Operators, Operators = {o}
  PROVE  Spec => []WorkersMatchState
  <1>1. Init => LifeInv(o)
    BY LifeInit
  <1>2. TypeOK /\ JobsInv /\ LifeInv(o) /\ [Next]_vars => LifeInv(o)'
    BY LifeNext
  <1>3. LifeInv(o) => WorkersMatchState
    <2>1. Cardinality({}) = 0
      BY FS_EmptySet
    <2> QED
      BY <2>1 DEF LifeInv, WorkersMatchState, Live
  <1> QED
    BY <1>1, <1>2, <1>3, TypeCorrect, JobsConsistent, PTL DEF Spec

\* The phases the abstract specification sees.
Phases == [j \in AllJobs |-> Phase(j)]
Failing(j) == \E w \in Workers : pc[w] = "failed" /\ job[w] = j
PhaseBy(s, failing) ==
    IF s = "running" \/ failing THEN "underWay" ELSE IF s \in Waiting THEN "waiting" ELSE s

LEMMA PhasesAre ==
  /\ \A j \in AllJobs : Phases[j] = PhaseBy(status[j], Failing(j))
  /\ DOMAIN Phases = AllJobs
  BY DEF Phases, Phase, PhaseBy, Failing

LEMMA PhasesBecome ==
  /\ \A j \in AllJobs : Phases'[j] = PhaseBy(status'[j], \E w \in Workers : pc'[w] = "failed" /\ job'[w] = j)
  /\ Phases' = [j \in AllJobs |-> Phases'[j]]
  BY DEF Phases, Phase, PhaseBy

\* Jobs that fail have status FAILED, so a job that waits is in no worker's hands.
LEMMA PhaseOfStatus ==
  ASSUME TypeOK, JobsInv, NEW j \in AllJobs
  PROVE  /\ status[j] = "running" => Phases[j] = "underWay"
         /\ status[j] \in Waiting => Phases[j] = "waiting"
         /\ status[j] = "failed" /\ Failing(j) => Phases[j] = "underWay"
         /\ status[j] = "failed" /\ ~Failing(j) => Phases[j] = "failed"
         /\ status[j] \in {"absent", "completed", "cancelled"} => Phases[j] = status[j]
         /\ Failing(j) => status[j] = "failed"
         /\ Phases[j] = "underWay" => status[j] = "running" \/ Failing(j)
  <1>1. Phases[j] = PhaseBy(status[j], Failing(j))
    BY PhasesAre
  <1>2. Failing(j) => status[j] = "failed"
    BY DEF Failing, JobsInv
  <1>3. status[j] \in Status
    BY DEF TypeOK
  <1> QED
    BY <1>1, <1>2, <1>3 DEF PhaseBy, Waiting, Status

\* Nothing changes for jobs whose status does not, and that the same workers fail with.
LEMMA PhasesStay ==
  ASSUME NEW S \in SUBSET AllJobs, \A j \in S : status'[j] = status[j],
         \A w \in Workers, j \in S : pc'[w] = "failed" /\ job'[w] = j <=> pc[w] = "failed" /\ job[w] = j
  PROVE  \A j \in S : Phases'[j] = Phases[j]
  <1> SUFFICES ASSUME NEW j \in S PROVE Phases'[j] = Phases[j]
    OBVIOUS
  <1>1. (\E w \in Workers : pc'[w] = "failed" /\ job'[w] = j) <=> Failing(j)
    BY DEF Failing
  <1>2. status'[j] = status[j]
    OBVIOUS
  <1> QED
    BY <1>1, <1>2, PhasesAre, PhasesBecome DEF PhaseBy

LEMMA PhaseMoves ==
  ASSUME NEW j \in AllJobs, NEW from, NEW to, Phases[j] = from, Phases'[j] = to,
         \A k \in AllJobs \ {j} : Phases'[k] = Phases[k]
  PROVE  Lifecycle!Moves(j, from, to)
  <1>1. Phases' = [Phases EXCEPT ![j] = to]
    BY PhasesAre, PhasesBecome
  <1> QED
    BY <1>1 DEF Lifecycle!Moves, Phases

\* A step of the scheduler is one of the life of jobs, or none.
Implemented == Lifecycle!Next \/ UNCHANGED <<Phases, retries>>

LEMMA MovesOn ==
  ASSUME NEW j \in AllJobs
  PROVE  /\ Lifecycle!Submit(j) => Implemented
         /\ Lifecycle!Withdraw(j) => Implemented
         /\ Lifecycle!Begin(j) => Implemented
         /\ Lifecycle!Succeed(j) => Implemented
         /\ Lifecycle!TryAgain(j) => Implemented
         /\ Lifecycle!GiveUp(j) => Implemented
  BY DEF Implemented, Lifecycle!Next

LEMMA AbstractSame ==
  ASSUME \A j \in AllJobs : Phases'[j] = Phases[j], retries' = retries
  PROVE  Implemented
  <1>1. Phases' = Phases
    BY PhasesAre, PhasesBecome DEF Phases
  <1> QED
    BY <1>1 DEF Implemented

\* What is scheduled was absent, what is cancelled by a client was waiting.
LEMMA AbstractSchedule ==
  ASSUME TypeOK, JobsInv, NEW j \in AllJobs, UNCHANGED <<pc, job, retries>>,
         \A k \in AllJobs \ {j} : status'[k] = status[k],
         \/ status[j] = "absent" /\ status'[j] = "pending"
         \/ status[j] \in Waiting /\ status'[j] = "cancelled"
  PROVE  Implemented
  <1>1. \A k \in AllJobs \ {j} : Phases'[k] = Phases[k]
    BY PhasesStay
  <1>2. ~Failing(j)
    BY PhaseOfStatus DEF Waiting
  <1>3. ~\E w \in Workers : pc'[w] = "failed" /\ job'[w] = j
    BY <1>2 DEF Failing
  <1>4. Phases'[j] = PhaseBy(status'[j], FALSE)
    BY <1>3, PhasesBecome
  <1>5. CASE status[j] = "absent" /\ status'[j] = "pending"
    <2>1. Phases[j] = "absent" /\ Phases'[j] = "waiting"
      BY <1>4, <1>5, PhaseOfStatus DEF PhaseBy, Waiting
    <2>2. Lifecycle!Submit(j)
      BY <1>1, <2>1, PhaseMoves DEF Lifecycle!Submit
    <2> QED
      BY <2>2, MovesOn
  <1>6. CASE status[j] \in Waiting /\ status'[j] = "cancelled"
    <2>1. Phases[j] = "waiting" /\ Phases'[j] = "cancelled"
      BY <1>4, <1>6, PhaseOfStatus DEF PhaseBy, Waiting
    <2>2. Lifecycle!Withdraw(j)
      BY <1>1, <2>1, PhaseMoves DEF Lifecycle!Withdraw
    <2> QED
      BY <2>2, MovesOn
  <1> QED
    BY <1>5, <1>6

\* The instance's cardinality is the same.
LEMMA LifecycleCardinality ==
  ASSUME NEW S
  PROVE  Lifecycle!Cardinality(S) = Cardinality(S)
  BY Zenon DEF Lifecycle!Cardinality, Cardinality

\* A job is claimed by a worker that was idle, so less jobs than workers are under way.
LEMMA AbstractClaim ==
  ASSUME TypeOK, JobsInv, NEW o \in Operators, Operators = {o}, LifeInv(o),
         NEW w \in Workers, NEW j \in AllJobs, Claim(w, j)
  PROVE  Implemented
  <1>1. /\ pc[w] = "idle" /\ pc'[w] = "started" /\ job'[w] = j /\ status[j] \in Waiting
        /\ status'[j] = "running" /\ retries' = retries
        /\ \A k \in AllJobs \ {j} : status'[k] = status[k]
        /\ \A v \in Workers \ {w} : pc'[v] = pc[v] /\ job'[v] = job[v]
    BY DEF Claim, IsDue, TypeOK, jobVars
  <1>2. \A k \in AllJobs \ {j} : Phases'[k] = Phases[k]
    BY <1>1, PhasesStay, ZenonT(40)
  <1>3. Phases[j] = "waiting" /\ Phases'[j] = "underWay"
    BY <1>1, PhaseOfStatus, PhasesBecome DEF PhaseBy
  <1> DEFINE under == {k \in AllJobs : Phases[k] = "underWay"}
             rest == Live \ {w}
             Holds(v, k) == pc[v] \in Executing \cup {"failed"} /\ job[v] = k
             f == [k \in under |-> CHOOSE v \in Workers : Holds(v, k)]
  <1>4. opPc[o] # "awaitWorkers" /\ w \in Live /\ Cardinality(Live) <= MaxConcurrent
    <2>1. w \in Live /\ Live # {}
      BY <1>1 DEF Live
    <2>2. opPc[o] \in {"ready", "awaitScheduler"}
      BY <2>1 DEF LifeInv, TypeOK, OpPc
    <2>3. Cardinality(Live) <= MaxConcurrent
      BY <2>1, <2>2, LiveFinite DEF LifeInv
    <2> QED
      BY <2>1, <2>2, <2>3
  <1>5. \A k \in under : \E v \in Workers : Holds(v, k)
    <2> SUFFICES ASSUME NEW k \in under PROVE \E v \in Workers : Holds(v, k)
      OBVIOUS
    <2>1. status[k] = "running" \/ Failing(k)
      BY PhaseOfStatus
    <2>2. status[k] = "running" => \E v \in Workers : pc[v] \in Executing /\ job[v] = k
      BY <1>4 DEF JobsInv, NoOrphanRunning
    <2> QED
      BY <2>1, <2>2 DEF Failing
  <1>6. \A k \in under : f[k] \in rest /\ job[f[k]] = k
    <2> SUFFICES ASSUME NEW k \in under PROVE f[k] \in rest /\ job[f[k]] = k
      OBVIOUS
    <2>1. f[k] \in Workers /\ Holds(f[k], k)
      BY <1>5
    <2> HIDE DEF f
    <2> QED
      BY <1>1, <2>1 DEF Live, Executing
  <1>7. f \in Injection(under, rest)
    <2>1. f \in [under -> rest]
      BY <1>6
    <2>2. \A a, b \in under : f[a] = f[b] => a = b
      BY <1>6
    <2> HIDE DEF f, under, rest
    <2> QED
      BY <2>1, <2>2 DEF Injection, IsInjective
  <1>8. IsFiniteSet(rest) /\ Cardinality(rest) = Cardinality(Live) - 1
    BY <1>4, LiveFinite, FS_RemoveElement
  <1>9. Cardinality(under) <= Cardinality(rest) /\ Cardinality(under) \in Nat
    <2> HIDE DEF f, under, rest
    <2>1. IsFiniteSet(under) /\ Cardinality(under) <= Cardinality(rest)
      BY <1>7, <1>8, FS_Injection
    <2> QED
      BY <2>1, FS_CardinalityType
  <1>10. Cardinality(under) < MaxConcurrent
    <2> HIDE DEF under, rest
    <2> QED
      BY <1>4, <1>8, <1>9, LiveFinite
  <1>11. Lifecycle!UnderWay = under
    BY DEF Lifecycle!UnderWay, Phases
  <1>12. Lifecycle!Begin(j)
    <2>1. Lifecycle!Moves(j, "waiting", "underWay")
      BY <1>2, <1>3, PhaseMoves
    <2> HIDE DEF under
    <2>2. Lifecycle!Cardinality(Lifecycle!UnderWay) < MaxConcurrent
      BY <1>10, <1>11, LifecycleCardinality
    <2> QED
      BY <1>1, <2>1, <2>2 DEF Lifecycle!Begin
  <1> QED
    BY <1>12, MovesOn

\* An attempt ends: a failed one is under way until its events are delivered.
LEMMA AbstractEnd ==
  ASSUME TypeOK, JobsInv, NEW o \in Operators, LifeInv(o), NEW w \in Workers, Complete(w) \/ Fail(w)
  PROVE  Implemented
  <1>1. PICK j \in AllJobs : j = job[w]
    BY DEF Complete, Fail, TypeOK, Busy, Executing
  <1>2. /\ pc[w] = "discovering" /\ status[j] = "running" /\ retries' = retries /\ job' = job
        /\ status' = [status EXCEPT ![j] = pc'[w]]
        /\ \A v \in Workers \ {w} : pc'[v] = pc[v]
        /\ pc'[w] \in {"completed", "failed"}
    BY <1>1 DEF Complete, Fail, LifeInv, Executing, TypeOK
  <1>3. \A v \in Workers : pc[v] = "failed" => job[v] # j
    BY <1>2 DEF JobsInv
  <1>4. \A k \in AllJobs \ {j} : Phases'[k] = Phases[k]
    <2>1. \A v \in Workers, k \in AllJobs \ {j} :
            pc'[v] = "failed" /\ job'[v] = k <=> pc[v] = "failed" /\ job[v] = k
      BY <1>1, <1>2
    <2>2. \A k \in AllJobs \ {j} : status'[k] = status[k]
      BY <1>2 DEF TypeOK
    <2> QED
      BY <2>1, <2>2, PhasesStay
  <1>5. Phases[j] = "underWay"
    BY <1>2, PhaseOfStatus
  <1>6. CASE pc'[w] = "completed"
    <2>1. ~\E v \in Workers : pc'[v] = "failed" /\ job'[v] = j
      BY <1>2, <1>3, <1>6
    <2>2. status'[j] = "completed"
      BY <1>2, <1>6 DEF TypeOK
    <2>3. Phases'[j] = "completed"
      BY <2>1, <2>2, PhasesBecome DEF PhaseBy, Waiting
    <2>4. Lifecycle!Moves(j, "underWay", "completed")
      BY <1>4, <1>5, <2>3, PhaseMoves
    <2>5. Lifecycle!Succeed(j)
      BY <1>2, <2>4 DEF Lifecycle!Succeed
    <2> QED
      BY <2>5, MovesOn
  <1>7. CASE pc'[w] = "failed"
    <2>1. Phases'[j] = "underWay"
      BY <1>1, <1>2, <1>7, PhasesBecome DEF PhaseBy
    <2>2. \A k \in AllJobs : Phases'[k] = Phases[k]
      BY <1>4, <1>5, <2>1
    <2> QED
      BY <1>2, <2>2, AbstractSame
  <1> QED
    BY <1>2, <1>6, <1>7

\* A worker lets go of a job that failed: it waits again, or has failed for good.
LEMMA AbstractFollowUp ==
  ASSUME TypeOK, JobsInv, NEW w \in Workers, Retry(w) \/ GiveUp(w)
  PROVE  Implemented
  <1>1. PICK j \in AllJobs : j = job[w]
    BY DEF Retry, GiveUp, TypeOK, Busy
  <1>2. /\ pc[w] = "failed" /\ status[j] = "failed" /\ pc'[w] \in {"idle", "exited"}
        /\ \A v \in Workers \ {w} : pc'[v] = pc[v] /\ job'[v] = job[v]
    BY <1>1 DEF Retry, GiveUp, Resume, JobsInv, TypeOK
  <1>3. \A v \in Workers \ {w} : pc[v] = "failed" => job[v] # j
    BY <1>1, <1>2 DEF JobsInv
  <1>4. ~\E v \in Workers : pc'[v] = "failed" /\ job'[v] = j
    BY <1>2, <1>3
  <1>5. Phases[j] = "underWay"
    BY <1>1, <1>2, PhaseOfStatus DEF Failing
  <1>6. ASSUME \A k \in AllJobs \ {j} : status'[k] = status[k]
        PROVE  \A k \in AllJobs \ {j} : Phases'[k] = Phases[k]
    <2>1. \A v \in Workers, k \in AllJobs \ {j} :
            pc'[v] = "failed" /\ job'[v] = k <=> pc[v] = "failed" /\ job[v] = k
      <3>1. job[w] = j /\ (job'[w] = j \/ pc'[w] # "failed")
        BY <1>1, <1>2
      <3> QED
        BY <1>2, <3>1
    <2> QED
      BY <1>6, <2>1, PhasesStay
  <1>7. CASE Retry(w)
    <2>1. /\ status'[j] = "scheduled" /\ \A k \in AllJobs \ {j} : status'[k] = status[k]
          /\ retries[j] < MaxRetries /\ retries' = [retries EXCEPT ![j] = @ + 1]
      BY <1>1, <1>7 DEF Retry, CanRetry, TypeOK
    <2>2. Phases'[j] = "waiting"
      BY <1>4, <2>1, PhasesBecome DEF PhaseBy, Waiting
    <2>3. Lifecycle!Moves(j, "underWay", "waiting")
      BY <1>5, <1>6, <2>1, <2>2, PhaseMoves
    <2>4. Lifecycle!TryAgain(j)
      BY <2>1, <2>3 DEF Lifecycle!TryAgain
    <2> QED
      BY <2>4, MovesOn
  <1>8. CASE GiveUp(w)
    <2>1. status' = status /\ retries' = retries
      BY <1>8 DEF GiveUp, jobVars
    <2>2. retries[j] = MaxRetries
      <3>1. ~(retries[j] < MaxRetries) /\ retries[j] \in 0 .. MaxRetries
        BY <1>1, <1>2, <1>8 DEF GiveUp, CanRetry, TypeOK
      <3> QED
        BY <3>1
    <2>3. Phases'[j] = "failed"
      BY <1>2, <1>4, <2>1, PhasesBecome DEF PhaseBy, Waiting
    <2>4. Lifecycle!Moves(j, "underWay", "failed")
      BY <1>5, <1>6, <2>1, <2>3, PhaseMoves
    <2>5. Lifecycle!GiveUp(j)
      BY <2>1, <2>2, <2>4 DEF Lifecycle!GiveUp
    <2> QED
      BY <2>5, MovesOn
  <1> QED
    BY <1>7, <1>8

\* stop() ends the workers: what failed and was not followed up stays failed.
LEMMA AbstractInterrupt ==
  ASSUME TypeOK, JobsInv, NEW o \in Operators, StopWorkers(o)
  PROVE  Implemented
  <1>1. /\ status' = status /\ retries' = retries /\ \A w \in Workers : pc'[w] = "exited"
    BY DEF StopWorkers, jobVars, TypeOK
  <1> DEFINE caught == {j \in AllJobs : Failing(j)}
  <1>2. \A j \in AllJobs : Phases'[j] = PhaseBy(status[j], FALSE)
    BY <1>1, PhasesBecome
  <1>3. ASSUME NEW j \in AllJobs
        PROVE  /\ Phases'[j] = IF j \in caught THEN "failed" ELSE Phases[j]
               /\ j \in caught => Phases[j] = "underWay"
    <2>1. CASE j \in caught
      <3>1. status[j] = "failed" /\ Phases[j] = "underWay"
        BY <2>1, PhaseOfStatus
      <3>2. Phases'[j] = "failed"
        BY <1>2, <3>1 DEF PhaseBy, Waiting
      <3> QED
        BY <2>1, <3>1, <3>2
    <2>2. CASE j \notin caught
      <3>1. Phases[j] = PhaseBy(status[j], FALSE)
        BY <2>2, PhasesAre DEF PhaseBy
      <3> QED
        BY <1>2, <2>2, <3>1
    <2> QED
      BY <2>1, <2>2
  <1>4. CASE caught = {}
    <2>1. \A j \in AllJobs : Phases'[j] = Phases[j]
      BY <1>3, <1>4
    <2> QED
      BY <1>1, <2>1, AbstractSame
  <1>5. CASE caught # {}
    <2>1. caught \in (SUBSET Lifecycle!UnderWay) \ {{}}
      BY <1>3, <1>5 DEF Lifecycle!UnderWay, Phases
    <2> HIDE DEF caught
    <2>2. Phases' = [j \in AllJobs |-> IF j \in caught THEN "failed" ELSE Phases[j]]
      <3>1. \A j \in AllJobs : Phases'[j] = IF j \in caught THEN "failed" ELSE Phases[j]
        BY <1>3
      <3> QED
        BY <3>1, PhasesBecome
    <2>3. Lifecycle!Interrupt
      BY <1>1, <2>1, <2>2 DEF Lifecycle!Interrupt, Phases
    <2> QED
      BY <2>3 DEF Implemented, Lifecycle!Next
  <1> QED
    BY <1>4, <1>5

\* stop() cancels the jobs that were left RUNNING, which are all that are under way.
LEMMA AbstractCancel ==
  ASSUME TypeOK, JobsInv, NEW o \in Operators, LifeInv(o), StopFinish(o)
  PROVE  Implemented
  <1>1. /\ opPc[o] = "awaitWorkers" /\ UNCHANGED <<pc, job, retries>>
        /\ \A j \in AllJobs : status'[j] = IF j \in runningJobs THEN "cancelled" ELSE status[j]
    BY DEF StopFinish, workerVars, TypeOK
  <1>2. \A w \in Workers : pc[w] = "exited" /\ pc'[w] = "exited"
    BY <1>1 DEF LifeInv, Live
  <1>3. \A j \in AllJobs : ~Failing(j) /\ Phases'[j] = PhaseBy(status'[j], FALSE)
    <2>1. \A j \in AllJobs : ~Failing(j) /\ ~\E w \in Workers : pc'[w] = "failed" /\ job'[w] = j
      BY <1>2 DEF Failing
    <2> QED
      BY <2>1, PhasesBecome
  <1>4. ASSUME NEW j \in AllJobs
        PROVE  Phases'[j] = IF j \in Lifecycle!UnderWay THEN "cancelled" ELSE Phases[j]
    <2>1. j \in Lifecycle!UnderWay <=> Phases[j] = "underWay"
      BY DEF Lifecycle!UnderWay, Phases
    <2>2. Phases[j] = PhaseBy(status[j], FALSE)
      BY <1>3, PhasesAre DEF PhaseBy
    <2>3. CASE j \in runningJobs
      <3>1. status[j] \in {"running", "cancelled"} /\ status'[j] = "cancelled"
        BY <1>1, <2>3 DEF JobsInv
      <3> QED
        BY <1>3, <2>1, <2>2, <3>1 DEF PhaseBy, Waiting
    <2>4. CASE j \notin runningJobs
      <3>1. status[j] # "running" /\ status'[j] = status[j]
        BY <1>1, <2>4 DEF JobsInv
      <3>2. Phases[j] # "underWay"
        BY <1>3, <3>1, PhaseOfStatus
      <3> QED
        BY <1>3, <2>1, <2>2, <3>1, <3>2
    <2> QED
      BY <2>3, <2>4
  <1>5. Phases' = [j \in AllJobs |-> IF j \in Lifecycle!UnderWay THEN "cancelled" ELSE Phases[j]]
    BY <1>4, PhasesBecome
  <1>6. Lifecycle!CancelAll
    BY <1>1, <1>5 DEF Lifecycle!CancelAll, Phases
  <1> QED
    BY <1>6 DEF Implemented, Lifecycle!Next

\* Every step of the scheduler is a step of the life of its jobs.
LEMMA AbstractNext ==
  ASSUME TypeOK, JobsInv, NEW o \in Operators, Operators = {o}, LifeInv(o), [Next]_vars
  PROVE  Implemented
  <1> USE DEF jobVars, workerVars, opVars
  <1>1. ASSUME UNCHANGED <<status, retries>>,
               \A w \in Workers, j \in AllJobs :
                  pc'[w] = "failed" /\ job'[w] = j <=> pc[w] = "failed" /\ job[w] = j
        PROVE  Implemented
    <2>1. \A j \in AllJobs : Phases'[j] = Phases[j]
      BY <1>1, PhasesStay
    <2> QED
      BY <1>1, <2>1, AbstractSame
  <1>2. CASE Tick \/ UNCHANGED vars \/ StopBegin(o)
    BY <1>1, <1>2 DEF Tick, vars, StopBegin
  <1>3. ASSUME NEW j \in AllJobs, NEW t, AddJob(j, t) PROVE Implemented
    BY <1>3, AbstractSchedule DEF AddJob, TypeOK
  <1>4. ASSUME NEW j \in Jobs, Client(j) PROVE Implemented
    BY <1>1, <1>3, <1>4 DEF Client, ScheduleJob, RescheduleJob, AllJobs
  <1>5. ASSUME NEW j \in AllJobs, CancelJob(j) PROVE Implemented
    BY <1>5, AbstractSchedule DEF CancelJob, TypeOK
  <1>6. ASSUME NEW j \in PeriodicJobs, SchedulePeriodic(j) PROVE Implemented
    BY <1>3, <1>6 DEF SchedulePeriodic, AllJobs
  <1>7. CASE Start(o)
    <2>1. PICK new \in SUBSET {w \in Workers : pc[w] = "exited"} :
            pc' = [w \in Workers |-> IF w \in new THEN "idle" ELSE pc[w]]
      BY <1>7 DEF Start
    <2>2. \A w \in Workers : pc'[w] = "failed" <=> pc[w] = "failed"
      BY <2>1
    <2> QED
      BY <1>1, <1>7, <2>2 DEF Start
  <1>8. ASSUME NEW w \in Workers, Worker(w) PROVE Implemented
    <2>1. ASSUME Resume(w), pc[w] # "failed", UNCHANGED <<status, retries>>
          PROVE  Implemented
      BY <1>1, <2>1 DEF Resume, TypeOK
    <2>2. CASE Leave(w) \/ Finish(w)
      BY <2>1, <2>2 DEF Leave, Finish
    <2>3. ASSUME NEW j \in AllJobs, Drop(w, j) PROVE Implemented
      BY <2>1, <2>3 DEF Drop
    <2>4. CASE Discover(w)
      BY <1>1, <2>4 DEF Discover, TypeOK
    <2> QED
      BY <1>8, <2>2, <2>3, <2>4, AbstractClaim, AbstractEnd, AbstractFollowUp DEF Worker
  <1> QED
    BY <1>2, <1>4, <1>5, <1>6, <1>7, <1>8, AbstractInterrupt, AbstractCancel DEF Next, Stop

\* If one task at a time starts and stops the scheduler, it implements the life of jobs:
\* a job begins only while a place is free, is tried no more often than configured, and
\* one that is completed, cancelled or given up never moves again.
THEOREM SchedulerImplementsLifecycle ==
  ASSUME NEW o \in Operators, Operators = {o}
  PROVE  Spec => ImplementsLifecycle
  <1>1. Init => Lifecycle!Init
    BY DEF Init, Lifecycle!Init, Phase, Waiting
  <1>2. Init => LifeInv(o)
    BY LifeInit
  <1>3. TypeOK /\ JobsInv /\ LifeInv(o) /\ [Next]_vars => LifeInv(o)'
    BY LifeNext
  <1>4. TypeOK /\ JobsInv /\ LifeInv(o) /\ [Next]_vars
            => [Lifecycle!Next]_<<[j \in AllJobs |-> Phase(j)], retries>>
    BY AbstractNext DEF Implemented, Phases
  <1> QED
    BY <1>1, <1>2, <1>3, <1>4, TypeCorrect, JobsConsistent, PTL
    DEF Spec, ImplementsLifecycle, Lifecycle!Spec

=============================================================================
