SPECIFICATION FairSpec
CONSTANTS
    j1 = j1
    j2 = j2
    p1 = p1
    w1 = w1
    w2 = w2
    NoJob = NoJob
    Jobs = {j1, j2}
    PeriodicJobs = {p1}
    Priority <- MCPriority
    Workers = {w1, w2}
    MaxConcurrent = 2
    Operators = {"op"}
    Delays = {0}
    InitialDelay = 0
    RetryDelay = 0
    MaxRetries = 1
    MaxTime = 0
    MaxSchedules = 3
    MaxStarts = 2
CHECK_DEADLOCK FALSE
INVARIANT WaitingJobsAreQueued
PROPERTY ImplementsLifecycle
PROPERTY JobsServed
