SPECIFICATION FairSpec
CONSTANTS
    j1 = j1
    j2 = j2
    p1 = p1
    w1 = w1
    w2 = w2
    NoJob = NoJob
    Jobs = {j1}
    PeriodicJobs = {}
    Priority <- MCPriority
    Workers = {w1}
    MaxConcurrent = 1
    Operators = {"op"}
    Delays = {0}
    InitialDelay = 0
    RetryDelay = 1
    MaxRetries = 1
    MaxTime = 2
    MaxSchedules = 1
    MaxStarts = 1
CHECK_DEADLOCK FALSE
PROPERTY FailedJobsAreRetried
