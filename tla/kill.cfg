SPECIFICATION FairSpec
CONSTANTS
    Requests = {r1, r2}
    MaxExecutionTime = 1
    MaxNow = 3
    MaxConnections = 3
    MaxCrashes = 1
    MaxRestarts = 1
CHECK_DEADLOCK FALSE
INVARIANT TypeOK
PROPERTIES KillsOnlyOverdue ScheduledEnds
