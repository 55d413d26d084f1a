SPECIFICATION WatchedSpec
CONSTANTS
    Requests = {r1}
    LockCount = 3
    LockTime = 2
    MaxCount = 2
    Never = never
    MaxNow = 7
    MaxLogins = 9
CHECK_DEADLOCK FALSE
PROPERTY LocksAtThreshold
