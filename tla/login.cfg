SPECIFICATION WatchedSpec
CONSTANTS
    Requests = {r1, r2}
    LockCount = 2
    LockTime = 2
    MaxCount = 2
    Never = never
    MaxNow = 7
    MaxLogins = 9
CHECK_DEADLOCK FALSE
SYMMETRY MCSymmetry
INVARIANT LockJustified
PROPERTY RefusedExactly
