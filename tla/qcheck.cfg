SPECIFICATION Spec
CONSTANTS
    Dbs = {d1, d2}
    Names = {t1, t2}
    AnyDb = any
    NoTable = none
    TableRef <- TwoTables
    Limits <- SomeLimits
    Asked <- SomeAsked
    MaxDay = 1
    MaxPrivileges = 3
    MaxChanges = 3
    d1 = d1
    d2 = d2
    t1 = t1
    t2 = t2
CHECK_DEADLOCK FALSE
INVARIANTS TypeOK LimitCovered SteadyAnswer
