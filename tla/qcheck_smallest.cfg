SPECIFICATION Spec
CONSTANTS
    Dbs = {d1, d2}
    Names = {t1, t2}
    AnyDb = any
    NoTable = none
    TableRef <- OneTable
    Limits = {1, 2}
    Asked = {0}
    MaxDay = 0
    MaxPrivileges = 2
    MaxChanges = 2
    d1 = d1
    d2 = d2
    t1 = t1
    t2 = t2
CHECK_DEADLOCK FALSE
INVARIANT LimitIsSmallest
