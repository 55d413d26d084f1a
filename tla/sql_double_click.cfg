SPECIFICATION Spec
CONSTANTS
    Users = {submitter, reviewer, admin}
    CreateUser = submitter
    Superusers = {admin}
    Reviewers = {reviewer, admin}
    Executors = {reviewer, admin}
    Groups = {g1, g2}
    GroupUsers <- MCGroupUsers
    AuditAuthGroups <- OneGroup
    BanSelfAudit = TRUE
    NoGroup = none
    Requests = {r1, r2}
    Workers = {w1, w2}
    Windows <- AlwaysOpen
    AutoOutcomes = {"pass"}
    Export = FALSE
    Ops = {"execute"}
    MaxRequests = 3
    MaxCrashes = 0
    MaxNow = 0
    submitter = submitter
    reviewer = reviewer
    admin = admin
    g1 = g1
    g2 = g2
CHECK_DEADLOCK FALSE
INVARIANT NeverRunsTwice
