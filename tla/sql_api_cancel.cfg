SPECIFICATION Spec
CONSTANTS
    Users = {submitter, reviewer, admin}
    CreateUser = submitter
    Superusers = {admin}
    Reviewers = {reviewer, admin}
    Executors = {reviewer, admin}
    Groups = {g1, g2}
    GroupUsers <- MCGroupUsers
    AuditAuthGroups <- OneGroup
    BanSelfAudit = TRUE
    NoGroup = none
    Requests = {r1}
    Workers = {w1}
    Windows <- AlwaysOpen
    AutoOutcomes = {"none", "pass"}
    Export = FALSE
    Ops = {"passed", "execute", "api_cancel"}
    MaxRequests = 4
    MaxCrashes = 0
    MaxNow = 0
    submitter = submitter
    reviewer = reviewer
    admin = admin
    g1 = g1
    g2 = g2
CHECK_DEADLOCK FALSE
PROPERTY EndedStays
