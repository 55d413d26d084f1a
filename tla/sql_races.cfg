SPECIFICATION Spec
CONSTANTS
    Users = {submitter, reviewer, admin}
    CreateUser = submitter
    Superusers = {admin}
    Reviewers = {reviewer, admin}
    Executors = {reviewer, admin}
    Groups = {g1, g2}
    GroupUsers <- MCGroupUsers
    AuditAuthGroups <- TwoGroups
    BanSelfAudit = TRUE
    NoGroup = none
    Requests = {r1, r2}
    Workers = {w1, w2}
    Windows <- OpenOrLater
    AutoOutcomes = {"none", "reject", "pass"}
    Export = TRUE
    Ops = {"passed", "cancel", "timing_task", "execute", "alter_run_date", "api_pass", "api_cancel"}
    MaxRequests = 5
    MaxCrashes = 1
    MaxNow = 0
    submitter = submitter
    reviewer = reviewer
    admin = admin
    g1 = g1
    g2 = g2
CHECK_DEADLOCK FALSE
SYMMETRY MCSymmetry
INVARIANTS TypeOK OnlyApprovedRuns
