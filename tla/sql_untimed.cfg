SPECIFICATION FairSpec
CONSTANTS
    Users = {submitter, reviewer, admin}
    CreateUser = submitter
    Superusers = {admin}
    Reviewers = {reviewer, admin}
    Executors = {reviewer, admin}
    Groups = {g1, g2}
    GroupUsers <- MCGroupUsers
    AuditAuthGroups <- TwoGroups
    BanSelfAudit = TRUE
    NoGroup = none
    Requests = {r1}
    Workers = {w1, w2}
    Windows <- OpenOrLater
    AutoOutcomes = {"none", "reject", "pass"}
    Export = FALSE
    Ops = {"passed", "cancel", "execute", "alter_run_date", "api_pass"}
    MaxRequests = 8
    MaxCrashes = 0
    MaxNow = 1
    submitter = submitter
    reviewer = reviewer
    admin = admin
    g1 = g1
    g2 = g2
CHECK_DEADLOCK FALSE
INVARIANTS EndAgrees NothingRunsAfterEnd
PROPERTIES KeepsLifecycle
