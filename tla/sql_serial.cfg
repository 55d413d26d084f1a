SPECIFICATION FairSpec
CONSTANTS
    Users = {submitter, reviewer, admin}
    CreateUser = submitter
    Superusers = {admin}
    Reviewers = {reviewer, admin}
    Executors = {reviewer, admin}
    Groups = {g1, g2}
    GroupUsers <- MCGroupUsers
    AuditAuthGroups <- OneGroup
    BanSelfAudit = TRUE
    NoGroup = none
    Requests = {r1}
    Workers = {w1, w2}
    Windows <- OpenOrLater
    AutoOutcomes = {"none", "pass"}
    Export = FALSE
    Ops = {"passed", "cancel", "timing_task", "execute", "alter_run_date", "api_pass"}
    MaxRequests = 5
    MaxCrashes = 0
    MaxNow = 1
    submitter = submitter
    reviewer = reviewer
    admin = admin
    g1 = g1
    g2 = g2
CHECK_DEADLOCK FALSE
INVARIANT ReviewAgrees
PROPERTIES OneRunPerRelease StartsOnlyWhilePassed NeverStartsEarly ReleasedEnds TimedRuns
