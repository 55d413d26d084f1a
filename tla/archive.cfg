SPECIFICATION MCSpec
CONSTANTS
    Users = {submitter, reviewer, admin}
    CreateUser = submitter
    Superusers = {admin}
    Reviewers = {reviewer, admin}
    Groups = {g1, g2}
    GroupUsers <- MCGroupUsers
    AuditAuthGroups <- TwoGroups
    BanSelfAudit = TRUE
    NoGroup = none
    Requests = {r1, r2}
    Actions = {"PASS", "REJECT", "EXECUTE_START"}
    Ops = {"audit", "api_pass", "api_cancel", "switch", "once"}
    MaxRequests = 3
    MaxCrashes = 1
    MaxPicked = 2
    MaxQueued = 1
    submitter = submitter
    reviewer = reviewer
    admin = admin
    g1 = g1
    g2 = g2
CHECK_DEADLOCK FALSE
INVARIANTS TypeOK PeriodicOnlyApproved UncutStatusAgrees
PROPERTIES SwitchOffHolds PassedIsArchived
