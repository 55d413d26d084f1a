SPECIFICATION MCSpec
CONSTANTS
    Users = {submitter, reviewer, admin}
    CreateUser = submitter
    Superusers = {admin}
    Reviewers = {submitter, reviewer, admin}
    Groups = {g1, g2}
    GroupUsers <- MCGroupUsers
    AuditAuthGroups <- OneGroup
    BanSelfAudit = TRUE
    NoGroup = none
    Requests = {r1}
    Actions = {"PASS"}
    Ops = {"apply", "api_cancel"}
    MaxRequests = 3
    MaxCrashes = 0
    submitter = submitter
    reviewer = reviewer
    admin = admin
    g1 = g1
    g2 = g2
CHECK_DEADLOCK FALSE
INVARIANT CancelIsServed
