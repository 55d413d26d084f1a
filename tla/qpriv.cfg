SPECIFICATION MCSpec
CONSTANTS
    Users = {submitter, reviewer, admin}
    CreateUser = submitter
    Superusers = {admin}
    Reviewers = {submitter, reviewer, admin}
    Groups = {g1, g2}
    GroupUsers <- MCGroupUsers
    AuditAuthGroups <- TwoGroups
    BanSelfAudit = TRUE
    NoGroup = none
    Requests = {r1, r2}
    Actions = {"PASS", "REJECT", "ABORT", "EXECUTE_SET_TIME", "EXECUTE_START", "EXECUTE_END"}
    Ops = {"apply", "audit", "api_pass", "api_cancel"}
    MaxRequests = 6
    MaxCrashes = 1
    submitter = submitter
    reviewer = reviewer
    admin = admin
    g1 = g1
    g2 = g2
CHECK_DEADLOCK FALSE
INVARIANTS TypeOK GrantedOnlyApproved FreshGrantedOnce FreshStatusAgrees
PROPERTY PassedGetsPrivileges
