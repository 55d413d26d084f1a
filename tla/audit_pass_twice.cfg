SPECIFICATION Spec
CONSTANTS
    Users = {submitter, reviewer, admin}
    CreateUser = submitter
    Superusers = {admin}
    Reviewers = {reviewer, submitter, admin}
    Groups = {g1, g2, g3}
    AuditAuthGroups <- MCChain
    BanSelfAudit = TRUE
    NoGroup = none
    submitter = submitter
    reviewer = reviewer
    admin = admin
    g1 = g1
    g2 = g2
    g3 = g3
    GroupUsers <- MCGroupUsers
    Requests = {r1, r2}
PROPERTY PassedNotPassedAgain
