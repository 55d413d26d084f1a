------------------------------ MODULE AuditV2 ------------------------------
(***************************************************************************)
(* The approval engine of sql/utils/workflow_audit.py as operators on one  *)
(* WorkflowAudit row.  An AuditV2 object in the code holds a copy of that  *)
(* row, checks the operation against the copy and saves the copy; here     *)
(* CanOperate is the check and Operate is the row that is saved.  The      *)
(* modules that own a row (AuditFlow, SqlWorkflow) decide when it is read  *)
(* and when it is written.                                                 *)
(*                                                                         *)
(* Abstracted: names, remarks and log texts; a user is a member of Users,  *)
(* an auth group a member of Groups, and the permission tables are the     *)
(* constant sets below.                                                    *)
(***************************************************************************)
EXTENDS Integers, Sequences, FiniteSets

CONSTANTS
    Users,            \* the accounts that may act on the workflow
    CreateUser,       \* who submitted it (WorkflowAudit.create_user)
    Superusers,       \* is_superuser
    Reviewers,        \* has_perm(sql_review / query_review / archive_review)
    Groups,           \* Django auth groups
    GroupUsers,       \* auth_group_users: the active users of a group in the resource group
    AuditAuthGroups,  \* WorkflowAuditSetting.audit_auth_groups, as a sequence
    BanSelfAudit,     \* the system setting ban_self_audit
    NoGroup           \* the "-1" of current_audit and next_audit

ASSUME UsersAssumption ==
    /\ CreateUser \in Users
    /\ Superusers \subseteq Users
    /\ Reviewers \subseteq Users
    /\ Superusers \subseteq Reviewers      \* has_perm is true of a superuser
    /\ BanSelfAudit \in BOOLEAN

\* split(",") never returns an empty list, and "-1" is no primary key.
ASSUME ChainAssumption ==
    /\ AuditAuthGroups \in Seq(Groups)
    /\ AuditAuthGroups # << >>
    /\ GroupUsers \in [Groups -> SUBSET Users]
    /\ NoGroup \notin Groups

WorkflowStatus == {"WAITING", "PASSED", "REJECTED", "ABORTED"}

ExecuteActions == {"EXECUTE_SET_TIME", "EXECUTE_START", "EXECUTE_END"}

WorkflowAction == {"PASS", "REJECT", "ABORT"} \cup ExecuteActions

WorkflowAudit == [status  : WorkflowStatus,
                  current : Groups \cup {NoGroup},
                  next    : Groups \cup {NoGroup}]

----------------------------------------------------------------------------
(***************************************************************************)
(* The chain of groups.  list.index returns the FIRST position of a value, *)
(* which matters when a group occurs twice in the chain.                   *)
(***************************************************************************)
ChainGroups == {AuditAuthGroups[i] : i \in DOMAIN AuditAuthGroups}

IsFirst(i, g) ==
    /\ i \in DOMAIN AuditAuthGroups
    /\ AuditAuthGroups[i] = g
    /\ \A j \in 1 .. i - 1 : AuditAuthGroups[j] # g

Position(g) == CHOOSE i \in DOMAIN AuditAuthGroups : IsFirst(i, g)

\* Mutant: the index is not advanced.
FollowingStays(g) ==
    IF Position(g) > Len(AuditAuthGroups) THEN NoGroup ELSE AuditAuthGroups[Position(g)]

Following(g) ==
    IF Position(g) + 1 > Len(AuditAuthGroups)
    THEN NoGroup
    ELSE AuditAuthGroups[Position(g) + 1]

----------------------------------------------------------------------------
(***************************************************************************)
(* create_audit: the three ways a submission starts.  auto_reject and      *)
(* auto_pass leave both group columns at "-1".                             *)
(***************************************************************************)
AutoReview == {"none", "reject", "pass"}

CreateAudit(decision) ==
    IF decision = "reject"
    THEN [status |-> "REJECTED", current |-> NoGroup, next |-> NoGroup]
    ELSE IF decision = "pass"
    THEN [status |-> "PASSED", current |-> NoGroup, next |-> NoGroup]
    ELSE [status  |-> "WAITING",
          current |-> AuditAuthGroups[1],
          next    |-> IF Len(AuditAuthGroups) = 1 THEN NoGroup ELSE AuditAuthGroups[2]]

----------------------------------------------------------------------------
(***************************************************************************)
(* can_operate.                                                            *)
(***************************************************************************)
SupportedOperationGrid ==
    [WAITING  |-> {"PASS", "REJECT", "ABORT"},
     PASSED   |-> {"REJECT", "ABORT"} \cup ExecuteActions,
     REJECTED |-> {},
     ABORTED  |-> {}]

StaffedGroups == {g \in Groups : GroupUsers[g] # {}}

\* The check of PASS and REJECT for an ordinary user; the current group must
\* exist and auth_group_users of it must not be empty.  A row whose current
\* group is "-1" fails here: Group.objects.get(id="-1") does not exist.
MayReview(a, actor) ==
    \/ actor \in Superusers
    \/ /\ ~(actor = CreateUser /\ BanSelfAudit)
       /\ actor \in Reviewers
       /\ a.current \in StaffedGroups

\* Audit.can_review, which the pages and can_cancel ask before an operation: it
\* wants the user himself in the current group.
CanReview(a, user) ==
    /\ ~(user = CreateUser /\ user \notin Superusers /\ BanSelfAudit)
    /\ a.status = "WAITING"
    /\ user \in Superusers \/ user \in GroupUsers[a.current]
    /\ user \in Reviewers

\* Mutant: SUPPORTED_OPERATION_GRID is not looked at.
CanOperateAnyStatus(a, action, actor) ==
    \/ action = "ABORT" /\ actor = CreateUser
    \/ action \in {"PASS", "REJECT"} /\ MayReview(a, actor)
    \/ action \in ExecuteActions

CanOperate(a, action, actor) ==
    /\ action \in SupportedOperationGrid[a.status]
    /\ \/ action = "ABORT" /\ actor = CreateUser
       \/ action \in {"PASS", "REJECT"} /\ MayReview(a, actor)
       \/ action \in ExecuteActions

----------------------------------------------------------------------------
(***************************************************************************)
(* operate: the row that is saved.  The EXECUTE_* actions save nothing.    *)
(***************************************************************************)
\* Mutant: the group after the next one decides whether this was the last.
OperatePassEarly(a) ==
    IF Following(a.next) = NoGroup
    THEN [status |-> "PASSED", current |-> NoGroup, next |-> NoGroup]
    ELSE [status |-> "WAITING", current |-> a.next, next |-> Following(a.next)]

OperatePass(a) ==
    IF a.next = NoGroup
    THEN [a EXCEPT !.status = "PASSED", !.current = NoGroup]
    ELSE [status |-> "WAITING", current |-> a.next, next |-> Following(a.next)]

OperateReject(a) == [status |-> "REJECTED", current |-> NoGroup, next |-> NoGroup]

OperateAbort(a) == [a EXCEPT !.status = "ABORTED", !.next = NoGroup]

Operate(a, action) ==
    CASE action = "PASS"   -> OperatePass(a)
      [] action = "REJECT" -> OperateReject(a)
      [] action = "ABORT"  -> OperateAbort(a)
      [] OTHER             -> a

----------------------------------------------------------------------------
(***************************************************************************)
(* get_review_info: the groups that a page shows as already passed while   *)
(* the row is WAITING, those met before the first current one.             *)
(***************************************************************************)
\* Mutant: the current group counts as passed.
BeforeInclusive(g) == {AuditAuthGroups[i] : i \in 1 .. Position(g)}

Before(g) == {AuditAuthGroups[i] : i \in 1 .. Position(g) - 1}

ReviewInfoPassed(a) == IF a.status = "WAITING" THEN Before(a.current) ELSE {}

----------------------------------------------------------------------------
(***************************************************************************)
(* A row, or a copy of one, is consistent with the approvals `done' given  *)
(* so far and the automatic decision `decision': while it waits, everybody *)
(* before the current group has approved; if it has passed, everybody has. *)
(***************************************************************************)
Approved(decision, done) == decision = "pass" \/ ChainGroups \subseteq done

ChainFollowed(a, decision, done) ==
    /\ a.status = "WAITING" =>
         /\ decision = "none"
         /\ a.current \in ChainGroups
         /\ a.next = Following(a.current)
         /\ Before(a.current) \subseteq done
    /\ a.status = "PASSED" => Approved(decision, done)

=============================================================================
