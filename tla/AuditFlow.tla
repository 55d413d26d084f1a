----------------------------- MODULE AuditFlow -----------------------------
(***************************************************************************)
(* One WorkflowAudit row and the web requests that operate on it.  A       *)
(* request builds an AuditV2 object, which reads the row (get_audit_info), *)
(* and later calls operate, which checks the copy and saves it whole: no   *)
(* row lock and no second read lie between the two, so two requests that   *)
(* both read before either saves work from the same copy.  Every workflow  *)
(* type goes through this engine; the callers add the state of their own   *)
(* workflow row.                                                           *)
(*                                                                         *)
(* `approved' is a history variable: the groups during whose turn a PASS   *)
(* was saved (one WorkflowAuditDetail row each).  `auto' is what           *)
(* generate_audit_setting decided at submission; it never changes.         *)
(***************************************************************************)
EXTENDS AuditV2

CONSTANT Requests     \* web requests in progress at the same time

VARIABLES audit, auto, approved, req

vars == <<audit, auto, approved, req>>

Idle == [pc |-> "idle"]

Loaded == [pc : {"loaded"}, action : WorkflowAction, actor : Users, audit : WorkflowAudit]

TypeOK ==
    /\ audit \in WorkflowAudit
    /\ auto \in AutoReview
    /\ approved \subseteq Groups
    /\ req \in [Requests -> {Idle} \cup Loaded]

Init ==
    /\ auto \in AutoReview
    /\ audit = CreateAudit(auto)
    /\ approved = {}
    /\ req = [r \in Requests |-> Idle]

----------------------------------------------------------------------------
\* get_auditor(...): the object keeps the row as it is now.
GetAuditor(r) ==
    /\ req[r] = Idle
    /\ \E action \in WorkflowAction, actor \in Users :
         req' = [req EXCEPT ![r] = [pc     |-> "loaded",
                                    action |-> action,
                                    actor  |-> actor,
                                    audit  |-> audit]]
    /\ UNCHANGED <<audit, auto, approved>>

\* auditor.operate(...) raises AuditException: nothing is written.
Refused(r) ==
    /\ req[r].pc = "loaded"
    /\ ~CanOperate(req[r].audit, req[r].action, req[r].actor)
    /\ req' = [req EXCEPT ![r] = Idle]
    /\ UNCHANGED <<audit, auto, approved>>

\* The EXECUTE_* actions are allowed on a PASSED row and save nothing.
OperateNothing(r) ==
    /\ req[r].pc = "loaded"
    /\ req[r].action \in ExecuteActions
    /\ CanOperate(req[r].audit, req[r].action, req[r].actor)
    /\ req' = [req EXCEPT ![r] = Idle]
    /\ UNCHANGED <<audit, auto, approved>>

\* PASS: the saved row and the WorkflowAuditDetail of the group whose turn it was.
PassOne(r) ==
    /\ req[r].pc = "loaded"
    /\ req[r].action = "PASS"
    /\ CanOperate(req[r].audit, "PASS", req[r].actor)
    /\ audit' = OperatePass(req[r].audit)
    /\ approved' = approved \cup {req[r].audit.current}
    /\ req' = [req EXCEPT ![r] = Idle]
    /\ UNCHANGED auto

RejectOne(r) ==
    /\ req[r].pc = "loaded"
    /\ req[r].action = "REJECT"
    /\ CanOperate(req[r].audit, "REJECT", req[r].actor)
    /\ audit' = OperateReject(req[r].audit)
    /\ req' = [req EXCEPT ![r] = Idle]
    /\ UNCHANGED <<auto, approved>>

AbortOne(r) ==
    /\ req[r].pc = "loaded"
    /\ req[r].action = "ABORT"
    /\ CanOperate(req[r].audit, "ABORT", req[r].actor)
    /\ audit' = OperateAbort(req[r].audit)
    /\ req' = [req EXCEPT ![r] = Idle]
    /\ UNCHANGED <<auto, approved>>

Next ==
    \E r \in Requests :
        \/ GetAuditor(r)
        \/ Refused(r)
        \/ OperateNothing(r)
        \/ PassOne(r)
        \/ RejectOne(r)
        \/ AbortOne(r)

Spec == Init /\ [][Next]_vars

----------------------------------------------------------------------------
(***************************************************************************)
(* Properties.                                                             *)
(***************************************************************************)

\* The row becomes PASSED only when every group of the configured chain has
\* approved in its turn, or the submission needed no approval: whatever copies
\* concurrent requests saved over each other (operate_pass, create_audit).
NoGroupSkipped ==
    audit.status = "PASSED" => auto = "pass" \/ ChainGroups \subseteq approved

\* A group that get_review_info displays as passed did approve, even after a
\* stale copy moved the row back along the chain.
ReviewInfoHonest == ReviewInfoPassed(audit) \subseteq approved

\* can_operate's "an approved workflow cannot be approved again": no PASS is
\* saved over a row that has passed.
PassedNotPassedAgain ==
    [][\A r \in Requests : PassOne(r) => audit.status # "PASSED"]_vars

\* can_operate's comment: whoever approves, other than a superuser, belongs to
\* the group whose turn it is.
CurrentGroupApproves ==
    [][\A r \in Requests :
         PassOne(r) => \/ req[r].actor \in Superusers
                      \/ req[r].actor \in GroupUsers[req[r].audit.current]]_vars

\* What makes NoGroupSkipped inductive: the row and every copy of it in a
\* request point at a group whose predecessors have all approved.
CopiesFollowed ==
    /\ ChainFollowed(audit, auto, approved)
    /\ \A r \in Requests : req[r].pc = "loaded" => ChainFollowed(req[r].audit, auto, approved)

----------------------------------------------------------------------------
(***************************************************************************)
(* Refinement: what an approval promises (ApprovalChain), read off the row.*)
(* The one thing that breaks the promise is an operation on a copy that is *)
(* no longer the row; the chain holds no group twice.                      *)
(***************************************************************************)
Remaining ==
    IF audit.status = "WAITING"
    THEN SubSeq(AuditAuthGroups, Position(audit.current), Len(AuditAuthGroups))
    ELSE << >>

Promise == INSTANCE ApprovalChain WITH
    Chain     <- AuditAuthGroups,
    remaining <- Remaining,
    verdict   <- audit.status

StaleStep ==
    \E r \in Requests :
        req[r].pc = "loaded" /\ req'[r] # req[r] /\ req[r].audit # audit

\* Each saved row is a step of the promised chain, or was made from a stale
\* copy: the first remaining group approves, or the workflow is rejected or
\* withdrawn and stays so, however the requests overlap.
KeepsPromise == Promise!Init /\ [][StaleStep \/ Promise!Next]_Promise!vars

\* Every PASS that is accepted on an up-to-date copy brings the workflow nearer
\* to its end, so a chain of n groups is through after n of them, also when a
\* stale save has moved the row back: no group is asked over and over.
EveryPassCounts ==
    [][\A r \in Requests :
         PassOne(r) /\ req[r].audit = audit => Len(Remaining') < Len(Remaining)]_vars

=============================================================================
