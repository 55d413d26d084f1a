--------------------------- MODULE QueryPrivApply ---------------------------
(***************************************************************************)
(* One application for query privileges, from its submission to the rows   *)
(* of query_privileges it leads to (sql/query_privileges.py and            *)
(* AuditWorkflow of the REST API).  The page operates on the audit row and *)
(* calls _query_apply_audit_call_back in one transaction; the API commits  *)
(* statement by statement, and so does the call-back after a submission.   *)
(* The call-back inserts privileges without looking for earlier ones.      *)
(*                                                                         *)
(* Applications are never decided automatically (is_auto_reject and        *)
(* is_auto_review return False for them).  Abstracted: the databases or    *)
(* tables asked for are inserted by one bulk_create, so `grants' counts    *)
(* such batches.                                                           *)
(***************************************************************************)
EXTENDS AuditV2

CONSTANTS
    Requests,      \* web requests in progress at the same time
    Actions,       \* values of audit_status that users post to query_priv_audit
    Ops,           \* the operations users call
    MaxRequests,   \* bound: requests begun altogether
    MaxCrashes     \* bound: requests killed in the middle

Operations == {"apply", "audit", "api_pass", "api_cancel"}

ASSUME ApplyAssumption ==
    /\ Actions \subseteq WorkflowAction
    /\ Ops \subseteq Operations
    /\ MaxRequests \in Nat
    /\ MaxCrashes \in Nat

VARIABLES
    apply,      \* status of the query_privileges_apply row
    audit,      \* its workflow_audit row
    grants,     \* batches of privileges inserted for it
    req, begun, crashes,
    approved    \* history: groups that approved in their turn

vars == <<apply, audit, grants, req, begun, crashes, approved>>

NoAudit == [status |-> "REJECTED", current |-> NoGroup, next |-> NoGroup]

Pcs == {"idle", "callBack", "audit", "api", "grant", "error"}

Request == [pc : Pcs, actor : Users, action : WorkflowAction, audit : WorkflowAudit]

Idle == [pc |-> "idle", actor |-> CreateUser, action |-> "PASS", audit |-> NoAudit]

TypeOK ==
    /\ apply \in WorkflowStatus \cup {"none"}
    /\ audit \in WorkflowAudit
    /\ grants \in Nat
    /\ req \in [Requests -> Request]
    /\ begun \in 0 .. MaxRequests
    /\ crashes \in 0 .. MaxCrashes
    /\ approved \subseteq Groups

Init ==
    /\ apply = "none"
    /\ audit = NoAudit
    /\ grants = 0
    /\ req = [r \in Requests |-> Idle]
    /\ begun = 0
    /\ crashes = 0
    /\ approved = {}

----------------------------------------------------------------------------
Begin(r, op) ==
    /\ op \in Ops
    /\ req[r].pc = "idle"
    /\ begun < MaxRequests
    /\ begun' = begun + 1
    /\ UNCHANGED crashes

Continue(r, pc) ==
    /\ req[r].pc = pc
    /\ UNCHANGED <<begun, crashes>>

Goto(r, state) == req' = [req EXCEPT ![r] = state]

\* query_priv_apply: row and audit row in one transaction.
Apply(r) ==
    /\ Begin(r, "apply")
    /\ apply = "none"
    /\ apply' = "WAITING"
    /\ audit' = CreateAudit("none")
    /\ Goto(r, [Idle EXCEPT !.pc = "callBack", !.audit = audit'])
    /\ UNCHANGED <<grants, approved>>

\* _query_apply_audit_call_back outside a transaction, from the status the
\* request holds in memory: the row first, the privileges later.
CallBack(r) ==
    /\ Continue(r, "callBack")
    /\ apply' = req[r].audit.status
    /\ Goto(r, IF apply' = "PASSED" THEN [req[r] EXCEPT !.pc = "grant"] ELSE Idle)
    /\ UNCHANGED <<audit, grants, approved>>

Grant(r) ==
    /\ Continue(r, "grant")
    /\ grants' = grants + 1
    /\ Goto(r, Idle)
    /\ UNCHANGED <<apply, audit, approved>>

----------------------------------------------------------------------------
\* query_priv_audit: get_auditor reads the audit row before the transaction.
AuditBegin(r) ==
    /\ Begin(r, "audit")
    /\ apply # "none"
    /\ \E actor \in Reviewers, action \in Actions :
         Goto(r, [pc |-> "audit", actor |-> actor, action |-> action, audit |-> audit])
    /\ UNCHANGED <<apply, audit, grants, approved>>

\* The copy of the audit row after the operation.
Operated(r) == Operate(req[r].audit, req[r].action)

SaveAudit(r) ==
    /\ CanOperate(req[r].audit, req[r].action, req[r].actor)
    /\ audit' = Operated(r)
    /\ approved' = IF req[r].action = "PASS"
                   THEN approved \cup {req[r].audit.current}
                   ELSE approved

\* Mutant: the call-back is outside the transaction.
AuditOperateOutside(r) ==
    /\ Continue(r, "audit")
    /\ SaveAudit(r)
    /\ Goto(r, [req[r] EXCEPT !.pc = "callBack", !.audit = audit'])
    /\ UNCHANGED <<apply, grants>>

\* Mutant: every PASS inserts the privileges.
AuditOperateEveryPass(r) ==
    /\ Continue(r, "audit")
    /\ SaveAudit(r)
    /\ apply' = Operated(r).status
    /\ grants' = IF req[r].action = "PASS" THEN grants + 1 ELSE grants
    /\ Goto(r, Idle)

\* Mutant: the application's own row is not saved.
AuditOperateNoStatus(r) ==
    /\ Continue(r, "audit")
    /\ SaveAudit(r)
    /\ grants' = IF Operated(r).status = "PASSED" THEN grants + 1 ELSE grants
    /\ Goto(r, Idle)
    /\ UNCHANGED apply

\* The operation and the call-back in one transaction.
AuditOperate(r) ==
    /\ Continue(r, "audit")
    /\ SaveAudit(r)
    /\ apply' = Operated(r).status
    /\ grants' = IF apply' = "PASSED" THEN grants + 1 ELSE grants
    /\ Goto(r, Idle)

----------------------------------------------------------------------------
\* AuditWorkflow.post reads the audit row.
ApiBegin(r) ==
    /\ Begin(r, "api_pass")
    /\ apply # "none"
    /\ \E actor \in Users :
         Goto(r, [pc |-> "api", actor |-> actor, action |-> "PASS", audit |-> audit])
    /\ UNCHANGED <<apply, audit, grants, approved>>

ApiOperate(r) ==
    /\ Continue(r, "api")
    /\ SaveAudit(r)
    /\ Goto(r, [req[r] EXCEPT !.pc = "callBack", !.audit = audit'])
    /\ UNCHANGED <<apply, grants>>

\* audit_type "cancel" asks for auditor.workflow.engineer, an attribute that only
\* SqlWorkflow has: AttributeError, an internal server error.
ApiCancel(r) ==
    /\ Begin(r, "api_cancel")
    /\ apply # "none"
    /\ Goto(r, [Idle EXCEPT !.pc = "error"])
    /\ UNCHANGED <<apply, audit, grants, approved>>

\* An AuditException, or the response to an error.
Refused(r) ==
    /\ \/ /\ req[r].pc \in {"audit", "api"}
          /\ ~CanOperate(req[r].audit, req[r].action, req[r].actor)
       \/ req[r].pc = "error"
    /\ Goto(r, Idle)
    /\ UNCHANGED <<apply, audit, grants, begun, crashes, approved>>

\* The web server's process dies.
RequestDies(r) ==
    /\ req[r].pc # "idle"
    /\ crashes < MaxCrashes
    /\ crashes' = crashes + 1
    /\ Goto(r, Idle)
    /\ UNCHANGED <<apply, audit, grants, begun, approved>>

----------------------------------------------------------------------------
Proceed(r) ==
    \/ CallBack(r) \/ Grant(r)
    \/ AuditOperate(r) \/ ApiOperate(r) \/ Refused(r)

Next ==
    \E r \in Requests :
        \/ Apply(r) \/ AuditBegin(r) \/ ApiBegin(r) \/ ApiCancel(r)
        \/ Proceed(r)
        \/ RequestDies(r)

Spec == Init /\ [][Next]_vars

----------------------------------------------------------------------------
(***************************************************************************)
(* Properties.                                                             *)
(***************************************************************************)
ChainApproved == Approved("none", approved)

\* Privileges are inserted, and the application is shown as passed, only after
\* every group of the chain approved: for stale copies, overlapping requests,
\* any posted action and crashes.
GrantedOnlyApproved == grants > 0 \/ apply = "PASSED" => ChainApproved

\* What makes it inductive: the row and all copies follow the chain, and a
\* request that is about to insert privileges holds a copy that has passed.
Backed ==
    /\ ChainFollowed(audit, "none", approved)
    /\ GrantedOnlyApproved
    /\ \A r \in Requests :
         /\ ChainFollowed(req[r].audit, "none", approved)
         /\ req[r].pc = "grant" => ChainApproved

\* With requests one at a time the privileges are inserted once, whatever
\* is approved, rejected or withdrawn later.
GrantedOnce == grants <= 1

\* Between requests, the application's row and its audit row agree.
StatusAgrees ==
    (\A r \in Requests : req[r].pc = "idle") /\ apply # "none" => apply = audit.status

\* AuditWorkflow's docstring: it reviews, passes or cancels applications for
\* query privileges, too.
CancelIsServed == \A r \in Requests : req[r].pc # "error"

=============================================================================
