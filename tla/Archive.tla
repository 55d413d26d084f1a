------------------------------ MODULE Archive ------------------------------
(***************************************************************************)
(* One archive configuration (sql/archiver.py, and the archive parts of    *)
(* AuditWorkflow and ExecuteWorkflow of the REST API): it is submitted,    *)
(* reviewed, switched on and off, and run by the task queue.  Two columns  *)
(* of its row, status and state, decide together whether the periodic      *)
(* scheduling picks it up; the page of a review saves the whole row it     *)
(* read before, the others only columns.                                   *)
(*                                                                         *)
(* Abstracted: archive() is one step, which looks at neither column; what  *)
(* pt-archiver does, the log and last_archive_time are left out.  The      *)
(* periodic schedule that calls add_archive_task is the administrator's.   *)
(* Applications are never decided automatically.                           *)
(***************************************************************************)
EXTENDS AuditV2

CONSTANTS
    Requests,      \* web requests in progress at the same time
    Actions,       \* values of audit_status that users post to archive_audit
    Ops,           \* the operations users call
    MaxRequests,   \* bound: reviews begun altogether
    MaxCrashes,    \* bound: requests and scheduled runs killed in the middle
    MaxPicked,     \* bound: runs of add_archive_task that have picked the row
    MaxQueued      \* bound: tasks of a kind in the queue

Operations == {"audit", "api_pass", "api_cancel", "switch", "once"}

ASSUME ArchiveAssumption ==
    /\ Actions \subseteq WorkflowAction
    /\ Ops \subseteq Operations
    /\ MaxRequests \in Nat
    /\ MaxCrashes \in Nat
    /\ MaxPicked \in Nat \ {0}
    /\ MaxQueued \in Nat \ {0}

VARIABLES
    config,     \* the archive_config row
    audit,      \* its workflow_audit row
    picked,     \* runs of add_archive_task that have read the row, and are to queue it
    queued,     \* tasks sql.archiver.archive in the queue
    ran,        \* kinds of task that have run
    req, begun, crashes,
    approved,   \* history: groups that approved in their turn
    off         \* history: switched off, and neither switched on nor passed since

vars == <<config, audit, picked, queued, ran, req, begun, crashes, approved, off>>

\* add_archive_task, or archive_once and ExecuteWorkflow.
Kinds == {"periodic", "once"}

Config == [status : WorkflowStatus, state : BOOLEAN]

NoAudit == [status |-> "REJECTED", current |-> NoGroup, next |-> NoGroup]

\* Status none: nothing has been submitted.
NoConfig == [status |-> "none", state |-> FALSE]

Pcs == {"idle", "audit", "api", "save", "error"}

\* `state' is the column as archive_audit read it.
Request == [pc : Pcs, actor : Users, action : WorkflowAction, audit : WorkflowAudit, state : BOOLEAN]

Idle == [pc |-> "idle", actor |-> CreateUser, action |-> "PASS", audit |-> NoAudit, state |-> FALSE]

TypeOK ==
    /\ config \in Config \cup {NoConfig}
    /\ audit \in WorkflowAudit
    /\ picked \in 0 .. MaxPicked
    /\ queued \in [Kinds -> 0 .. MaxQueued]
    /\ ran \subseteq Kinds
    /\ req \in [Requests -> Request]
    /\ begun \in 0 .. MaxRequests
    /\ crashes \in 0 .. MaxCrashes
    /\ approved \subseteq Groups
    /\ off \in BOOLEAN

Init ==
    /\ config = NoConfig
    /\ audit = NoAudit
    /\ picked = 0
    /\ queued = [k \in Kinds |-> 0]
    /\ ran = {}
    /\ req = [r \in Requests |-> Idle]
    /\ begun = 0
    /\ crashes = 0
    /\ approved = {}
    /\ off = FALSE

Submitted == config # NoConfig

----------------------------------------------------------------------------
Begin(r, op) ==
    /\ op \in Ops
    /\ Submitted
    /\ req[r].pc = "idle"
    /\ begun < MaxRequests
    /\ begun' = begun + 1
    /\ UNCHANGED crashes

Continue(r, pc) ==
    /\ req[r].pc = pc
    /\ UNCHANGED <<begun, crashes>>

Goto(r, state) == req' = [req EXCEPT ![r] = state]

\* archive_apply: row and audit row in one transaction, switched on with a pass.
Apply ==
    /\ ~Submitted
    /\ audit' = CreateAudit("none")
    /\ config' = [status |-> audit'.status, state |-> audit'.status = "PASSED"]
    /\ UNCHANGED <<picked, queued, ran, req, begun, crashes, approved, off>>

----------------------------------------------------------------------------
\* archive_audit reads the configuration and the audit row, before the
\* transaction.
AuditBegin(r) ==
    /\ Begin(r, "audit")
    /\ \E actor \in Reviewers, action \in Actions :
         Goto(r, [pc |-> "audit", actor |-> actor, action |-> action,
                  audit |-> audit, state |-> config.state])
    /\ UNCHANGED <<config, audit, picked, queued, ran, approved, off>>

\* The copy of the audit row after the operation.
Operated(r) == Operate(req[r].audit, req[r].action)

SaveAudit(r) ==
    /\ CanOperate(req[r].audit, req[r].action, req[r].actor)
    /\ audit' = Operated(r)
    /\ approved' = IF req[r].action = "PASS"
                   THEN approved \cup {req[r].audit.current}
                   ELSE approved

\* Mutant: the status is left to the API.
AuditOperateNoStatus(r) ==
    /\ Continue(r, "audit")
    /\ SaveAudit(r)
    /\ config' = [config EXCEPT !.state = audit'.status = "PASSED" \/ req[r].state]
    /\ off' = (off /\ ~(audit'.status = "PASSED" /\ req[r].action = "PASS"))
    /\ Goto(r, Idle)
    /\ UNCHANGED <<picked, queued, ran>>

\* The operation, and the whole row from the copy, in one transaction: state is
\* set by a pass and otherwise put back as it was read.
AuditOperate(r) ==
    /\ Continue(r, "audit")
    /\ SaveAudit(r)
    /\ config' = [status |-> audit'.status,
                  state  |-> audit'.status = "PASSED" \/ req[r].state]
    /\ off' = (off /\ ~(audit'.status = "PASSED" /\ req[r].action = "PASS"))
    /\ Goto(r, Idle)
    /\ UNCHANGED <<picked, queued, ran>>

----------------------------------------------------------------------------
\* AuditWorkflow.post reads the audit row; then it operates and saves the two
\* columns, one statement after the other.
ApiBegin(r) ==
    /\ Begin(r, "api_pass")
    /\ \E actor \in Users :
         Goto(r, [pc |-> "api", actor |-> actor, action |-> "PASS",
                  audit |-> audit, state |-> FALSE])
    /\ UNCHANGED <<config, audit, picked, queued, ran, approved, off>>

ApiOperate(r) ==
    /\ Continue(r, "api")
    /\ SaveAudit(r)
    /\ Goto(r, [req[r] EXCEPT !.pc = "save", !.audit = audit'])
    /\ UNCHANGED <<config, picked, queued, ran, off>>

\* Mutant: the API does not switch the configuration on.
ApiSaveNoState(r) ==
    /\ Continue(r, "save")
    /\ config' = [config EXCEPT !.status = req[r].audit.status]
    /\ off' = (off /\ req[r].audit.status # "PASSED")
    /\ Goto(r, Idle)
    /\ UNCHANGED <<audit, picked, queued, ran, approved>>

ApiSave(r) ==
    /\ Continue(r, "save")
    /\ config' = [status |-> req[r].audit.status,
                  state  |-> req[r].audit.status = "PASSED"]
    /\ off' = (off /\ ~config'.state)
    /\ Goto(r, Idle)
    /\ UNCHANGED <<audit, picked, queued, ran, approved>>

\* audit_type "cancel" asks for auditor.workflow.engineer, which an ArchiveConfig
\* does not have: AttributeError.
ApiCancel(r) ==
    /\ Begin(r, "api_cancel")
    /\ Goto(r, [Idle EXCEPT !.pc = "error"])
    /\ UNCHANGED <<config, audit, picked, queued, ran, approved, off>>

\* An AuditException, or the response to an error.
Refused(r) ==
    /\ \/ /\ req[r].pc \in {"audit", "api"}
          /\ ~CanOperate(req[r].audit, req[r].action, req[r].actor)
       \/ req[r].pc = "error"
    /\ Goto(r, Idle)
    /\ UNCHANGED <<config, audit, picked, queued, ran, begun, crashes, approved, off>>

\* The web server's process dies.
RequestDies(r) ==
    /\ req[r].pc # "idle"
    /\ crashes < MaxCrashes
    /\ crashes' = crashes + 1
    /\ Goto(r, Idle)
    /\ UNCHANGED <<config, audit, picked, queued, ran, begun, approved, off>>

----------------------------------------------------------------------------
\* archive_switch: one column, whatever the status.
Switch ==
    /\ "switch" \in Ops
    /\ Submitted
    /\ \E state \in BOOLEAN :
         /\ config' = [config EXCEPT !.state = state]
         /\ off' = ~state
    /\ UNCHANGED <<audit, picked, queued, ran, req, begun, crashes, approved>>

Enqueue(kind) ==
    /\ queued[kind] < MaxQueued
    /\ queued' = [queued EXCEPT ![kind] = @ + 1]
    /\ UNCHANGED <<config, audit, ran, req, begun, crashes, approved, off>>

\* archive_once and ExecuteWorkflow.post: without a look at the row.
ArchiveOnce == "once" \in Ops /\ Submitted /\ Enqueue("once") /\ UNCHANGED picked

PickRow ==
    /\ picked < MaxPicked
    /\ picked' = picked + 1
    /\ UNCHANGED <<config, audit, queued, ran, req, begun, crashes, approved, off>>

\* Mutant: the configuration need not have passed.
PickArchiveAnyStatus == config.state /\ PickRow

\* Mutant: the configuration need not be switched on.
PickArchiveAnyState == config.status = "PASSED" /\ PickRow

\* add_archive_task evaluates its query set of configurations that are to run.
PickArchive ==
    /\ config.status = "PASSED"
    /\ config.state
    /\ PickRow

\* Its loop comes to the configuration, and queues it whatever its row says by now.
AddArchiveTask ==
    /\ picked > 0
    /\ picked' = picked - 1
    /\ Enqueue("periodic")

\* The worker that runs add_archive_task dies before.
PickDies ==
    /\ picked > 0
    /\ crashes < MaxCrashes
    /\ picked' = picked - 1
    /\ crashes' = crashes + 1
    /\ UNCHANGED <<config, audit, queued, ran, req, begun, approved, off>>

\* A worker runs archive().
ArchiveRun(kind) ==
    /\ queued[kind] > 0
    /\ queued' = [queued EXCEPT ![kind] = @ - 1]
    /\ ran' = ran \cup {kind}
    /\ UNCHANGED <<config, audit, picked, req, begun, crashes, approved, off>>

----------------------------------------------------------------------------
Proceed(r) == AuditOperate(r) \/ ApiOperate(r) \/ ApiSave(r) \/ Refused(r)

Next ==
    \/ Apply \/ Switch \/ ArchiveOnce
    \/ PickArchive \/ AddArchiveTask \/ PickDies
    \/ \E kind \in Kinds : ArchiveRun(kind)
    \/ \E r \in Requests :
         \/ AuditBegin(r) \/ ApiBegin(r) \/ ApiCancel(r)
         \/ Proceed(r)
         \/ RequestDies(r)

Spec == Init /\ [][Next]_vars

----------------------------------------------------------------------------
(***************************************************************************)
(* Properties.                                                             *)
(***************************************************************************)
ChainApproved == Approved("none", approved)

\* The periodic scheduling queues and runs the archive only after every group of
\* the chain approved it: for stale copies of either row, overlapping reviews, any
\* posted action, crashes, whoever throws the switch, and rows that are queued long
\* after they were picked.
PeriodicOnlyApproved ==
    queued["periodic"] > 0 \/ "periodic" \in ran => ChainApproved

\* What makes it inductive: the audit row and all copies follow the chain, and
\* the status column says passed, and the row is picked, only when everybody approved.
Backed ==
    /\ ChainFollowed(audit, "none", approved)
    /\ \A r \in Requests : ChainFollowed(req[r].audit, "none", approved)
    /\ config.status = "PASSED" \/ picked > 0 => ChainApproved
    /\ PeriodicOnlyApproved

\* Whenever no request is between its two statements, the configuration shows
\* the status of its audit row.
StatusAgrees ==
    Submitted /\ (\A r \in Requests : req[r].pc # "save") => config.status = audit.status

=============================================================================
