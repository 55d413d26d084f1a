-------------------------- MODULE SqlWorkflowProofs -------------------------
(***************************************************************************)
(* Proofs about SqlWorkflow, for every chain of groups, every assignment   *)
(* of permissions, any number of concurrent requests and workers, any      *)
(* number of crashes, for releases and for exports; and, further down,     *)
(* about releases whose users act one at a time.                           *)
(***************************************************************************)
EXTENDS SqlWorkflow, AuditV2Proofs, SequenceTheorems

IInv == TypeOK /\ Backed

----------------------------------------------------------------------------
(***************************************************************************)
(* Records.                                                                *)
(***************************************************************************)
LEMMA RowUpdates ==
    ASSUME NEW row \in Row
    PROVE  /\ \A s \in Status : /\ [row EXCEPT !.status = s] \in Row
                                /\ [row EXCEPT !.status = s].status = s
           /\ \A v \in Windows : /\ [row EXCEPT !.window = v] \in Row
                                 /\ [row EXCEPT !.window = v].status = row.status
BY DEF Row

\* The values there are before there is anything.
LEMMA NothingType == NoRow \in Row /\ NoSchedule \in Schedule /\ 0 \in Times
<1>1. AnyWindow \in Windows
  BY InstanceAssumption DEF AnyWindow
<1>2. 0 \in Times
  BY InstanceAssumption DEF Times
<1> QED BY <1>1, <1>2 DEF NoRow, Row, Status, NoSchedule, Schedule

LEMMA NewType == \A pc \in Pcs : New(pc) \in Request
<1>1. NoAudit \in WorkflowAudit
  BY DEF NoAudit, WorkflowAudit, WorkflowStatus
<1> QED BY <1>1, NothingType, UsersAssumption DEF New, Request

\* A request that keeps no copy is backed when its step is.
LEMMA NewBacked ==
    ASSUME NEW pc \in Pcs \ {"submit"}, NEW decision, NEW done,
           pc \in ReleaseSteps => Approved(decision, done)
    PROVE  RequestBacked(New(pc), decision, done)
BY DEF RequestBacked, New, NoRow, NoAudit, ChainFollowed, Released

LEMMA NewFields ==
    ASSUME NEW pc
    PROVE  /\ New(pc).pc = pc
           /\ New(pc).row = NoRow
           /\ New(pc).audit = NoAudit
           /\ NoRow.status \notin Released
           /\ \A decision, done : ChainFollowed(NoAudit, decision, done)
BY DEF New, NoRow, NoAudit, ChainFollowed, Released

----------------------------------------------------------------------------
LEMMA InitIInv == Init => IInv
<1> SUFFICES ASSUME Init PROVE IInv
  OBVIOUS
<1>1. /\ Idle \in Request /\ NoRow \in Row /\ NoAudit \in WorkflowAudit
      /\ NoSchedule \in Schedule /\ 0 \in Times
  BY NewType, NothingType DEF Idle, Pcs, NoAudit, WorkflowAudit, WorkflowStatus
<1>2. TypeOK
  <2>1. <<>> \in Seq(Outcome)
    OBVIOUS
  <2>2. worker \in [Workers -> [pc : {"idle", "running", "exporting"}, row : Row]]
    BY <1>1 DEF Init, Free
  <2>3. monitor \in [pc : {"idle", "save"}, outcome : Outcome, row : Row]
    BY <1>1 DEF Init, Outcome
  <2>4. req \in [Requests -> Request] /\ begun \in 0 .. MaxRequests /\ crashes \in 0 .. MaxCrashes
    BY <1>1, InstanceAssumption DEF Init
  <2>5. results \in Seq(Outcome)
    BY <2>1 DEF Init
  <2> QED BY <1>1, <2>2, <2>3, <2>4, <2>5 DEF Init, TypeOK, AutoReview
<1>3. Backed
  <2>1. \A r \in Requests : RequestBacked(req[r], auto, approved)
    BY NewBacked DEF Init, Idle, Pcs, ReleaseSteps
  <2> QED BY <2>1 DEF Init, Backed, ChainFollowed, NoAudit, OnlyApprovedRuns, NoRow, Released,
                      ProcessBacked, Free, NothingYet
<1> QED BY <1>2, <1>3 DEF IInv

----------------------------------------------------------------------------
(***************************************************************************)
(* The steps of a request.  Whatever it does, it changes its own state x,  *)
(* perhaps the three rows, and of the cluster only the length of the queue.*)
(***************************************************************************)
RequestFrame(r, x) ==
    /\ req' = [req EXCEPT ![r] = x]
    /\ workflow.status # "none"
    /\ schedule' \in Schedule
    /\ queued' \in Nat
    /\ begun' \in 0 .. MaxRequests
    /\ crashes' \in 0 .. MaxCrashes
    /\ now' \in Times
    /\ granted' \in BOOLEAN
    /\ UNCHANGED <<worker, results, monitor, auto, runs>>

\* What was backed stays backed when approvals are added.
LEMMA BackedGrows ==
    ASSUME NEW x, NEW decision, NEW done, NEW more, done \subseteq more
    PROVE  /\ Approved(decision, done) => Approved(decision, more)
           /\ RequestBacked(x, decision, done) => RequestBacked(x, decision, more)
           /\ ProcessBacked(x, decision, done) => ProcessBacked(x, decision, more)
BY FollowedGrows DEF RequestBacked, ProcessBacked, Approved

LEMMA RequestStep ==
    ASSUME IInv, NEW r \in Requests, NEW x \in Request, RequestFrame(r, x),
           approved \subseteq approved', approved' \subseteq Groups,
           RequestBacked(x, auto, approved'),
           workflow' \in Row, workflow'.status # "none",
           workflow'.status \in Released => Approved(auto, approved'),
           audit' \in WorkflowAudit, ChainFollowed(audit', auto, approved')
    PROVE  IInv'
<1>1. TypeOK'
  BY DEF IInv, TypeOK, RequestFrame
<1>2. ASSUME NEW q \in Requests PROVE RequestBacked(req'[q], auto', approved')
  <2>1. CASE q = r
    BY <2>1 DEF IInv, TypeOK, RequestFrame
  <2>2. CASE q # r
    <3>1. req'[q] = req[q] /\ RequestBacked(req[q], auto, approved)
      BY <2>2 DEF IInv, TypeOK, RequestFrame, Backed
    <3> QED BY <3>1, BackedGrows DEF RequestFrame
  <2> QED BY <2>1, <2>2
<1>3. ASSUME NEW w \in Workers PROVE ProcessBacked(worker'[w], auto', approved')
  BY BackedGrows DEF IInv, Backed, RequestFrame
<1>4. ProcessBacked(monitor', auto', approved')
  BY BackedGrows DEF IInv, Backed, RequestFrame
<1>5. OnlyApprovedRuns'
  BY BackedGrows DEF IInv, Backed, RequestFrame, OnlyApprovedRuns, ChainApproved
<1>6. ChainFollowed(audit', auto', approved')
  BY DEF RequestFrame
<1> QED BY <1>1, <1>2, <1>3, <1>4, <1>5, <1>6 DEF IInv, Backed

\* It reads, checks or writes nothing but the schedule or the queue.
LEMMA RequestMoves ==
    ASSUME IInv, NEW r \in Requests, NEW x \in Request, RequestFrame(r, x),
           UNCHANGED <<workflow, audit, approved>>,
           RequestBacked(x, auto, approved)
    PROVE  IInv'
<1>1. /\ workflow' \in Row /\ workflow'.status # "none"
      /\ workflow'.status \in Released => Approved(auto, approved')
      /\ audit' \in WorkflowAudit /\ ChainFollowed(audit', auto, approved')
      /\ approved' \subseteq Groups
  BY DEF IInv, TypeOK, Backed, RequestFrame, OnlyApprovedRuns, ChainApproved
<1> QED BY <1>1, RequestStep

\* It saves the workflow row and changes nothing of the audit.
LEMMA RequestSaves ==
    ASSUME IInv, NEW r \in Requests, NEW x \in Request, RequestFrame(r, x),
           UNCHANGED <<audit, approved>>,
           RequestBacked(x, auto, approved),
           workflow' \in Row, workflow'.status # "none",
           workflow'.status \in Released => Approved(auto, approved)
    PROVE  IInv'
<1>1. /\ audit' \in WorkflowAudit /\ ChainFollowed(audit', auto, approved')
      /\ approved' \subseteq Groups
  BY DEF IInv, TypeOK, Backed
<1> QED BY <1>1, RequestStep

\* A request in progress means that the workflow was submitted; what it keeps is
\* typed and backed.
LEMMA InProgress ==
    ASSUME IInv, NEW r \in Requests
    PROVE  /\ req[r] \in Request
           /\ req[r].row \in Row /\ req[r].audit \in WorkflowAudit
           /\ req[r].actor \in Users /\ req[r].action \in {"PASS", "REJECT", "ABORT"}
           /\ RequestBacked(req[r], auto, approved)
           /\ req[r].pc # "idle" => workflow.status # "none"
           /\ workflow \in Row /\ audit \in WorkflowAudit
           /\ ChainFollowed(audit, auto, approved)
           /\ workflow.status \in Released => Approved(auto, approved)
<1>1. req[r] \in Request /\ RequestBacked(req[r], auto, approved)
  BY DEF IInv, TypeOK, Backed
<1>2. req[r].pc # "idle" => workflow.status # "none"
  BY NewFields DEF IInv, Backed, NothingYet, Idle
<1> QED BY <1>1, <1>2 DEF IInv, TypeOK, Backed, OnlyApprovedRuns, ChainApproved, Request

----------------------------------------------------------------------------
(***************************************************************************)
(* The request steps that only read.                                       *)
(***************************************************************************)
LEMMA BeginReads ==
    ASSUME IInv, NEW r \in Requests, NEW op, Begin(r, op), NEW x \in Request, Goto(r, x),
           UNCHANGED <<rows, history>>, RequestBacked(x, auto, approved)
    PROVE  IInv'
<1>1. begun' \in 0 .. MaxRequests
  BY InstanceAssumption DEF IInv, TypeOK, Begin
<1>2. workflow.status # "none" /\ UNCHANGED <<rows, cluster, crashes, now, history>>
  BY DEF Begin
<1>3. RequestFrame(r, x)
  BY <1>1, <1>2 DEF IInv, TypeOK, Goto, RequestFrame, rows, cluster, history
<1> QED BY <1>3, RequestMoves DEF rows, history

LEMMA ContinueReads ==
    ASSUME IInv, NEW r \in Requests, req[r].pc # "idle", NEW x \in Request, Goto(r, x),
           UNCHANGED <<rows, cluster, begun, crashes, now, history>>,
           RequestBacked(x, auto, approved)
    PROVE  IInv'
<1>1. RequestFrame(r, x)
  BY InProgress DEF IInv, TypeOK, Goto, RequestFrame, rows, cluster, history
<1> QED BY <1>1, RequestMoves DEF rows, history

LEMMA IdleBacked ==
    /\ Idle \in Request
    /\ \A decision, done : RequestBacked(Idle, decision, done)
BY NewType, NewBacked DEF Idle, Pcs, ReleaseSteps

LEMMA RequestReads ==
    ASSUME IInv, NEW r \in Requests,
           \/ PassedBegin(r) \/ PassedAuditor(r)
           \/ CancelBegin(r) \/ CancelCheck(r) \/ CancelAuditor(r)
           \/ TimingBegin(r) \/ TimingCheck(r)
           \/ ExecuteBegin(r) \/ ExecuteWindow(r)
           \/ AlterBegin(r) \/ ApiBegin(r) \/ ApiWorkflow(r)
           \/ OperateRefused(r)
    PROVE  IInv'
<1>p. /\ {"idle", "passedAuditor", "passedOperate", "cancelCheck", "cancelAuditor",
          "cancelOperate", "timingCheck", "timingSave", "executeWindow", "executeQueue",
          "executeManual", "alterSave", "apiWorkflow", "apiOperate"} \subseteq Pcs \ {"submit"}
      /\ {"idle", "passedAuditor", "passedOperate", "cancelCheck", "cancelAuditor",
          "cancelOperate", "timingCheck", "alterSave", "apiWorkflow", "apiOperate"}
            \cap ReleaseSteps = {}
      /\ Reviewers \subseteq Users
  BY UsersAssumption DEF Pcs, ReleaseSteps
<1>i. /\ req[r] \in Request
      /\ req[r].row \in Row /\ req[r].audit \in WorkflowAudit
      /\ req[r].actor \in Users
      /\ RequestBacked(req[r], auto, approved)
      /\ workflow \in Row /\ audit \in WorkflowAudit
      /\ ChainFollowed(audit, auto, approved)
      /\ workflow.status \in Released => Approved(auto, approved)
  BY InProgress
<1>t. req[r] \in Request /\ workflow \in Row /\ audit \in WorkflowAudit /\ Reviewers \subseteq Users
  BY <1>p, <1>i
<1>e. Executable \subseteq Released
  BY DEF Executable, Released
<1>1. CASE PassedBegin(r)
  <2>1. PICK actor \in Reviewers :
          Goto(r, [New("passedAuditor") EXCEPT !.actor = actor, !.row = workflow])
    BY <1>1 DEF PassedBegin
  <2> DEFINE x == [New("passedAuditor") EXCEPT !.actor = actor, !.row = workflow]
  <2>n. /\ New("passedAuditor") \in Request /\ New("passedAuditor").pc = "passedAuditor"
        /\ New("passedAuditor").row = NoRow /\ New("passedAuditor").audit = NoAudit
    BY <1>p, NewType, NewFields
  <2>2. x \in Request /\ x.pc = "passedAuditor" /\ x.row = workflow /\ x.audit = NoAudit
    BY <1>t, <2>n DEF Request
  <2> HIDE DEF x
  <2>3. RequestBacked(x, auto, approved)
    BY <1>p, <1>i, <2>2, NewFields DEF RequestBacked
  <2>4. Goto(r, x) /\ Begin(r, "passed") /\ UNCHANGED <<rows, history>>
    BY <1>1, <2>1 DEF PassedBegin, x
  <2> QED BY <2>2, <2>3, <2>4, BeginReads
<1>2. CASE PassedAuditor(r)
  <2> DEFINE x == [req[r] EXCEPT !.pc = "passedOperate", !.audit = audit]
  <2>2. x \in Request /\ x.pc = "passedOperate" /\ x.row = req[r].row /\ x.audit = audit
    BY <1>t DEF Request, Pcs
  <2>4. /\ Goto(r, x) /\ req[r].pc # "idle"
        /\ UNCHANGED <<rows, cluster, begun, crashes, now, history>>
    BY <1>2 DEF PassedAuditor, Continue
  <2> HIDE DEF x
  <2>3. RequestBacked(x, auto, approved)
    BY <1>p, <1>i, <2>2 DEF RequestBacked
  <2> QED BY <2>2, <2>3, <2>4, ContinueReads
<1>3. CASE CancelBegin(r)
  <2>1. PICK actor \in Users :
          Goto(r, [New("cancelCheck") EXCEPT !.actor = actor, !.row = workflow])
    BY <1>3 DEF CancelBegin
  <2> DEFINE x == [New("cancelCheck") EXCEPT !.actor = actor, !.row = workflow]
  <2>n. /\ New("cancelCheck") \in Request /\ New("cancelCheck").pc = "cancelCheck"
        /\ New("cancelCheck").row = NoRow /\ New("cancelCheck").audit = NoAudit
    BY <1>p, NewType, NewFields
  <2>2. x \in Request /\ x.pc = "cancelCheck" /\ x.row = workflow /\ x.audit = NoAudit
    BY <1>t, <2>n DEF Request
  <2> HIDE DEF x
  <2>3. RequestBacked(x, auto, approved)
    BY <1>p, <1>i, <2>2, NewFields DEF RequestBacked
  <2>4. Goto(r, x) /\ Begin(r, "cancel") /\ UNCHANGED <<rows, history>>
    BY <1>3, <2>1 DEF CancelBegin, x
  <2> QED BY <2>2, <2>3, <2>4, BeginReads
<1>4. CASE CancelCheck(r)
  <2>1. req[r].pc # "idle" /\ UNCHANGED <<rows, cluster, begun, crashes, now, history>>
    BY <1>4 DEF CancelCheck, Continue
  <2>2. CASE Goto(r, Idle)
    BY <2>1, <2>2, IdleBacked, ContinueReads
  <2>3. ASSUME NEW action \in {"PASS", "REJECT", "ABORT"},
               Goto(r, [req[r] EXCEPT !.pc = "cancelAuditor", !.action = action])
        PROVE  IInv'
    <3> DEFINE x == [req[r] EXCEPT !.pc = "cancelAuditor", !.action = action]
    <3>1. x \in Request /\ x.pc = "cancelAuditor" /\ x.row = req[r].row /\ x.audit = req[r].audit
      BY <1>t DEF Request, Pcs
    <3>2. Goto(r, x)
      BY <2>3
    <3> HIDE DEF x
    <3>3. RequestBacked(x, auto, approved)
      BY <1>p, <1>i, <3>1 DEF RequestBacked
    <3> QED BY <2>1, <3>1, <3>2, <3>3, ContinueReads
  <2>4. \/ Goto(r, Idle)
        \/ \E action \in {"PASS", "REJECT", "ABORT"} :
             Goto(r, [req[r] EXCEPT !.pc = "cancelAuditor", !.action = action])
    BY <1>4 DEF CancelCheck, Done
  <2> QED BY <2>2, <2>3, <2>4
<1>5. CASE CancelAuditor(r)
  <2> DEFINE x == [req[r] EXCEPT !.pc = "cancelOperate", !.audit = audit]
  <2>2. x \in Request /\ x.pc = "cancelOperate" /\ x.row = req[r].row /\ x.audit = audit
    BY <1>t DEF Request, Pcs
  <2>4. /\ Goto(r, x) /\ req[r].pc # "idle"
        /\ UNCHANGED <<rows, cluster, begun, crashes, now, history>>
    BY <1>5 DEF CancelAuditor, Continue
  <2> HIDE DEF x
  <2>3. RequestBacked(x, auto, approved)
    BY <1>p, <1>i, <2>2 DEF RequestBacked
  <2> QED BY <2>2, <2>3, <2>4, ContinueReads
<1>6. CASE TimingBegin(r)
  <2>1. PICK date \in now .. MaxNow :
          Goto(r, [New("timingCheck") EXCEPT !.row = workflow, !.date = date])
    BY <1>6 DEF TimingBegin
  <2>d. date \in Times
    BY InstanceAssumption DEF IInv, TypeOK, Times
  <2> DEFINE x == [New("timingCheck") EXCEPT !.row = workflow, !.date = date]
  <2>n. /\ New("timingCheck") \in Request /\ New("timingCheck").pc = "timingCheck"
        /\ New("timingCheck").row = NoRow /\ New("timingCheck").audit = NoAudit
    BY <1>p, NewType, NewFields
  <2>2. x \in Request /\ x.pc = "timingCheck" /\ x.row = workflow /\ x.audit = NoAudit
    BY <1>t, <2>d, <2>n DEF Request
  <2>4. Goto(r, x) /\ Begin(r, "timing_task") /\ UNCHANGED <<rows, history>>
    BY <1>6, <2>1 DEF TimingBegin
  <2> HIDE DEF x
  <2>3. RequestBacked(x, auto, approved)
    BY <1>p, <1>i, <2>2, NewFields DEF RequestBacked
  <2> QED BY <2>2, <2>3, <2>4, BeginReads
<1>7. CASE TimingCheck(r)
  <2>1. req[r].pc # "idle" /\ UNCHANGED <<rows, cluster, begun, crashes, now, history>>
    BY <1>7 DEF TimingCheck, Continue
  <2>2. CASE workflow.status \in Executable /\ OnCorrectTimePeriod(req[r].date)
    <3> DEFINE x == [req[r] EXCEPT !.pc = "timingSave"]
    <3>1. x \in Request /\ x.pc = "timingSave" /\ x.row = req[r].row /\ x.audit = req[r].audit
      BY <1>t DEF Request, Pcs
    <3>2. Goto(r, x)
      BY <1>7, <2>2 DEF TimingCheck
    <3> HIDE DEF x
    <3>3. RequestBacked(x, auto, approved)
      BY <1>e, <1>i, <2>2, <3>1 DEF RequestBacked
    <3> QED BY <2>1, <3>1, <3>2, <3>3, ContinueReads
  <2>3. CASE ~(workflow.status \in Executable /\ OnCorrectTimePeriod(req[r].date))
    BY <1>7, <2>1, <2>3, IdleBacked, ContinueReads DEF TimingCheck, Done
  <2> QED BY <2>2, <2>3
<1>8. CASE ExecuteBegin(r)
  <2>1. RequestBacked(New("executeWindow"), auto, approved)
    BY <1>8, <1>p, <1>e, <1>i, NewBacked DEF ExecuteBegin
  <2> QED BY <1>8, <1>p, <2>1, NewType, BeginReads DEF ExecuteBegin
<1>9. CASE ExecuteWindow(r)
  <2>1. /\ req[r].pc = "executeWindow"
        /\ UNCHANGED <<rows, cluster, begun, crashes, now, history>>
        /\ \/ Goto(r, Idle)
           \/ \E pc \in {"executeQueue", "executeManual"} : Goto(r, New(pc))
    BY <1>9 DEF ExecuteWindow, Continue, Done
  <2>2. Approved(auto, approved)
    BY <1>i, <2>1 DEF RequestBacked, ReleaseSteps
  <2>3. \A pc \in {"executeQueue", "executeManual"} :
          New(pc) \in Request /\ RequestBacked(New(pc), auto, approved)
    BY <1>p, <2>2, NewBacked, NewType
  <2>4. req[r].pc # "idle"
    BY <2>1
  <2>5. CASE Goto(r, Idle)
    BY <2>1, <2>4, <2>5, IdleBacked, ContinueReads
  <2>6. ASSUME NEW pc \in {"executeQueue", "executeManual"}, Goto(r, New(pc))
        PROVE  IInv'
    <3>1. New(pc) \in Request /\ RequestBacked(New(pc), auto, approved)
      BY <2>3
    <3> QED BY <2>1, <2>4, <2>6, <3>1, ContinueReads
  <2> QED BY <2>1, <2>5, <2>6
<1>10. CASE AlterBegin(r)
  <2>1. RequestBacked(New("alterSave"), auto, approved)
    BY <1>p, NewBacked
  <2> QED BY <1>10, <1>p, <2>1, NewType, BeginReads DEF AlterBegin
<1>11. CASE ApiBegin(r)
  <2>1. PICK actor \in Users, action \in {"PASS", "ABORT"} :
          /\ Begin(r, IF action = "PASS" THEN "api_pass" ELSE "api_cancel")
          /\ Goto(r, [New("apiWorkflow") EXCEPT !.actor = actor, !.action = action,
                                               !.audit = audit])
    BY <1>11 DEF ApiBegin
  <2> DEFINE x == [New("apiWorkflow") EXCEPT !.actor = actor, !.action = action, !.audit = audit]
  <2>n. /\ New("apiWorkflow") \in Request /\ New("apiWorkflow").pc = "apiWorkflow"
        /\ New("apiWorkflow").row = NoRow /\ New("apiWorkflow").audit = NoAudit
    BY <1>p, NewType, NewFields
  <2>2. x \in Request /\ x.pc = "apiWorkflow" /\ x.row = NoRow /\ x.audit = audit
    BY <1>t, <2>n DEF Request
  <2> HIDE DEF x
  <2>3. RequestBacked(x, auto, approved)
    BY <1>p, <1>i, <2>2, NewFields DEF RequestBacked
  <2>4. /\ Goto(r, x) /\ UNCHANGED <<rows, history>>
        /\ Begin(r, IF action = "PASS" THEN "api_pass" ELSE "api_cancel")
    BY <1>11, <2>1 DEF ApiBegin, x
  <2> QED BY <2>2, <2>3, <2>4, BeginReads
<1>12. CASE ApiWorkflow(r)
  <2> DEFINE x == [req[r] EXCEPT !.pc = "apiOperate", !.row = workflow]
  <2>2. x \in Request /\ x.pc = "apiOperate" /\ x.row = workflow /\ x.audit = req[r].audit
    BY <1>t DEF Request, Pcs
  <2>4. /\ Goto(r, x) /\ req[r].pc # "idle"
        /\ UNCHANGED <<rows, cluster, begun, crashes, now, history>>
    BY <1>12 DEF ApiWorkflow, Continue
  <2> HIDE DEF x
  <2>3. RequestBacked(x, auto, approved)
    BY <1>p, <1>i, <2>2 DEF RequestBacked
  <2> QED BY <2>2, <2>3, <2>4, ContinueReads
<1>13. CASE OperateRefused(r)
  <2>1. req[r].pc # "idle"
    BY <1>13 DEF OperateRefused
  <2> QED BY <1>13, <2>1, IdleBacked, ContinueReads DEF OperateRefused, Done
<1> QED BY <1>1, <1>2, <1>3, <1>4, <1>5, <1>6, <1>7, <1>8, <1>9, <1>10, <1>11, <1>12, <1>13

----------------------------------------------------------------------------
(***************************************************************************)
(* The request steps that save the workflow row, the schedule or the queue.*)
(***************************************************************************)
LEMMA ContinueSaves ==
    ASSUME IInv, NEW r \in Requests, req[r].pc # "idle", NEW x \in Request, Goto(r, x),
           UNCHANGED <<audit, cluster, begun, crashes, now, auto, approved, runs>>,
           schedule' \in Schedule, granted' \in BOOLEAN,
           RequestBacked(x, auto, approved),
           workflow' \in Row, workflow'.status # "none",
           workflow'.status \in Released => Approved(auto, approved)
    PROVE  IInv'
<1>1. RequestFrame(r, x)
  BY InProgress DEF IInv, TypeOK, Goto, RequestFrame, cluster
<1> QED BY <1>1, RequestSaves

LEMMA RequestWrites ==
    ASSUME IInv, NEW r \in Requests,
           \/ SubmitStatus(r) \/ TimingSave(r)
           \/ ExecuteQueue(r) \/ ExecuteUnschedule(r) \/ ExecuteEnqueue(r) \/ ExecuteManual(r)
           \/ AlterSave(r)
           \/ ApiPassed(r) \/ ApiUnschedule(r) \/ ApiAborted(r)
    PROVE  IInv'
<1>i. /\ req[r].row \in Row /\ req[r].audit \in WorkflowAudit
      /\ RequestBacked(req[r], auto, approved)
      /\ workflow \in Row
      /\ workflow.status \in Released => Approved(auto, approved)
      /\ req[r].pc # "idle" => workflow.status # "none"
      /\ granted \in BOOLEAN /\ schedule \in Schedule /\ NoSchedule \in Schedule
      /\ req[r].date \in Times
  BY InProgress, NothingType DEF IInv, TypeOK, Request
<1>s. {"workflow_manreviewing", "workflow_autoreviewwrong", "workflow_review_pass",
       "workflow_timingtask", "workflow_queuing", "workflow_finish", "workflow_abort"}
          \subseteq Status \ {"none"}
  BY DEF Status, Released, Ended
<1>u. \A row \in Row, s \in Status :
         [row EXCEPT !.status = s] \in Row /\ [row EXCEPT !.status = s].status = s
  BY RowUpdates
<1>1. CASE SubmitStatus(r)
  <2>1. /\ req[r].pc = "submit" /\ req[r].pc # "idle" /\ Goto(r, Idle)
        /\ UNCHANGED <<audit, schedule, cluster, begun, crashes, now, history>>
        /\ workflow' = [req[r].row EXCEPT !.status =
                          CASE req[r].audit.status = "REJECTED" -> "workflow_autoreviewwrong"
                            [] req[r].audit.status = "PASSED"   -> "workflow_review_pass"
                            [] OTHER                            -> @]
    BY <1>1 DEF SubmitStatus, Continue, Done
  <2>2. /\ req[r].row.status = "workflow_manreviewing"
        /\ req[r].audit.status = "PASSED" => Approved(auto, approved)
    BY <1>i, <2>1 DEF RequestBacked, ChainFollowed
  <2>3. PICK s \in {"workflow_manreviewing", "workflow_autoreviewwrong", "workflow_review_pass"} :
           /\ workflow' = [req[r].row EXCEPT !.status = s]
           /\ s = "workflow_review_pass" => req[r].audit.status = "PASSED"
    BY <1>i, <2>1, <2>2
  <2>4. workflow' \in Row /\ workflow'.status = s /\ s # "none"
    BY <1>i, <1>s, <1>u, <2>3
  <2>5. s \in Released => Approved(auto, approved)
    BY <2>2, <2>3 DEF Released
  <2> QED BY <1>i, <2>1, <2>4, <2>5, IdleBacked, ContinueSaves DEF history
<1>2. CASE TimingSave(r)
  <2>1. /\ req[r].pc = "timingSave" /\ req[r].pc # "idle" /\ Goto(r, Idle)
        /\ UNCHANGED <<audit, cluster, begun, crashes, now, auto, approved, runs>>
        /\ schedule' = [state |-> "waiting", date |-> req[r].date] /\ granted' = TRUE
        /\ workflow' = [req[r].row EXCEPT !.status = "workflow_timingtask"]
    BY <1>2 DEF TimingSave, Continue, Done, Grant
  <2>2. Approved(auto, approved)
    BY <1>i, <2>1 DEF RequestBacked, ReleaseSteps
  <2>3. workflow' \in Row /\ workflow'.status = "workflow_timingtask"
    BY <1>i, <1>s, <1>u, <2>1
  <2>4. schedule' \in Schedule
    BY <1>i, <2>1 DEF Schedule
  <2> QED BY <2>1, <2>2, <2>3, <2>4, IdleBacked, ContinueSaves
<1>3. CASE ExecuteQueue(r)
  <2>1. /\ req[r].pc = "executeQueue" /\ req[r].pc # "idle" /\ Goto(r, New("executeUnschedule"))
        /\ UNCHANGED <<audit, schedule, cluster, begun, crashes, now, auto, approved, runs>>
        /\ granted' = TRUE
        /\ workflow' = [workflow EXCEPT !.status = "workflow_queuing"]
    BY <1>3 DEF ExecuteQueue, Continue, Grant
  <2>2. Approved(auto, approved)
    BY <1>i, <2>1 DEF RequestBacked, ReleaseSteps
  <2>3. workflow' \in Row /\ workflow'.status = "workflow_queuing"
    BY <1>i, <1>s, <1>u, <2>1
  <2>4. New("executeUnschedule") \in Request /\ RequestBacked(New("executeUnschedule"), auto, approved)
    BY <2>2, NewType, NewBacked DEF Pcs
  <2> QED BY <1>i, <2>1, <2>2, <2>3, <2>4, ContinueSaves
<1>4. CASE ExecuteUnschedule(r)
  <2>1. /\ req[r].pc = "executeUnschedule" /\ req[r].pc # "idle" /\ Goto(r, New("executeEnqueue"))
        /\ UNCHANGED <<workflow, audit, cluster, begun, crashes, now, history>>
        /\ schedule' = NoSchedule
    BY <1>4 DEF ExecuteUnschedule, Continue
  <2>2. Approved(auto, approved)
    BY <1>i, <2>1 DEF RequestBacked, ReleaseSteps
  <2>3. New("executeEnqueue") \in Request /\ RequestBacked(New("executeEnqueue"), auto, approved)
    BY <2>2, NewType, NewBacked DEF Pcs
  <2> QED BY <1>i, <2>1, <2>2, <2>3, ContinueSaves DEF history
<1>5. CASE ExecuteEnqueue(r)
  <2>1. /\ req[r].pc # "idle" /\ Goto(r, Idle)
        /\ UNCHANGED <<rows, worker, results, monitor, begun, crashes, now, history>>
        /\ queued' = queued + 1
    BY <1>5 DEF ExecuteEnqueue, Continue, Done
  <2>2. queued' \in Nat
    BY <2>1 DEF IInv, TypeOK
  <2>3. RequestFrame(r, Idle)
    BY <1>i, <2>1, <2>2 DEF IInv, TypeOK, RequestFrame, Goto, rows, history
  <2> QED BY <2>1, <2>3, IdleBacked, RequestMoves DEF rows, history
<1>6. CASE ExecuteManual(r)
  <2>1. /\ req[r].pc = "executeManual" /\ req[r].pc # "idle" /\ Goto(r, Idle)
        /\ UNCHANGED <<audit, schedule, cluster, begun, crashes, now, history>>
        /\ workflow' = [workflow EXCEPT !.status = "workflow_finish"]
    BY <1>6 DEF ExecuteManual, Continue, Done
  <2>2. Approved(auto, approved)
    BY <1>i, <2>1 DEF RequestBacked, ReleaseSteps
  <2>3. workflow' \in Row /\ workflow'.status = "workflow_finish"
    BY <1>i, <1>s, <1>u, <2>1
  <2> QED BY <1>i, <2>1, <2>2, <2>3, IdleBacked, ContinueSaves DEF history
<1>7. CASE AlterSave(r)
  <2>1. PICK window \in Windows : workflow' = [workflow EXCEPT !.window = window]
    BY <1>7 DEF AlterSave
  <2>2. /\ req[r].pc # "idle" /\ Goto(r, Idle)
        /\ UNCHANGED <<audit, schedule, cluster, begun, crashes, now, history>>
    BY <1>7 DEF AlterSave, Continue, Done
  <2>3. workflow' \in Row /\ workflow'.status = workflow.status
    BY <1>i, <2>1, RowUpdates, InstanceAssumption
  <2> QED BY <1>i, <2>2, <2>3, IdleBacked, ContinueSaves DEF history
<1>8. CASE ApiPassed(r)
  <2>1. /\ req[r].pc = "apiPassed" /\ req[r].pc # "idle" /\ Goto(r, Idle)
        /\ UNCHANGED <<audit, schedule, cluster, begun, crashes, now, history>>
        /\ workflow' = [workflow EXCEPT !.status = "workflow_review_pass"]
    BY <1>8 DEF ApiPassed, Continue, Done
  <2>2. Approved(auto, approved)
    BY <1>i, <2>1 DEF RequestBacked, ReleaseSteps
  <2>3. workflow' \in Row /\ workflow'.status = "workflow_review_pass"
    BY <1>i, <1>s, <1>u, <2>1
  <2> QED BY <1>i, <2>1, <2>2, <2>3, IdleBacked, ContinueSaves DEF history
<1>9. CASE ApiUnschedule(r)
  <2>1. /\ req[r].pc # "idle" /\ Goto(r, New("apiAborted"))
        /\ UNCHANGED <<workflow, audit, cluster, begun, crashes, now, history>>
        /\ schedule' = NoSchedule
    BY <1>9 DEF ApiUnschedule, Continue
  <2>2. New("apiAborted") \in Request /\ RequestBacked(New("apiAborted"), auto, approved)
    BY NewType, NewBacked DEF Pcs, ReleaseSteps
  <2> QED BY <1>i, <2>1, <2>2, ContinueSaves DEF history
<1>10. CASE ApiAborted(r)
  <2>1. /\ req[r].pc # "idle" /\ Goto(r, Idle)
        /\ UNCHANGED <<audit, schedule, cluster, begun, crashes, now, history>>
        /\ workflow' = [workflow EXCEPT !.status = "workflow_abort"]
    BY <1>10 DEF ApiAborted, Continue, Done
  <2>2. workflow' \in Row /\ workflow'.status = "workflow_abort" /\ "workflow_abort" \notin Released
    BY <1>i, <1>s, <1>u, <2>1 DEF Released
  <2> QED BY <1>i, <2>1, <2>2, IdleBacked, ContinueSaves DEF history
<1> QED BY <1>1, <1>2, <1>3, <1>4, <1>5, <1>6, <1>7, <1>8, <1>9, <1>10

LEMMA RequestDiesInv ==
    ASSUME IInv, NEW r \in Requests, RequestDies(r)
    PROVE  IInv'
<1>1. crashes' \in 0 .. MaxCrashes /\ now' \in Times
  BY InstanceAssumption DEF IInv, TypeOK, RequestDies, Crash
<1>2. req[r].pc # "idle" /\ Goto(r, Idle) /\ UNCHANGED <<rows, cluster, begun, history>>
  BY DEF RequestDies, Done
<1>3. RequestFrame(r, Idle)
  BY <1>1, <1>2, InProgress DEF IInv, TypeOK, RequestFrame, Goto, rows, cluster, history
<1> QED BY <1>2, <1>3, IdleBacked, RequestMoves DEF rows, history

----------------------------------------------------------------------------
(***************************************************************************)
(* The request steps that save the audit row.                              *)
(***************************************************************************)

\* Whatever followed copy an operation works from, the saved row is followed.
LEMMA AuditSaved ==
    ASSUME IInv, NEW r \in Requests, SaveAudit(r)
    PROVE  /\ audit' \in WorkflowAudit
           /\ ChainFollowed(audit', auto, approved')
           /\ approved \subseteq approved' /\ approved' \subseteq Groups
           /\ UNCHANGED <<auto, runs, granted>>
           /\ Operated(r).status = "PASSED" => Approved(auto, approved')
           /\ workflow.status \in Released => Approved(auto, approved')
<1>i. /\ req[r].audit \in WorkflowAudit
      /\ req[r].action \in {"PASS", "REJECT", "ABORT"}
      /\ ChainFollowed(req[r].audit, auto, approved)
      /\ approved \subseteq Groups
      /\ workflow.status \in Released => Approved(auto, approved)
  BY InProgress DEF IInv, TypeOK, RequestBacked
<1>s. /\ CanOperate(req[r].audit, req[r].action, req[r].actor)
      /\ audit' = Operate(req[r].audit, req[r].action)
      /\ audit' = Operated(r)
      /\ approved' = IF req[r].action = "PASS" THEN approved \cup {req[r].audit.current}
                                               ELSE approved
      /\ UNCHANGED <<auto, runs, granted>>
  BY DEF SaveAudit, Operated
<1>1. /\ audit' \in WorkflowAudit
      /\ ChainFollowed(audit', auto, approved')
      /\ approved' \subseteq Groups
  <2>1. CASE req[r].action = "PASS"
    <3>1. req[r].audit.status = "WAITING"
      BY <1>i, <1>s, <2>1, PassNeedsWaiting
    <3>2. audit' = OperatePass(req[r].audit) /\ approved' = approved \cup {req[r].audit.current}
      BY <1>s, <2>1 DEF Operate
    <3> QED BY <1>i, <3>1, <3>2, PassFollows
  <2>2. CASE req[r].action \in {"REJECT", "ABORT"}
    <3>1. approved' = approved
      BY <1>s, <2>2
    <3> QED BY <1>i, <1>s, <2>2, <3>1, EndFollows
  <2> QED BY <1>i, <2>1, <2>2
<1>2. approved \subseteq approved'
  BY <1>s
<1> QED BY <1>i, <1>s, <1>1, <1>2, BackedGrows DEF ChainFollowed

LEMMA RequestOperates ==
    ASSUME IInv, NEW r \in Requests, PassedOperate(r) \/ CancelOperate(r) \/ ApiOperate(r)
    PROVE  IInv'
<1>i. /\ req[r].row \in Row /\ workflow \in Row
      /\ req[r].pc # "idle" => workflow.status # "none"
      /\ schedule \in Schedule /\ NoSchedule \in Schedule
      /\ queued \in Nat /\ begun \in 0 .. MaxRequests /\ crashes \in 0 .. MaxCrashes
      /\ now \in Times
      /\ granted \in BOOLEAN
  BY InProgress, NothingType DEF IInv, TypeOK
<1>u. \A row \in Row, s \in Status :
         [row EXCEPT !.status = s] \in Row /\ [row EXCEPT !.status = s].status = s
  BY RowUpdates
<1>a. /\ SaveAudit(r)
      /\ req[r].pc # "idle"
      /\ UNCHANGED <<cluster, begun, crashes, now>>
  BY DEF PassedOperate, CancelOperate, ApiOperate, Continue
<1>b. /\ audit' \in WorkflowAudit
      /\ ChainFollowed(audit', auto, approved')
      /\ approved \subseteq approved' /\ approved' \subseteq Groups
      /\ UNCHANGED <<auto, runs, granted>>
      /\ Operated(r).status = "PASSED" => Approved(auto, approved')
      /\ workflow.status \in Released => Approved(auto, approved')
  BY <1>a, AuditSaved
<1>c. ASSUME NEW x \in Request, Goto(r, x), RequestBacked(x, auto, approved'),
             schedule' \in Schedule,
             workflow' \in Row, workflow'.status # "none",
             workflow'.status \in Released => Approved(auto, approved')
      PROVE  IInv'
  <2>1. RequestFrame(r, x)
    BY <1>a, <1>b, <1>c, <1>i DEF Goto, RequestFrame, cluster
  <2> QED BY <1>b, <1>c, <2>1, RequestStep
<1>1. CASE PassedOperate(r)
  <2>1. /\ Goto(r, Idle) /\ UNCHANGED schedule
        /\ workflow' = IF Operated(r).status = "PASSED"
                       THEN [req[r].row EXCEPT !.status = "workflow_review_pass"]
                       ELSE workflow
    BY <1>1 DEF PassedOperate, Done
  <2>2. /\ workflow' \in Row
        /\ workflow'.status # "none"
        /\ workflow'.status \in Released => Approved(auto, approved')
    <3>1. CASE Operated(r).status = "PASSED"
      <4>1. workflow' = [req[r].row EXCEPT !.status = "workflow_review_pass"]
        BY <2>1, <3>1
      <4>2. workflow' \in Row /\ workflow'.status = "workflow_review_pass"
        BY <1>i, <1>u, <4>1 DEF Status, Released
      <4> QED BY <1>b, <3>1, <4>2
    <3>2. CASE Operated(r).status # "PASSED"
      BY <1>a, <1>b, <1>i, <2>1, <3>2
    <3> QED BY <3>1, <3>2
  <2> QED BY <1>c, <1>i, <2>1, <2>2, IdleBacked
<1>2. CASE CancelOperate(r)
  <2>1. /\ Goto(r, Idle)
        /\ workflow' = [req[r].row EXCEPT !.status = "workflow_abort"]
        /\ schedule' \in {NoSchedule, schedule}
    BY <1>2 DEF CancelOperate, Done
  <2>2. workflow' \in Row /\ workflow'.status = "workflow_abort" /\ "workflow_abort" \notin Released
    BY <1>i, <1>u, <2>1 DEF Status, Ended, Released
  <2> QED BY <1>c, <1>i, <2>1, <2>2, IdleBacked
<1>3. CASE ApiOperate(r)
  <2>1. UNCHANGED <<workflow, schedule>>
    BY <1>3 DEF ApiOperate
  <2>2. \/ Goto(r, New("apiPassed")) /\ Operated(r).status = "PASSED"
        \/ \E pc \in {"apiUnschedule", "apiAborted"} : Goto(r, New(pc))
        \/ Goto(r, Idle)
    BY <1>3 DEF ApiOperate, Done
  <2>3. CASE Goto(r, New("apiPassed")) /\ Operated(r).status = "PASSED"
    <3>1. New("apiPassed") \in Request /\ RequestBacked(New("apiPassed"), auto, approved')
      BY <1>b, <2>3, NewType, NewBacked DEF Pcs
    <3> QED BY <1>a, <1>b, <1>c, <1>i, <2>1, <2>3, <3>1
  <2>4. ASSUME NEW pc \in {"apiUnschedule", "apiAborted"}, Goto(r, New(pc)) PROVE IInv'
    <3>1. New(pc) \in Request /\ RequestBacked(New(pc), auto, approved')
      BY NewType, NewBacked DEF Pcs, ReleaseSteps
    <3> QED BY <1>a, <1>b, <1>c, <1>i, <2>1, <2>4, <3>1
  <2>5. CASE Goto(r, Idle)
    BY <1>a, <1>b, <1>c, <1>i, <2>1, <2>5, IdleBacked
  <2> QED BY <2>2, <2>3, <2>4, <2>5
<1> QED BY <1>1, <1>2, <1>3

----------------------------------------------------------------------------
\* Before the submission there is nothing that the new rows could contradict.
LEMMA SubmitInv ==
    ASSUME IInv, NEW r \in Requests, Submit(r)
    PROVE  IInv'
<1>1. PICK outcome \in AutoOutcomes, window \in Windows :
        /\ workflow' = [status |-> "workflow_manreviewing", window |-> window]
        /\ audit' = CreateAudit(outcome)
        /\ auto' = outcome
  BY DEF Submit
<1> DEFINE x == [New("submit") EXCEPT !.row = workflow', !.audit = audit']
<1>2. /\ workflow.status = "none" /\ begun < MaxRequests /\ begun' = begun + 1
      /\ Goto(r, x)
      /\ UNCHANGED <<schedule, cluster, crashes, now, approved, runs, granted>>
  BY DEF Submit
<1>3. NothingYet
  BY <1>2 DEF IInv, Backed
<1>4. /\ outcome \in AutoReview /\ workflow' \in Row
      /\ workflow'.status = "workflow_manreviewing"
      /\ begun' \in 0 .. MaxRequests
  <2>1. outcome \in AutoReview /\ window \in Windows
    BY InstanceAssumption
  <2>2. begun' \in 0 .. MaxRequests
    BY <1>2, InstanceAssumption DEF IInv, TypeOK
  <2> QED BY <1>1, <2>1, <2>2 DEF Row, Status
<1>5. audit' \in WorkflowAudit /\ ChainFollowed(audit', auto', approved')
  BY <1>1, <1>2, <1>4, CreateFollows
<1>6. /\ x \in Request /\ x.pc = "submit" /\ x.row = workflow' /\ x.audit = audit'
  <2>1. New("submit") \in Request /\ New("submit").pc = "submit"
    BY NewType, NewFields DEF Pcs
  <2> QED BY <1>4, <1>5, <2>1 DEF Request
<1> HIDE DEF x
<1>7. RequestBacked(x, auto', approved')
  BY <1>4, <1>5, <1>6 DEF RequestBacked, Released, ReleaseSteps
<1>8. TypeOK'
  BY <1>1, <1>2, <1>4, <1>5, <1>6 DEF IInv, TypeOK, Goto, cluster
<1>9. \A q \in Requests : RequestBacked(req'[q], auto', approved')
  BY <1>2, <1>3, <1>7, IdleBacked DEF IInv, TypeOK, Goto, NothingYet
<1>10. /\ \A w \in Workers : ProcessBacked(worker'[w], auto', approved')
       /\ ProcessBacked(monitor', auto', approved')
  BY <1>2, <1>3 DEF NothingYet, ProcessBacked, Free, NoRow, Released, cluster, IInv, Backed
<1>11. OnlyApprovedRuns' /\ workflow'.status # "none"
  BY <1>2, <1>3, <1>4 DEF NothingYet, OnlyApprovedRuns, Released
<1> QED BY <1>5, <1>8, <1>9, <1>10, <1>11 DEF IInv, Backed

----------------------------------------------------------------------------
(***************************************************************************)
(* The steps of the cluster: they leave requests and audit alone.          *)
(***************************************************************************)
LEMMA ClusterStep ==
    ASSUME IInv, TypeOK',
           UNCHANGED <<audit, req, auto, approved>>,
           workflow'.status \in Released \/ runs' > 0 => Approved(auto, approved),
           \A w \in Workers : ProcessBacked(worker'[w], auto, approved),
           ProcessBacked(monitor', auto, approved),
           workflow'.status = "none" => NothingYet'
    PROVE  IInv'
BY DEF IInv, Backed, OnlyApprovedRuns, ChainApproved

Worker == [pc : {"idle", "running", "exporting"}, row : Row]

LEMMA WorkerStep ==
    ASSUME IInv, NEW w \in Workers, NEW x \in Worker, worker' = [worker EXCEPT ![w] = x],
           ProcessBacked(x, auto, approved),
           workflow.status # "none",
           workflow' \in Row, workflow'.status # "none",
           workflow'.status \in Released => Approved(auto, approved),
           runs' \in Nat, runs' > 0 => Approved(auto, approved),
           results' \in Seq(Outcome), queued' \in Nat, granted' \in BOOLEAN,
           crashes' \in 0 .. MaxCrashes, now' \in Times,
           UNCHANGED <<audit, schedule, monitor, req, begun, auto, approved>>
    PROVE  IInv'
<1>1. worker' \in [Workers -> Worker]
  BY DEF IInv, TypeOK, Worker
<1>2. TypeOK'
  BY <1>1 DEF IInv, TypeOK, Worker
<1>3. \A v \in Workers : ProcessBacked(worker'[v], auto, approved)
  BY DEF IInv, TypeOK, Backed
<1>4. ProcessBacked(monitor', auto, approved)
  BY DEF IInv, Backed
<1> QED BY <1>2, <1>3, <1>4, ClusterStep

\* A worker that is busy was let run, and a workflow that nobody submitted has none.
LEMMA Busy ==
    ASSUME IInv, NEW w \in Workers
    PROVE  /\ worker[w] \in Worker /\ workflow \in Row
           /\ ProcessBacked(worker[w], auto, approved)
           /\ worker[w].pc # "idle" => workflow.status # "none" /\ Approved(auto, approved)
           /\ workflow.status \in Released => Approved(auto, approved)
           /\ runs \in Nat /\ (runs > 0 => Approved(auto, approved))
           /\ results \in Seq(Outcome) /\ queued \in Nat /\ granted \in BOOLEAN
           /\ crashes \in 0 .. MaxCrashes /\ now \in Times
BY DEF IInv, TypeOK, Backed, NothingYet, Free, ProcessBacked, Worker, OnlyApprovedRuns, ChainApproved

LEMMA FreeBacked ==
    /\ Free \in Worker
    /\ \A decision, done : ProcessBacked(Free, decision, done)
BY NothingType DEF Free, Worker, NoRow, ProcessBacked, Released

LEMMA WorkerSteps ==
    ASSUME IInv, NEW w \in Workers,
           \/ Execute(w) \/ ExecuteRefused(w) \/ ExecuteEnds(w)
           \/ ExportRead(w) \/ ExportSave(w) \/ WorkerDies(w)
    PROVE  IInv'
<1>i. /\ worker[w] \in Worker /\ workflow \in Row
      /\ ProcessBacked(worker[w], auto, approved)
      /\ worker[w].pc # "idle" => workflow.status # "none" /\ Approved(auto, approved)
      /\ workflow.status \in Released => Approved(auto, approved)
      /\ runs \in Nat /\ (runs > 0 => Approved(auto, approved))
      /\ results \in Seq(Outcome) /\ queued \in Nat /\ granted \in BOOLEAN
      /\ crashes \in 0 .. MaxCrashes /\ now \in Times
  BY Busy
<1>f. worker \in [Workers -> Worker]
  BY DEF IInv, TypeOK, Worker
<1>1. CASE Execute(w)
  <2>1. /\ workflow.status \in Startable
        /\ workflow' = [workflow EXCEPT !.status = "workflow_executing"]
        /\ worker' = [worker EXCEPT ![w].pc = "running"]
        /\ runs' = runs + 1 /\ granted' = FALSE /\ queued > 0 /\ queued' = queued - 1
        /\ UNCHANGED <<audit, schedule, results, monitor, req, begun, crashes, now, auto, approved>>
    BY <1>1 DEF Execute
  <2>2. Approved(auto, approved) /\ workflow.status # "none"
    BY <1>i, <2>1 DEF Startable, Released
  <2>3. workflow' \in Row /\ workflow'.status = "workflow_executing"
    BY <1>i, <2>1, RowUpdates DEF Status, Released
  <2> DEFINE x == [worker[w] EXCEPT !.pc = "running"]
  <2>4. worker' = [worker EXCEPT ![w] = x]
    BY <1>f, <2>1
  <2>5. x \in Worker /\ x.row = worker[w].row /\ x.pc = "running"
    BY <1>i DEF Worker
  <2> HIDE DEF x
  <2>6. ProcessBacked(x, auto, approved)
    BY <2>2, <2>5 DEF ProcessBacked
  <2>7. runs' \in Nat /\ queued' \in Nat
    BY <1>i, <2>1
  <2> QED BY <1>i, <2>1, <2>2, <2>3, <2>4, <2>5, <2>6, <2>7, WorkerStep
<1>2. CASE ExecuteRefused(w)
  <2>1. /\ UNCHANGED <<workflow, audit, schedule, worker, monitor, req, begun, crashes, now, history>>
        /\ queued > 0 /\ queued' = queued - 1 /\ results' = Append(results, "raised")
    BY <1>2 DEF ExecuteRefused, rows
  <2>2. queued' \in Nat /\ results' \in Seq(Outcome)
    BY <1>i, <2>1 DEF Outcome
  <2>3. TypeOK'
    BY <2>1, <2>2 DEF IInv, TypeOK, history
  <2>4. /\ \A v \in Workers : ProcessBacked(worker'[v], auto, approved)
        /\ ProcessBacked(monitor', auto, approved)
        /\ workflow'.status = "none" => NothingYet'
    BY <2>1 DEF IInv, Backed, NothingYet, history
  <2> QED BY <1>i, <2>1, <2>3, <2>4, ClusterStep DEF history
<1>3. CASE ExecuteEnds(w)
  <2>1. PICK outcome \in Outcome : results' = Append(results, outcome)
    BY <1>3 DEF ExecuteEnds, Outcome
  <2>2. results' \in Seq(Outcome)
    BY <1>i, <2>1
  <2>3. /\ worker' = [worker EXCEPT ![w] = Free] /\ worker[w].pc # "idle"
        /\ UNCHANGED <<workflow, audit, schedule, queued, monitor, req, begun, crashes, now, history>>
    BY <1>3 DEF ExecuteEnds, rows
  <2> QED BY <1>i, <2>2, <2>3, FreeBacked, WorkerStep DEF history
<1>4. CASE ExportRead(w)
  <2> DEFINE x == [pc |-> "exporting", row |-> workflow]
  <2>1. /\ worker' = [worker EXCEPT ![w] = x] /\ worker[w].pc # "idle"
        /\ UNCHANGED <<workflow, audit, schedule, queued, results, monitor, req, begun, crashes, now, history>>
    BY <1>4 DEF ExportRead, rows
  <2>2. x \in Worker /\ ProcessBacked(x, auto, approved)
    BY <1>i, <2>1 DEF Worker, ProcessBacked
  <2> HIDE DEF x
  <2> QED BY <1>i, <2>1, <2>2, WorkerStep DEF history
<1>5. CASE ExportSave(w)
  <2>1. /\ worker' = [worker EXCEPT ![w] = Free] /\ worker[w].pc = "exporting"
        /\ workflow' = worker[w].row /\ results' = Append(results, "ok")
        /\ UNCHANGED <<audit, schedule, queued, monitor, req, begun, crashes, now, history>>
    BY <1>5 DEF ExportSave
  <2>2. workflow' \in Row /\ workflow'.status # "none" /\ results' \in Seq(Outcome)
    BY <1>i, <2>1 DEF ProcessBacked, Worker, Outcome
  <2> QED BY <1>i, <2>1, <2>2, FreeBacked, WorkerStep DEF history
<1>6. CASE WorkerDies(w)
  <2>1. crashes' \in 0 .. MaxCrashes /\ now' = now
    BY <1>6, <1>i, InstanceAssumption DEF WorkerDies, Crash
  <2>2. /\ worker' = [worker EXCEPT ![w] = Free] /\ worker[w].pc # "idle"
        /\ UNCHANGED <<workflow, audit, schedule, queued, results, monitor, req, begun, history>>
    BY <1>6 DEF WorkerDies, rows
  <2> QED BY <1>i, <2>1, <2>2, FreeBacked, WorkerStep DEF history
<1> QED BY <1>1, <1>2, <1>3, <1>4, <1>5, <1>6

LEMMA OtherSteps ==
    ASSUME IInv, ScheduleDue \/ Callback \/ TaskLost \/ MonitorDies \/ Tick
    PROVE  IInv'
<1> DEFINE Monitor == [pc : {"idle", "save"}, outcome : Outcome, row : Row]
<1>i. /\ workflow \in Row /\ monitor \in Monitor
      /\ ProcessBacked(monitor, auto, approved)
      /\ workflow.status \in Released => Approved(auto, approved)
      /\ runs \in Nat /\ (runs > 0 => Approved(auto, approved))
      /\ results \in Seq(Outcome) /\ queued \in Nat
      /\ crashes \in 0 .. MaxCrashes /\ now \in Times
      /\ \A w \in Workers : ProcessBacked(worker[w], auto, approved)
      /\ workflow.status = "none" => NothingYet
  BY DEF IInv, TypeOK, Backed, OnlyApprovedRuns, ChainApproved
<1>m. monitor.pc = "save" => workflow.status # "none" /\ Approved(auto, approved)
  BY <1>i DEF NothingYet, ProcessBacked
<1>q. FreeMonitor => monitor' \in Monitor /\ ProcessBacked(monitor', auto, approved)
  BY NothingType DEF FreeMonitor, NoRow, Outcome, ProcessBacked, Released
<1>1. CASE ScheduleDue
  <2>1. queued' \in Nat
    BY <1>1, <1>i DEF ScheduleDue
  <2>s. schedule' \in Schedule
    BY <1>1, NothingType DEF ScheduleDue, NoSchedule, Schedule
  <2>2. TypeOK'
    BY <1>1, <2>1, <2>s DEF ScheduleDue, IInv, TypeOK, history
  <2>3. UNCHANGED <<workflow, audit, worker, monitor, req, auto, approved, runs>>
    BY <1>1 DEF ScheduleDue, history
  <2> QED BY <1>i, <2>2, <2>3, ClusterStep DEF NothingYet
<1>2. CASE CallbackBegin
  <2>1. /\ results # << >> /\ results' = Tail(results)
        /\ UNCHANGED <<workflow, audit, schedule, queued, worker, req, begun, crashes, now, history>>
        /\ \/ /\ workflow.status = "workflow_executing"
              /\ monitor' = [pc |-> "save", outcome |-> Head(results), row |-> workflow]
           \/ UNCHANGED monitor
    BY <1>2 DEF CallbackBegin, rows
  <2>2. results' \in Seq(Outcome) /\ Head(results) \in Outcome
    BY <1>i, <2>1
  <2>3. monitor' \in Monitor /\ ProcessBacked(monitor', auto, approved)
    BY <1>i, <2>1, <2>2 DEF ProcessBacked, Released
  <2>4. TypeOK'
    BY <2>1, <2>2, <2>3 DEF IInv, TypeOK, history
  <2>5. workflow'.status = "none" => NothingYet'
    BY <1>i, <2>1 DEF NothingYet, history
  <2> QED BY <1>i, <2>1, <2>3, <2>4, <2>5, ClusterStep DEF history
<1>3. CASE CallbackSave
  <2>1. PICK s \in {"workflow_finish", "workflow_exception"} :
           workflow' = [monitor.row EXCEPT !.status = s]
    BY <1>3 DEF CallbackSave
  <2>2. /\ monitor.pc = "save" /\ FreeMonitor
        /\ UNCHANGED <<audit, schedule, queued, worker, results, req, begun, crashes, now, history>>
    BY <1>3 DEF CallbackSave
  <2>3. workflow' \in Row /\ workflow'.status # "none"
    <3>1. monitor.row \in Row /\ s \in Status /\ s # "none"
      BY <1>i DEF Status, Released
    <3> QED BY <2>1, <3>1, RowUpdates
  <2>4. TypeOK'
    BY <1>q, <2>2, <2>3 DEF IInv, TypeOK, history
  <2> QED BY <1>i, <1>m, <1>q, <2>2, <2>3, <2>4, ClusterStep DEF history
<1>4. CASE CallbackSaveFails
  <2>1. /\ workflow' = [workflow EXCEPT !.status = "workflow_exception"]
        /\ monitor.pc = "save" /\ FreeMonitor
        /\ UNCHANGED <<audit, schedule, queued, worker, results, req, begun, crashes, now, history>>
    BY <1>4 DEF CallbackSaveFails
  <2>2. workflow' \in Row /\ workflow'.status # "none"
    <3>1. "workflow_exception" \in Status
      BY DEF Status, Released
    <3> QED BY <1>i, <2>1, <3>1, RowUpdates
  <2>3. TypeOK'
    BY <1>q, <2>1, <2>2 DEF IInv, TypeOK, history
  <2> QED BY <1>i, <1>m, <1>q, <2>1, <2>2, <2>3, ClusterStep DEF history
<1>5. CASE TaskLost
  <2>1. queued' \in Nat
    BY <1>5, <1>i DEF TaskLost
  <2>2. crashes' \in 0 .. MaxCrashes /\ now' = now
    BY <1>5, <1>i, InstanceAssumption DEF TaskLost, Crash
  <2>3. UNCHANGED <<workflow, audit, schedule, worker, results, monitor, req, begun, history>>
    BY <1>5 DEF TaskLost, rows
  <2>4. TypeOK'
    BY <2>1, <2>2, <2>3 DEF IInv, TypeOK, history
  <2> QED BY <1>i, <2>3, <2>4, ClusterStep DEF NothingYet, history
<1>6. CASE MonitorDies
  <2>1. crashes' \in 0 .. MaxCrashes /\ now' = now
    BY <1>6, <1>i, InstanceAssumption DEF MonitorDies, Crash
  <2>2. /\ monitor.pc = "save" /\ FreeMonitor
        /\ UNCHANGED <<workflow, audit, schedule, queued, worker, results, req, begun, history>>
    BY <1>6 DEF MonitorDies, rows
  <2>3. TypeOK'
    BY <1>q, <2>1, <2>2 DEF IInv, TypeOK, history
  <2> QED BY <1>i, <1>m, <1>q, <2>2, <2>3, ClusterStep DEF history
<1>7. CASE Tick
  <2>1. UNCHANGED <<workflow, audit, schedule, queued, worker, results, monitor, req, begun, crashes, history>>
    BY <1>7 DEF Tick, rows, cluster
  <2>2. now' \in Times
    BY <1>7, <1>i, InstanceAssumption DEF Tick, Times
  <2>3. TypeOK'
    BY <2>1, <2>2 DEF IInv, TypeOK, history
  <2> QED BY <1>i, <2>1, <2>3, ClusterStep DEF NothingYet, history
<1> QED BY <1>1, <1>2, <1>3, <1>4, <1>5, <1>6, <1>7 DEF Callback

----------------------------------------------------------------------------
LEMMA NextIInv == IInv /\ [Next]_vars => IInv'
<1> SUFFICES ASSUME IInv, [Next]_vars PROVE IInv'
  OBVIOUS
<1>1. ASSUME NEW r \in Requests, Review(r) PROVE IInv'
  BY <1>1, RequestReads, RequestWrites, RequestOperates, SubmitInv DEF Review
<1>2. ASSUME NEW r \in Requests, Release(r) PROVE IInv'
  BY <1>2, RequestReads, RequestWrites DEF Release
<1>3. ASSUME NEW r \in Requests, RequestDies(r) PROVE IInv'
  BY <1>3, RequestDiesInv
<1>4. ASSUME NEW w \in Workers, Work(w) \/ WorkerDies(w) PROVE IInv'
  BY <1>4, WorkerSteps DEF Work
<1>5. ASSUME ScheduleDue \/ Callback \/ TaskLost \/ MonitorDies \/ Tick PROVE IInv'
  BY <1>5, OtherSteps
<1>6. CASE UNCHANGED vars
  BY <1>6 DEF vars, rows, cluster, history, IInv, TypeOK, Backed, OnlyApprovedRuns,
              ChainApproved, NothingYet
<1> QED BY <1>1, <1>2, <1>3, <1>4, <1>5, <1>6 DEF Next

----------------------------------------------------------------------------
\* Every row, every copy of a row and every step of a process is backed by the
\* approvals given, in every interleaving of requests, workers and crashes.
THEOREM AlwaysBacked == Spec => []Backed
<1>1. IInv => Backed
  BY DEF IInv
<1> QED BY InitIInv, NextIInv, <1>1, PTL DEF Spec

\* The type invariant of the lifecycle.
THEOREM TypeCorrect == Spec => []TypeOK
<1>1. IInv => TypeOK
  BY DEF IInv
<1> QED BY InitIInv, NextIInv, <1>1, PTL DEF Spec

\* The release gate: SQL is started on the instance, or shown as approved,
\* only after every group of the chain approved or none had to.
THEOREM NothingRunsUnapproved == Spec => []OnlyApprovedRuns
<1>1. IInv => OnlyApprovedRuns
  BY DEF IInv, Backed
<1> QED BY InitIInv, NextIInv, <1>1, PTL DEF Spec

----------------------------------------------------------------------------
(***************************************************************************)
(* One run per release.  A save from a copy can set the status back, but   *)
(* never to one that a worker starts from, unless the save is itself a     *)
(* release: that is what makes the check under the row lock enough.  An    *)
(* export saves the row it read back, so it is excluded.                   *)
(***************************************************************************)
ReleaseUsed ==
    /\ workflow.status \in Startable => granted
    /\ \A w \in Workers : worker[w].pc # "exporting"

LEMMA InitReleaseUsed == Init => ReleaseUsed
BY DEF Init, ReleaseUsed, NoRow, Startable, Free

\* An action that leaves a status no worker starts from, or the status as it was.
LEMMA KeepsReleaseUsed ==
    ASSUME ReleaseUsed, UNCHANGED <<granted, worker>>,
           workflow'.status \notin Startable \/ workflow'.status = workflow.status
    PROVE  ReleaseUsed'
BY DEF ReleaseUsed

LEMMA RequestReleaseUsed ==
    ASSUME IInv, ReleaseUsed, NEW r \in Requests, Review(r) \/ Release(r) \/ RequestDies(r)
    PROVE  ReleaseUsed' /\ runs' = runs
<1>i. /\ req[r].row \in Row /\ workflow \in Row
      /\ req[r].pc = "submit" => req[r].row.status = "workflow_manreviewing"
  BY InProgress DEF RequestBacked
<1>u. \A row \in Row, s \in Status : [row EXCEPT !.status = s].status = s
  BY RowUpdates
<1>s. {"workflow_manreviewing", "workflow_autoreviewwrong", "workflow_review_pass",
       "workflow_finish", "workflow_abort"} \cap Startable = {}
  BY DEF Startable
<1>t. {"workflow_manreviewing", "workflow_autoreviewwrong", "workflow_review_pass",
       "workflow_finish", "workflow_abort"} \subseteq Status
  BY DEF Status, Released, Ended
<1>1. CASE Submit(r)
  <2>1. workflow'.status = "workflow_manreviewing" /\ UNCHANGED <<granted, worker, runs>>
    BY <1>1 DEF Submit, cluster
  <2> QED BY <1>s, <2>1, KeepsReleaseUsed
<1>2. CASE SubmitStatus(r)
  <2>1. /\ req[r].pc = "submit" /\ UNCHANGED <<granted, worker, runs>>
        /\ workflow' = [req[r].row EXCEPT !.status =
                          CASE req[r].audit.status = "REJECTED" -> "workflow_autoreviewwrong"
                            [] req[r].audit.status = "PASSED"   -> "workflow_review_pass"
                            [] OTHER                            -> @]
    BY <1>2 DEF SubmitStatus, Continue, cluster, history
  <2>2. PICK s \in {"workflow_manreviewing", "workflow_autoreviewwrong", "workflow_review_pass"} :
           workflow' = [req[r].row EXCEPT !.status = s]
    BY <1>i, <2>1
  <2>3. workflow'.status = s
    BY <1>i, <1>t, <1>u, <2>2
  <2> QED BY <1>s, <2>1, <2>3, KeepsReleaseUsed
<1>3. CASE PassedOperate(r)
  <2>1. /\ UNCHANGED <<granted, worker, runs>>
        /\ \/ workflow' = [req[r].row EXCEPT !.status = "workflow_review_pass"]
           \/ workflow' = workflow
    BY <1>3 DEF PassedOperate, SaveAudit, cluster
  <2>2. workflow'.status \notin Startable \/ workflow'.status = workflow.status
    <3>1. CASE workflow' = [req[r].row EXCEPT !.status = "workflow_review_pass"]
      BY <1>i, <1>s, <1>t, <1>u, <3>1
    <3>2. CASE workflow' = workflow
      BY <3>2
    <3> QED BY <2>1, <3>1, <3>2
  <2> QED BY <2>1, <2>2, KeepsReleaseUsed
<1>4. CASE CancelOperate(r)
  <2>1. /\ UNCHANGED <<granted, worker, runs>>
        /\ workflow' = [req[r].row EXCEPT !.status = "workflow_abort"]
    BY <1>4 DEF CancelOperate, SaveAudit, cluster
  <2> QED BY <1>i, <1>s, <1>t, <1>u, <2>1, KeepsReleaseUsed
<1>5. CASE AlterSave(r)
  <2>1. PICK window \in Windows : workflow' = [workflow EXCEPT !.window = window]
    BY <1>5 DEF AlterSave
  <2>2. workflow'.status = workflow.status
    BY <1>i, <2>1, RowUpdates, InstanceAssumption
  <2>3. UNCHANGED <<granted, worker, runs>>
    BY <1>5 DEF AlterSave, cluster, history
  <2> QED BY <2>2, <2>3, KeepsReleaseUsed
<1>6. CASE ApiOperate(r)
  BY <1>6, KeepsReleaseUsed DEF ApiOperate, SaveAudit, cluster
<1>7. CASE ApiPassed(r) \/ ApiAborted(r) \/ ExecuteManual(r)
  <2>1. /\ UNCHANGED <<granted, worker, runs>>
        /\ \E s \in {"workflow_review_pass", "workflow_abort", "workflow_finish"} :
             workflow' = [workflow EXCEPT !.status = s]
    BY <1>7 DEF ApiPassed, ApiAborted, ExecuteManual, cluster, history
  <2> QED BY <1>i, <1>s, <1>t, <1>u, <2>1, KeepsReleaseUsed
<1>8. CASE TimingSave(r) \/ ExecuteQueue(r)
  BY <1>8 DEF TimingSave, ExecuteQueue, Grant, ReleaseUsed, cluster
<1>9. CASE UNCHANGED <<workflow, worker, history>>
  BY <1>9, KeepsReleaseUsed DEF history
<1>10. \/ UNCHANGED <<workflow, worker, history>>
       \/ Submit(r) \/ SubmitStatus(r) \/ PassedOperate(r) \/ CancelOperate(r)
       \/ AlterSave(r) \/ ApiOperate(r) \/ ApiPassed(r) \/ ApiAborted(r) \/ ExecuteManual(r)
       \/ TimingSave(r) \/ ExecuteQueue(r)
  <2>1. ASSUME PassedBegin(r) \/ PassedAuditor(r) \/ CancelBegin(r) \/ CancelCheck(r)
               \/ CancelAuditor(r) \/ OperateRefused(r)
        PROVE  UNCHANGED <<workflow, worker, history>>
    BY <2>1 DEF PassedBegin, PassedAuditor, CancelBegin, CancelCheck, CancelAuditor,
                OperateRefused, Begin, rows, cluster
  <2>2. ASSUME AlterBegin(r) \/ ApiBegin(r) \/ ApiWorkflow(r) \/ ApiUnschedule(r)
               \/ RequestDies(r)
        PROVE  UNCHANGED <<workflow, worker, history>>
    BY <2>2 DEF AlterBegin, ApiBegin, ApiWorkflow, ApiUnschedule, RequestDies, Begin, rows, cluster
  <2>3. ASSUME TimingBegin(r) \/ TimingCheck(r) \/ ExecuteBegin(r) \/ ExecuteWindow(r)
               \/ ExecuteUnschedule(r) \/ ExecuteEnqueue(r)
        PROVE  UNCHANGED <<workflow, worker, history>>
    BY <2>3 DEF TimingBegin, TimingCheck, ExecuteBegin, ExecuteWindow, ExecuteUnschedule,
                ExecuteEnqueue, Begin, rows, cluster
  <2> QED BY <2>1, <2>2, <2>3 DEF Review, Release
<1> QED BY <1>1, <1>2, <1>3, <1>4, <1>5, <1>6, <1>7, <1>8, <1>9, <1>10,
           Zenon DEF TimingSave, ExecuteQueue, Grant, history

LEMMA NextReleaseUsed ==
    ASSUME Export = FALSE, IInv, ReleaseUsed, [Next]_vars
    PROVE  ReleaseUsed' /\ (runs' > runs => granted)
<1>i. /\ worker \in [Workers -> Worker] /\ workflow \in Row /\ monitor.row \in Row
      /\ runs \in Nat
  BY DEF IInv, TypeOK, Worker
<1>1. ASSUME NEW r \in Requests, Review(r) \/ Release(r) \/ RequestDies(r)
      PROVE  ReleaseUsed' /\ runs' = runs
  BY <1>1, RequestReleaseUsed
<1>2. ASSUME NEW w \in Workers, Execute(w)
      PROVE  ReleaseUsed' /\ granted
  <2>1. /\ workflow.status \in Startable
        /\ workflow' = [workflow EXCEPT !.status = "workflow_executing"]
        /\ worker' = [worker EXCEPT ![w].pc = "running"]
    BY <1>2 DEF Execute
  <2>2. workflow'.status = "workflow_executing"
    BY <1>i, <2>1, RowUpdates DEF Status, Released
  <2>3. \A v \in Workers : worker'[v].pc \in {worker[v].pc, "running"}
    BY <1>i, <2>1 DEF Worker
  <2> QED BY <2>1, <2>2, <2>3 DEF ReleaseUsed, Startable
<1>3. ASSUME NEW w \in Workers, ExecuteRefused(w) PROVE ReleaseUsed' /\ runs' = runs
  BY <1>3 DEF ExecuteRefused, ReleaseUsed, rows, history
<1>4. ASSUME NEW w \in Workers, ExecuteEnds(w) \/ WorkerDies(w) PROVE ReleaseUsed' /\ runs' = runs
  <2>1. worker' = [worker EXCEPT ![w] = Free] /\ UNCHANGED <<workflow, granted, runs>>
    BY <1>4 DEF ExecuteEnds, WorkerDies, rows, history
  <2> QED BY <1>i, <2>1 DEF ReleaseUsed, Free
<1>5. ASSUME NEW w \in Workers, ExportRead(w) \/ ExportSave(w) PROVE FALSE
  BY <1>5 DEF ExportRead, ExportSave, ReleaseUsed
<1>6. ASSUME ScheduleDue \/ TaskLost \/ MonitorDies \/ CallbackBegin
      PROVE  ReleaseUsed' /\ runs' = runs
  BY <1>6 DEF ScheduleDue, TaskLost, MonitorDies, CallbackBegin, ReleaseUsed, rows, history
<1>7. ASSUME CallbackSave \/ CallbackSaveFails PROVE ReleaseUsed' /\ runs' = runs
  <2>1. /\ \E row \in {workflow, monitor.row}, s \in {"workflow_finish", "workflow_exception"} :
             workflow' = [row EXCEPT !.status = s]
        /\ UNCHANGED <<granted, worker, runs>>
    BY <1>7 DEF CallbackSave, CallbackSaveFails, history
  <2>2. {"workflow_finish", "workflow_exception"} \subseteq Status \ Startable
    BY DEF Status, Released, Startable
  <2>3. workflow'.status \notin Startable
    BY <1>i, <2>1, <2>2, RowUpdates
  <2> QED BY <2>1, <2>3, KeepsReleaseUsed
<1>8. ASSUME Tick \/ UNCHANGED vars PROVE ReleaseUsed' /\ runs' = runs
  BY <1>8 DEF Tick, vars, rows, cluster, history, ReleaseUsed
<1>9. runs' = runs => ~(runs' > runs)
  BY <1>i
<1> QED BY <1>1, <1>2, <1>3, <1>4, <1>5, <1>6, <1>7, <1>8, <1>9
        DEF Next, Work, Callback, vars, history

\* Each start of the SQL on the instance uses up one release by a user: tasks
\* left over from an earlier release, fired schedules and stale saves never
\* start it again on their own (workflows other than exports).
THEOREM StartsUseAReleaseUp == ASSUME Export = FALSE PROVE Spec => OneRunPerRelease
<1>1. IInv /\ ReleaseUsed /\ [Next]_vars => ReleaseUsed'
  BY NextReleaseUsed
<1>2. IInv /\ ReleaseUsed /\ [Next]_vars => [runs' > runs => granted]_vars
  BY NextReleaseUsed
<1> QED BY InitIInv, NextIInv, InitReleaseUsed, <1>1, <1>2, PTL DEF Spec, OneRunPerRelease

----------------------------------------------------------------------------
(***************************************************************************)
(* One user at a time. A request is over, or its process has died, before  *)
(* the next begins; the worker processes and the monitor run beside it, as *)
(* many as there are, and any of them may die. What a request has read is  *)
(* then still so when it writes, except what a task or the hook changes.   *)
(* The API's cancel, which aborts a workflow whatever its status is, and   *)
(* exports, which save the row whole, are left out: the run sql_api_cancel *)
(* shows what the first does.                                              *)
(***************************************************************************)
Serial ==
    /\ \E r : Requests = {r}
    /\ "api_cancel" \notin Ops
    /\ ~Export

\* The rows that only an approval still in force lets be.
Approvals == {"workflow_review_pass", "workflow_timingtask", "workflow_queuing"}

\* What the two rows and the hook's copy have to do with each other at all times.
RowsSerial(row, a, m) ==
    /\ a.status = "WAITING" => row.status = "workflow_manreviewing" /\ m.pc = "idle"
    /\ row.status \in Approvals => a.status = "PASSED"
    /\ m.pc = "save" => m.row.window = row.window

\* A request's copies are still the rows, as far as it will write them back, and
\* what it checked still holds.
RequestSerial(x, row, a) ==
    /\ x.pc \in {"submit", "passedOperate", "cancelOperate", "apiWorkflow", "apiOperate"} => x.audit = a
    /\ x.pc \in {"passedAuditor", "passedOperate", "apiWorkflow", "apiOperate"} => x.action = "PASS"
    /\ x.pc \in {"cancelAuditor", "cancelOperate"} => x.action # "PASS"
    /\ x.pc \in {"submit", "passedAuditor", "passedOperate", "cancelCheck", "cancelAuditor",
                 "cancelOperate", "timingCheck", "timingSave"} => x.row.window = row.window
    /\ x.pc \in ReleaseSteps => a.status = "PASSED"
    /\ x.pc = "alterSave" => a.status = "WAITING"
    /\ x.pc \notin {"apiUnschedule", "apiAborted"}

SerialInv ==
    /\ RowsSerial(workflow, audit, monitor)
    /\ \A r \in Requests : RequestSerial(req[r], workflow, audit)

LEMMA InitSerial == Init => SerialInv
BY DEF Init, SerialInv, RowsSerial, RequestSerial, NoRow, NoAudit, Idle, New, ReleaseSteps, Approvals, Startable

\* There is one request: the invariant is about the state a step leaves it in.
LEMMA SerialStep ==
    ASSUME IInv, Serial, NEW r \in Requests, NEW x, Goto(r, x),
           RowsSerial(workflow', audit', monitor'),
           RequestSerial(x, workflow', audit')
    PROVE  SerialInv'
<1>1. \A q \in Requests : req'[q] = x
  BY DEF IInv, TypeOK, Goto, Serial
<1> QED BY <1>1 DEF SerialInv

\* The steps of a request that read.
LEMMA SerialReads ==
    ASSUME IInv, SerialInv, Serial, NEW r \in Requests,
           \/ PassedBegin(r) \/ PassedAuditor(r)
           \/ CancelBegin(r) \/ CancelCheck(r) \/ CancelAuditor(r)
           \/ TimingBegin(r) \/ TimingCheck(r)
           \/ ExecuteBegin(r) \/ ExecuteWindow(r) \/ ExecuteUnschedule(r) \/ ExecuteEnqueue(r)
           \/ AlterBegin(r) \/ ApiBegin(r) \/ ApiWorkflow(r)
           \/ OperateRefused(r) \/ RequestDies(r)
    PROVE  SerialInv'
<1>i. /\ req[r] \in Request /\ RequestSerial(req[r], workflow, audit)
      /\ RowsSerial(workflow, audit, monitor)
  BY InProgress DEF SerialInv
<1>u. UNCHANGED <<workflow, audit, monitor>>
  BY DEF PassedBegin, PassedAuditor, CancelBegin, CancelCheck, CancelAuditor, TimingBegin, TimingCheck,
         ExecuteBegin, ExecuteWindow, ExecuteUnschedule, ExecuteEnqueue, AlterBegin, ApiBegin,
         ApiWorkflow, OperateRefused, RequestDies, Begin, rows, cluster
<1>s. ASSUME NEW x, Goto(r, x), RequestSerial(x, workflow, audit) PROVE SerialInv'
  BY <1>i, <1>u, <1>s, SerialStep
<1>d. Done(r) => SerialInv'
  BY <1>s DEF Done, Idle, New, RequestSerial, ReleaseSteps
<1>1. CASE PassedBegin(r)
  BY <1>1, <1>s DEF PassedBegin, New, RequestSerial, ReleaseSteps
<1>2. CASE PassedAuditor(r)
  BY <1>2, <1>s, <1>i DEF PassedAuditor, Continue, Request, RequestSerial, ReleaseSteps
<1>3. CASE CancelBegin(r)
  BY <1>3, <1>s DEF CancelBegin, New, RequestSerial, ReleaseSteps
<1>4. CASE CancelCheck(r)
  BY <1>4, <1>s, <1>d, <1>i DEF CancelCheck, Continue, Request, RequestSerial, ReleaseSteps
<1>5. CASE CancelAuditor(r)
  BY <1>5, <1>s, <1>i DEF CancelAuditor, Continue, Request, RequestSerial, ReleaseSteps
<1>6. CASE TimingBegin(r)
  BY <1>6, <1>s DEF TimingBegin, New, RequestSerial, ReleaseSteps
<1>7. CASE TimingCheck(r)
  BY <1>7, <1>s, <1>d, <1>i DEF TimingCheck, Continue, Request, RequestSerial, RowsSerial, ReleaseSteps, Executable, Approvals
<1>8. CASE ExecuteBegin(r)
  BY <1>8, <1>s, <1>i DEF ExecuteBegin, New, RequestSerial, RowsSerial, ReleaseSteps, Executable, Approvals
<1>9. CASE ExecuteWindow(r)
  BY <1>9, <1>s, <1>d, <1>i DEF ExecuteWindow, Continue, New, RequestSerial, ReleaseSteps
<1>10. CASE ExecuteUnschedule(r)
  BY <1>10, <1>s, <1>i DEF ExecuteUnschedule, Continue, New, RequestSerial, ReleaseSteps
<1>11. CASE AlterBegin(r)
  BY <1>11, <1>s, <1>i DEF AlterBegin, CanReview, New, RequestSerial, ReleaseSteps
<1>12. CASE ApiBegin(r)
  BY <1>12, <1>s, <1>i DEF ApiBegin, Begin, Serial, New, RequestSerial, ReleaseSteps
<1>13. CASE ApiWorkflow(r)
  BY <1>13, <1>s, <1>i DEF ApiWorkflow, Continue, Request, RequestSerial, ReleaseSteps
<1>14. CASE ExecuteEnqueue(r) \/ OperateRefused(r) \/ RequestDies(r)
  BY <1>14, <1>d DEF ExecuteEnqueue, OperateRefused, RequestDies
<1> QED BY <1>1, <1>2, <1>3, <1>4, <1>5, <1>6, <1>7, <1>8, <1>9, <1>10, <1>11, <1>12, <1>13, <1>14

\* The steps of a request that write a row.
LEMMA SerialWrites ==
    ASSUME IInv, SerialInv, Serial, NEW r \in Requests,
           \/ Submit(r) \/ SubmitStatus(r)
           \/ PassedOperate(r) \/ CancelOperate(r)
           \/ TimingSave(r) \/ ExecuteQueue(r) \/ ExecuteManual(r)
           \/ AlterSave(r)
           \/ ApiOperate(r) \/ ApiPassed(r) \/ ApiUnschedule(r) \/ ApiAborted(r)
    PROVE  SerialInv'
<1>i. /\ req[r] \in Request /\ req[r].row \in Row /\ req[r].audit \in WorkflowAudit
      /\ req[r].action \in {"PASS", "REJECT", "ABORT"}
      /\ workflow \in Row /\ audit \in WorkflowAudit
      /\ RequestSerial(req[r], workflow, audit)
      /\ RowsSerial(workflow, audit, monitor)
      /\ req[r].pc = "submit" => req[r].row.status = "workflow_manreviewing"
      /\ workflow.status = "none" => monitor.pc = "idle"
  BY InProgress DEF SerialInv, RequestBacked, IInv, Backed, NothingYet
<1>d. ASSUME Done(r), RowsSerial(workflow', audit', monitor') PROVE SerialInv'
  BY <1>d, SerialStep DEF Done, Idle, New, RequestSerial, ReleaseSteps
<1>1. CASE Submit(r)
  <2>1. PICK outcome \in AutoOutcomes :
           /\ workflow.status = "none" /\ workflow'.status = "workflow_manreviewing"
           /\ audit' = CreateAudit(outcome) /\ UNCHANGED monitor
           /\ Goto(r, [New("submit") EXCEPT !.row = workflow', !.audit = audit'])
    BY <1>1 DEF Submit, cluster
  <2>2. RowsSerial(workflow', audit', monitor')
    BY <1>i, <2>1 DEF RowsSerial, Startable, Approvals, IInv, TypeOK
  <2>3. RequestSerial([New("submit") EXCEPT !.row = workflow', !.audit = audit'], workflow', audit')
    BY DEF New, RequestSerial, ReleaseSteps
  <2> QED BY <2>1, <2>2, <2>3, SerialStep
<1>2. CASE SubmitStatus(r)
  <2>1. UNCHANGED <<audit, monitor>> /\ Done(r)
    BY <1>2 DEF SubmitStatus, cluster
  <2>2. RowsSerial(workflow', audit, monitor)
    BY <1>2, <1>i DEF SubmitStatus, Continue, Row, RowsSerial, RequestSerial, Startable, Approvals
  <2> QED BY <1>d, <2>1, <2>2
<1>3. CASE PassedOperate(r)
  <2>1. /\ req[r].pc = "passedOperate" /\ Done(r) /\ UNCHANGED monitor
        /\ CanOperate(req[r].audit, req[r].action, req[r].actor) /\ audit' = Operated(r)
        /\ workflow' = IF Operated(r).status = "PASSED"
                       THEN [req[r].row EXCEPT !.status = "workflow_review_pass"]
                       ELSE workflow
    BY <1>3 DEF PassedOperate, Continue, SaveAudit, cluster
  <2>2. audit.status = "WAITING" /\ Operated(r).status \in {"WAITING", "PASSED"}
    BY <1>i, <2>1, OperatedStatus DEF Operated, RequestSerial
  <2>3. RowsSerial(workflow', audit', monitor)
    BY <1>i, <2>1, <2>2 DEF Row, RowsSerial, RequestSerial, Startable, Approvals
  <2> QED BY <1>d, <2>1, <2>3
<1>4. CASE CancelOperate(r)
  <2>1. /\ req[r].pc = "cancelOperate" /\ Done(r) /\ UNCHANGED monitor
        /\ CanOperate(req[r].audit, req[r].action, req[r].actor) /\ audit' = Operated(r)
        /\ workflow' = [req[r].row EXCEPT !.status = "workflow_abort"]
    BY <1>4 DEF CancelOperate, Continue, SaveAudit, cluster
  <2>2. audit'.status \in {"REJECTED", "ABORTED"}
    BY <1>i, <2>1, OperatedStatus DEF Operated, RequestSerial
  <2>3. RowsSerial(workflow', audit', monitor)
    BY <1>i, <2>1, <2>2 DEF Row, RowsSerial, RequestSerial, Startable, Approvals
  <2> QED BY <1>d, <2>1, <2>3
<1>5. CASE TimingSave(r)
  <2>1. UNCHANGED <<audit, monitor>> /\ Done(r)
    BY <1>5 DEF TimingSave, cluster
  <2>2. RowsSerial(workflow', audit, monitor)
    BY <1>5, <1>i DEF TimingSave, Continue, Row, RowsSerial, RequestSerial, Startable, Approvals, ReleaseSteps
  <2> QED BY <1>d, <2>1, <2>2
<1>6. CASE ExecuteQueue(r)
  <2>1. UNCHANGED <<audit, monitor>> /\ Goto(r, New("executeUnschedule"))
    BY <1>6 DEF ExecuteQueue, cluster
  <2>2. RowsSerial(workflow', audit, monitor) /\ audit.status = "PASSED"
    BY <1>6, <1>i DEF ExecuteQueue, Continue, Row, RowsSerial, RequestSerial, Startable, Approvals, ReleaseSteps
  <2>3. RequestSerial(New("executeUnschedule"), workflow', audit)
    BY <2>2 DEF New, RequestSerial
  <2> QED BY <2>1, <2>2, <2>3, SerialStep
<1>7. CASE ExecuteManual(r) \/ ApiPassed(r)
  <2>1. UNCHANGED <<audit, monitor>> /\ Done(r)
    BY <1>7 DEF ExecuteManual, ApiPassed, cluster
  <2>2. RowsSerial(workflow', audit, monitor)
    BY <1>7, <1>i DEF ExecuteManual, ApiPassed, Continue, Row, RowsSerial, RequestSerial, Startable, Approvals, ReleaseSteps
  <2> QED BY <1>d, <2>1, <2>2
<1>8. CASE AlterSave(r)
  <2>1. UNCHANGED <<audit, monitor>> /\ Done(r)
    BY <1>8 DEF AlterSave, cluster
  <2>2. RowsSerial(workflow', audit, monitor)
    BY <1>8, <1>i DEF AlterSave, Continue, Row, RowsSerial, RequestSerial, Startable, Approvals
  <2> QED BY <1>d, <2>1, <2>2
<1>9. CASE ApiOperate(r)
  <2>1. /\ req[r].pc = "apiOperate" /\ UNCHANGED <<workflow, monitor>>
        /\ CanOperate(req[r].audit, req[r].action, req[r].actor) /\ audit' = Operated(r)
    BY <1>9 DEF ApiOperate, Continue, SaveAudit, cluster
  <2>2. audit.status = "WAITING" /\ Operated(r).status \in {"WAITING", "PASSED"}
    BY <1>i, <2>1, OperatedStatus DEF Operated, RequestSerial
  <2>3. RowsSerial(workflow', audit', monitor')
    BY <1>i, <2>1, <2>2 DEF RowsSerial, Startable, Approvals
  <2>4. \/ Goto(r, New("apiPassed")) /\ audit'.status = "PASSED"
        \/ Done(r)
    BY <1>9, <2>1, <2>2 DEF ApiOperate
  <2>5. audit'.status = "PASSED" => RequestSerial(New("apiPassed"), workflow', audit')
    BY DEF New, RequestSerial
  <2> QED BY <1>d, <2>3, <2>4, <2>5, SerialStep
<1>10. CASE ApiUnschedule(r) \/ ApiAborted(r)
  BY <1>10, <1>i DEF ApiUnschedule, ApiAborted, Continue, RequestSerial
<1> QED BY <1>1, <1>2, <1>3, <1>4, <1>5, <1>6, <1>7, <1>8, <1>9, <1>10

\* Every step keeps the agreement, and a step that starts the SQL finds the row
\* released.
LEMMA NextSerial ==
    ASSUME Serial, IInv, ReleaseUsed, SerialInv, [Next]_vars
    PROVE  /\ SerialInv'
           /\ runs' > runs => workflow.status \in Startable
<1>i. /\ workflow \in Row /\ monitor.row \in Row /\ runs \in Nat
      /\ RowsSerial(workflow, audit, monitor)
      /\ \A r \in Requests : RequestSerial(req[r], workflow, audit)
  BY DEF IInv, TypeOK, SerialInv
<1>r. runs' = runs => ~(runs' > runs)
  BY <1>i
<1>c. ASSUME UNCHANGED <<audit, req>>, RowsSerial(workflow', audit, monitor'),
             workflow'.window = workflow.window
      PROVE  SerialInv'
  BY <1>c, <1>i DEF SerialInv, RequestSerial
<1>1. ASSUME NEW r \in Requests, Review(r) \/ Release(r) \/ RequestDies(r)
      PROVE  SerialInv' /\ runs' = runs
  BY <1>1, SerialReads, SerialWrites, RequestReleaseUsed DEF Review, Release
<1>2. ASSUME NEW w \in Workers, Execute(w)
      PROVE  SerialInv' /\ workflow.status \in Startable
  <2>1. /\ workflow.status \in Startable /\ UNCHANGED <<audit, monitor, req>>
        /\ workflow' = [workflow EXCEPT !.status = "workflow_executing"]
    BY <1>2 DEF Execute
  <2>2. RowsSerial(workflow', audit, monitor') /\ workflow'.window = workflow.window
    BY <1>i, <2>1 DEF Row, RowsSerial, Startable, Approvals
  <2> QED BY <1>c, <2>1, <2>2
<1>3. ASSUME NEW w \in Workers,
             ExecuteRefused(w) \/ ExecuteEnds(w) \/ WorkerDies(w)
      PROVE  SerialInv' /\ runs' = runs
  BY <1>3, <1>c, <1>i DEF ExecuteRefused, ExecuteEnds, WorkerDies, rows, history
<1>4. ASSUME NEW w \in Workers, ExportRead(w) \/ ExportSave(w) PROVE FALSE
  BY <1>4 DEF ExportRead, ExportSave, ReleaseUsed, Serial
<1>5. ASSUME ScheduleDue \/ TaskLost PROVE SerialInv' /\ runs' = runs
  BY <1>5, <1>c, <1>i DEF ScheduleDue, TaskLost, rows, history
<1>6. ASSUME CallbackBegin PROVE SerialInv' /\ runs' = runs
  <2>1. /\ UNCHANGED <<workflow, audit, req, runs>>
        /\ \/ UNCHANGED monitor
           \/ /\ workflow.status = "workflow_executing"
              /\ monitor'.row = workflow
    BY <1>6 DEF CallbackBegin, rows, history
  <2>2. RowsSerial(workflow, audit, monitor')
    BY <1>i, <2>1 DEF RowsSerial
  <2> QED BY <1>c, <2>1, <2>2
<1>7. ASSUME CallbackSave \/ CallbackSaveFails PROVE SerialInv' /\ runs' = runs
  <2>1. /\ monitor.pc = "save" /\ monitor'.pc = "idle" /\ UNCHANGED <<audit, req, runs>>
        /\ \E row \in {workflow, monitor.row}, s \in {"workflow_finish", "workflow_exception"} :
             workflow' = [row EXCEPT !.status = s]
    BY <1>7 DEF CallbackSave, CallbackSaveFails, FreeMonitor, history
  <2>2. RowsSerial(workflow', audit, monitor') /\ workflow'.window = workflow.window
    BY <1>i, <2>1 DEF Row, RowsSerial, Startable, Approvals
  <2> QED BY <1>c, <2>1, <2>2
<1>8. ASSUME MonitorDies PROVE SerialInv' /\ runs' = runs
  <2>1. monitor'.pc = "idle" /\ UNCHANGED <<workflow, audit, req, runs>>
    BY <1>8 DEF MonitorDies, FreeMonitor, rows, history
  <2> QED BY <1>c, <1>i, <2>1 DEF RowsSerial
<1>9. ASSUME Tick \/ UNCHANGED vars PROVE SerialInv' /\ runs' = runs
  BY <1>9, <1>c, <1>i DEF Tick, vars, rows, cluster, history
<1> QED BY <1>r, <1>1, <1>2, <1>3, <1>4, <1>5, <1>6, <1>7, <1>8, <1>9 DEF Next, Work, Callback

\* The invariant of the theorems below.
SerialIInv == IInv /\ ReleaseUsed /\ SerialInv

LEMMA SerialInduction ==
    ASSUME Serial
    PROVE  /\ Init => SerialIInv
           /\ SerialIInv /\ [Next]_vars => SerialIInv'
<1>1. Export = FALSE
  BY InstanceAssumption DEF Serial
<1> QED BY <1>1, InitIInv, InitReleaseUsed, InitSerial, NextIInv, NextReleaseUsed, NextSerial DEF SerialIInv

\* The SQL of a workflow that was withdrawn or rejected never starts, whatever
\* task or schedule is left over from before, and wherever a process dies.
THEOREM NeverStartsWithdrawn == ASSUME Serial PROVE Spec => StartsOnlyWhilePassed
<1>1. (Init => SerialIInv) /\ (SerialIInv /\ [Next]_vars => SerialIInv')
  BY SerialInduction
<1>2. SerialIInv /\ [Next]_vars => [runs' > runs => audit.status = "PASSED"]_vars
  BY NextSerial DEF SerialIInv, SerialInv, RowsSerial, Startable, Approvals
<1> QED BY <1>1, <1>2, PTL DEF Spec, StartsOnlyWhilePassed

----------------------------------------------------------------------------
(***************************************************************************)
(* The beginning of the window.  A task in the queue, a schedule that      *)
(* waits and a request about to write either were let through by           *)
(* on_correct_time_period; the window changes only while the audit row     *)
(* waits, when there is no task and no such schedule; and time goes on.    *)
(* (Of the end of the window nothing of the kind is kept.)                 *)
(***************************************************************************)
EarlyRequest(x, start, time) ==
    /\ x.pc = "timingSave" => start <= x.date
    /\ x.pc \in {"executeQueue", "executeUnschedule", "executeEnqueue"} => start <= time

EarlyTasks(row, a, s, q, time) ==
    /\ q > 0 => row.window.start <= time
    /\ s.state = "waiting" => row.window.start <= s.date
    /\ a.status = "WAITING" \/ row.status = "none" => q = 0 /\ s.state # "waiting"

EarlyInv ==
    /\ EarlyTasks(workflow, audit, schedule, queued, now)
    /\ \A r \in Requests : EarlyRequest(req[r], workflow.window.start, now)

LEMMA InitEarly == Init => EarlyInv
BY DEF Init, EarlyInv, EarlyRequest, EarlyTasks, NoRow, NoAudit, NoSchedule, Idle, New

\* The times are numbers.
LEMMA TimesAreNumbers ==
    ASSUME IInv
    PROVE  /\ workflow \in Row /\ workflow.window.start \in Int
           /\ now \in Int /\ schedule.date \in Int /\ queued \in Nat
           /\ \A r \in Requests : req[r].date \in Int
BY InstanceAssumption DEF IInv, TypeOK, Row, Schedule, Times, Request

\* A step that keeps the window and starts no new task or schedule.
LEMMA EarlyTasksKept ==
    ASSUME IInv, EarlyInv, workflow'.window = workflow.window,
           queued' \in 0 .. queued, schedule' \in {schedule, NoSchedule}, now' \in {now, now + 1},
           audit'.status = "WAITING" \/ workflow'.status = "none" =>
               audit.status = "WAITING" \/ workflow.status = "none"
    PROVE  EarlyTasks(workflow, audit, schedule, queued, now)'
BY TimesAreNumbers DEF EarlyInv, EarlyTasks, NoSchedule

LEMMA EarlyStep ==
    ASSUME IInv, Serial, NEW r \in Requests, NEW x, Goto(r, x),
           EarlyTasks(workflow, audit, schedule, queued, now)',
           EarlyRequest(x, workflow'.window.start, now')
    PROVE  EarlyInv'
<1>1. \A q \in Requests : req'[q] = x
  BY DEF IInv, TypeOK, Goto, Serial
<1> QED BY <1>1 DEF EarlyInv

\* The steps of a request that write neither row.
LEMMA EarlyReads ==
    ASSUME Serial, IInv, SerialInv, EarlyInv, NEW r \in Requests,
           \/ PassedBegin(r) \/ PassedAuditor(r)
           \/ CancelBegin(r) \/ CancelCheck(r) \/ CancelAuditor(r)
           \/ TimingBegin(r) \/ TimingCheck(r)
           \/ ExecuteBegin(r) \/ ExecuteWindow(r) \/ ExecuteUnschedule(r) \/ ExecuteEnqueue(r)
           \/ AlterBegin(r) \/ ApiBegin(r) \/ ApiWorkflow(r)
           \/ OperateRefused(r) \/ RequestDies(r)
    PROVE  EarlyInv'
<1>i. /\ req[r] \in Request /\ EarlyRequest(req[r], workflow.window.start, now)
      /\ RequestSerial(req[r], workflow, audit)
      /\ RowsSerial(workflow, audit, monitor)
  BY InProgress DEF EarlyInv, SerialInv
<1>u. UNCHANGED <<workflow, audit, now>>
  BY DEF PassedBegin, PassedAuditor, CancelBegin, CancelCheck, CancelAuditor, TimingBegin, TimingCheck,
         ExecuteBegin, ExecuteWindow, ExecuteUnschedule, ExecuteEnqueue, AlterBegin, ApiBegin,
         ApiWorkflow, OperateRefused, RequestDies, Begin, Continue, Crash, rows
<1>s. ASSUME NEW x, Goto(r, x), schedule' \in {schedule, NoSchedule}, queued' = queued,
             EarlyRequest(x, workflow.window.start, now)
      PROVE  EarlyInv'
  <2>1. queued' \in 0 .. queued
    BY <1>s, TimesAreNumbers
  <2> QED BY <1>s, <1>u, <2>1, EarlyTasksKept, EarlyStep
\* What is not about to write a schedule or a task.
<1>o. ASSUME NEW x, Goto(r, x), UNCHANGED <<schedule, queued>>,
             x.pc \notin {"timingSave", "executeQueue", "executeUnschedule", "executeEnqueue"}
      PROVE  EarlyInv'
  BY <1>s, <1>o DEF EarlyRequest
<1>n. Idle.pc = "idle" /\ \A pc : New(pc).pc = pc
  BY DEF Idle, New
<1>1. CASE PassedBegin(r)
  BY <1>1, <1>o DEF PassedBegin, Begin, New, rows, cluster
<1>2. CASE PassedAuditor(r) \/ CancelAuditor(r)
  BY <1>2, <1>o, <1>i DEF PassedAuditor, CancelAuditor, Request, rows, cluster
<1>3. CASE CancelBegin(r)
  BY <1>3, <1>o DEF CancelBegin, Begin, New, rows, cluster
<1>4. CASE CancelCheck(r)
  BY <1>4, <1>o, <1>i, <1>n DEF CancelCheck, Done, Request, rows, cluster
<1>5. CASE TimingBegin(r)
  BY <1>5, <1>o DEF TimingBegin, Begin, New, rows, cluster
<1>6. CASE TimingCheck(r)
  <2>1. UNCHANGED <<schedule, queued>>
    BY <1>6 DEF TimingCheck, rows, cluster
  <2>2. CASE Goto(r, Idle)
    BY <2>1, <2>2, <1>o, <1>n
  <2>3. CASE Goto(r, [req[r] EXCEPT !.pc = "timingSave"]) /\ OnCorrectTimePeriod(req[r].date)
    <3> DEFINE x == [req[r] EXCEPT !.pc = "timingSave"]
    <3>1. x.pc = "timingSave" /\ x.date = req[r].date
      BY <1>i DEF Request
    <3>2. Goto(r, x)
      BY <2>3
    <3>3. workflow.window.start <= req[r].date
      BY <2>3 DEF OnCorrectTimePeriod
    <3> HIDE DEF x
    <3> QED BY <2>1, <3>1, <3>2, <3>3, <1>s DEF EarlyRequest
  <2> QED BY <1>6, <2>2, <2>3 DEF TimingCheck, Done
<1>7. CASE ExecuteBegin(r)
  BY <1>7, <1>o, <1>n DEF ExecuteBegin, Begin, rows, cluster
<1>8. CASE ExecuteWindow(r)
  <2>1. UNCHANGED <<schedule, queued>>
    BY <1>8 DEF ExecuteWindow, rows, cluster
  <2>2. CASE Goto(r, Idle)
    BY <2>1, <2>2, <1>o, <1>n
  <2>3. ASSUME NEW pc, Goto(r, New(pc)), OnCorrectTimePeriod(now), pc # "timingSave" PROVE EarlyInv'
    BY <2>1, <2>3, <1>s, <1>n DEF EarlyRequest, OnCorrectTimePeriod
  <2> QED BY <1>8, <2>2, <2>3 DEF ExecuteWindow, Done
<1>9. CASE ExecuteUnschedule(r)
  BY <1>9, <1>s, <1>i, <1>n DEF ExecuteUnschedule, Continue, EarlyRequest, cluster
<1>10. CASE ExecuteEnqueue(r)
  <2>1. /\ workflow.window.start <= now /\ audit.status = "PASSED" /\ workflow.status # "none"
        /\ queued' = queued + 1 /\ UNCHANGED schedule /\ Goto(r, Idle)
    BY <1>10, <1>i, InProgress DEF ExecuteEnqueue, Continue, Done, EarlyRequest, RequestSerial, ReleaseSteps, rows
  <2>2. EarlyTasks(workflow, audit, schedule, queued, now)'
    BY <1>u, <2>1, TimesAreNumbers DEF EarlyInv, EarlyTasks
  <2> QED BY <2>1, <2>2, <1>n, EarlyStep DEF EarlyRequest
<1>11. CASE AlterBegin(r)
  BY <1>11, <1>o, <1>n DEF AlterBegin, Begin, rows, cluster
<1>12. CASE ApiBegin(r)
  BY <1>12, <1>o DEF ApiBegin, Begin, New, rows, cluster
<1>13. CASE ApiWorkflow(r)
  BY <1>13, <1>o, <1>i DEF ApiWorkflow, Request, rows, cluster
<1>14. CASE OperateRefused(r) \/ RequestDies(r)
  BY <1>14, <1>o, <1>n DEF OperateRefused, RequestDies, Done, rows, cluster
<1> QED BY <1>1, <1>2, <1>3, <1>4, <1>5, <1>6, <1>7, <1>8, <1>9, <1>10, <1>11, <1>12, <1>13, <1>14

\* The steps of a request that write a row: all but two put the window back that
\* is there, and those two come when nothing is under way.
LEMMA EarlyWrites ==
    ASSUME Serial, IInv, SerialInv, EarlyInv, NEW r \in Requests,
           \/ Submit(r) \/ SubmitStatus(r)
           \/ PassedOperate(r) \/ CancelOperate(r)
           \/ TimingSave(r) \/ ExecuteQueue(r) \/ ExecuteManual(r)
           \/ AlterSave(r)
           \/ ApiOperate(r) \/ ApiPassed(r) \/ ApiUnschedule(r) \/ ApiAborted(r)
    PROVE  EarlyInv'
<1>i. /\ req[r] \in Request /\ req[r].row \in Row /\ req[r].audit \in WorkflowAudit
      /\ req[r].action \in {"PASS", "REJECT", "ABORT"}
      /\ workflow \in Row /\ audit \in WorkflowAudit
      /\ RequestSerial(req[r], workflow, audit)
      /\ EarlyRequest(req[r], workflow.window.start, now)
      /\ EarlyTasks(workflow, audit, schedule, queued, now)
      /\ req[r].pc = "submit" => req[r].row.status = "workflow_manreviewing"
      /\ req[r].pc # "idle" => workflow.status # "none"
  BY InProgress DEF SerialInv, EarlyInv, RequestBacked
<1>n. Idle.pc = "idle" /\ \A pc : New(pc).pc = pc
  BY DEF Idle, New
<1>u. \A row \in Row : \A s \in Status :
         [row EXCEPT !.status = s].status = s /\ [row EXCEPT !.status = s].window = row.window
  BY DEF Row
<1>t. {"workflow_manreviewing", "workflow_autoreviewwrong", "workflow_review_pass",
       "workflow_timingtask", "workflow_queuing", "workflow_finish", "workflow_abort"}
          \subseteq Status \ {"none"}
  BY DEF Status, Released, Ended
\* The window is kept, and no task or schedule is added.
<1>k. ASSUME NEW x, Goto(r, x), workflow'.window = workflow.window, workflow'.status # "none",
             UNCHANGED <<queued, now>>, schedule' \in {schedule, NoSchedule},
             audit'.status = "WAITING" => audit.status = "WAITING",
             EarlyRequest(x, workflow.window.start, now)
      PROVE  EarlyInv'
  <2>1. queued' \in 0 .. queued
    BY <1>k, TimesAreNumbers
  <2> QED BY <1>k, <2>1, EarlyTasksKept, EarlyStep
<1>1. CASE Submit(r)
  <2>1. /\ workflow.status = "none" /\ UNCHANGED <<schedule, queued>>
        /\ Goto(r, [New("submit") EXCEPT !.row = workflow', !.audit = audit'])
    BY <1>1 DEF Submit, cluster
  <2>2. EarlyTasks(workflow, audit, schedule, queued, now)'
    BY <1>i, <2>1 DEF EarlyTasks
  <2>3. [New("submit") EXCEPT !.row = workflow', !.audit = audit'].pc = "submit"
    BY DEF New
  <2> QED BY <2>1, <2>2, <2>3, EarlyStep DEF EarlyRequest
<1>2. CASE SubmitStatus(r)
  <2>1. /\ req[r].pc = "submit" /\ UNCHANGED <<audit, schedule, queued, now>> /\ Goto(r, Idle)
        /\ req[r].row.window = workflow.window
    BY <1>2, <1>i DEF SubmitStatus, Continue, Done, RequestSerial, cluster
  <2>2. PICK s \in {"workflow_manreviewing", "workflow_autoreviewwrong", "workflow_review_pass"} :
          workflow' = [req[r].row EXCEPT !.status = s]
    BY <1>2, <1>i, <2>1 DEF SubmitStatus
  <2>3. workflow'.status = s /\ s # "none" /\ workflow'.window = workflow.window
    BY <1>i, <1>t, <1>u, <2>1, <2>2
  <2> QED BY <1>k, <1>n, <2>1, <2>3 DEF EarlyRequest
<1>3. CASE PassedOperate(r) \/ CancelOperate(r)
  <2>1. /\ req[r].pc \in {"passedOperate", "cancelOperate"} /\ Goto(r, Idle) /\ UNCHANGED <<queued, now>>
        /\ schedule' \in {schedule, NoSchedule}
        /\ req[r].row.window = workflow.window
        /\ CanOperate(req[r].audit, req[r].action, req[r].actor) /\ audit' = Operated(r)
        /\ \/ workflow' = workflow
           \/ \E s \in {"workflow_review_pass", "workflow_abort"} : workflow' = [req[r].row EXCEPT !.status = s]
    BY <1>3, <1>i DEF PassedOperate, CancelOperate, Continue, SaveAudit, Done, RequestSerial, cluster
  <2>2. workflow'.window = workflow.window /\ workflow'.status # "none"
    <3>1. CASE workflow' = workflow
      BY <1>i, <2>1, <3>1
    <3>2. ASSUME NEW s \in {"workflow_review_pass", "workflow_abort"},
                 workflow' = [req[r].row EXCEPT !.status = s]
          PROVE  workflow'.window = workflow.window /\ workflow'.status # "none"
      BY <1>i, <1>t, <1>u, <2>1, <3>2
    <3> QED BY <2>1, <3>1, <3>2
  <2>3. audit'.status = "WAITING" => audit.status = "WAITING"
    BY <1>i, <2>1, OperatedStatus DEF Operated, RequestSerial
  <2> QED BY <1>k, <1>n, <2>1, <2>2, <2>3 DEF EarlyRequest
<1>4. CASE TimingSave(r)
  <2>1. /\ req[r].pc = "timingSave" /\ Goto(r, Idle) /\ UNCHANGED <<audit, queued, now>>
        /\ schedule' = [state |-> "waiting", date |-> req[r].date]
        /\ req[r].row.window = workflow.window /\ audit.status = "PASSED"
        /\ workflow' = [req[r].row EXCEPT !.status = "workflow_timingtask"]
        /\ workflow.window.start <= req[r].date
    BY <1>4, <1>i DEF TimingSave, Continue, Done, RequestSerial, EarlyRequest, ReleaseSteps, cluster
  <2>2. workflow'.window = workflow.window /\ workflow'.status # "none"
    BY <1>i, <1>t, <1>u, <2>1
  <2>3. schedule'.date = req[r].date /\ schedule'.state = "waiting"
    BY <2>1
  <2>4. EarlyTasks(workflow, audit, schedule, queued, now)'
    BY <1>i, <2>1, <2>2, <2>3 DEF EarlyTasks
  <2> QED BY <1>n, <2>1, <2>4, EarlyStep DEF EarlyRequest
<1>5. CASE ExecuteQueue(r)
  <2>1. /\ req[r].pc = "executeQueue" /\ Goto(r, New("executeUnschedule"))
        /\ UNCHANGED <<audit, schedule, queued, now>>
        /\ workflow' = [workflow EXCEPT !.status = "workflow_queuing"]
    BY <1>5 DEF ExecuteQueue, Continue, cluster
  <2>2. workflow'.window = workflow.window /\ workflow'.status # "none"
    BY <1>i, <1>t, <1>u, <2>1
  <2> QED BY <1>k, <1>i, <1>n, <2>1, <2>2 DEF EarlyRequest
<1>6. CASE ExecuteManual(r) \/ ApiPassed(r)
  <2>1. /\ Goto(r, Idle) /\ UNCHANGED <<audit, schedule, queued, now>>
        /\ \E s \in {"workflow_finish", "workflow_review_pass"} : workflow' = [workflow EXCEPT !.status = s]
    BY <1>6 DEF ExecuteManual, ApiPassed, Continue, Done, cluster
  <2>2. workflow'.window = workflow.window /\ workflow'.status # "none"
    BY <1>i, <1>t, <1>u, <2>1
  <2> QED BY <1>k, <1>n, <2>1, <2>2 DEF EarlyRequest
<1>7. CASE AlterSave(r)
  <2>1. /\ req[r].pc = "alterSave" /\ audit.status = "WAITING" /\ Goto(r, Idle)
        /\ UNCHANGED <<audit, schedule, queued>>
    BY <1>7, <1>i DEF AlterSave, Continue, Done, RequestSerial, cluster
  <2>2. EarlyTasks(workflow, audit, schedule, queued, now)'
    BY <1>i, <2>1 DEF EarlyTasks
  <2> QED BY <1>n, <2>1, <2>2, EarlyStep DEF EarlyRequest
<1>8. CASE ApiOperate(r)
  <2>1. /\ req[r].pc = "apiOperate" /\ UNCHANGED <<workflow, schedule, queued, now>>
        /\ CanOperate(req[r].audit, req[r].action, req[r].actor) /\ audit' = Operated(r)
    BY <1>8 DEF ApiOperate, Continue, SaveAudit, cluster
  <2>2. audit'.status = "WAITING" => audit.status = "WAITING"
    BY <1>i, <2>1, OperatedStatus DEF Operated, RequestSerial
  <2>3. \/ Goto(r, Idle)
        \/ \E pc \in {"apiPassed", "apiUnschedule", "apiAborted"} : Goto(r, New(pc))
    BY <1>8 DEF ApiOperate, Done
  <2> QED BY <1>k, <1>i, <1>n, <2>1, <2>2, <2>3 DEF EarlyRequest
<1>9. CASE ApiUnschedule(r) \/ ApiAborted(r)
  BY <1>9, <1>i DEF ApiUnschedule, ApiAborted, Continue, RequestSerial
<1> QED BY <1>1, <1>2, <1>3, <1>4, <1>5, <1>6, <1>7, <1>8, <1>9

LEMMA NextEarly ==
    ASSUME Serial, IInv, ReleaseUsed, SerialInv, EarlyInv, [Next]_vars
    PROVE  /\ EarlyInv'
           /\ runs' > runs => workflow.window.start <= now
<1>i. /\ workflow \in Row /\ monitor.row \in Row /\ runs \in Nat /\ queued \in Nat
      /\ RowsSerial(workflow, audit, monitor)
      /\ EarlyTasks(workflow, audit, schedule, queued, now)
      /\ \A r \in Requests : EarlyRequest(req[r], workflow.window.start, now)
      /\ \A r \in Requests : req[r].pc # "idle" => workflow.status # "none"
      /\ monitor.pc = "save" => workflow.status # "none"
  BY InProgress DEF IInv, TypeOK, SerialInv, EarlyInv, Backed, NothingYet
<1>r. runs' = runs => ~(runs' > runs)
  BY <1>i
<1>c. ASSUME UNCHANGED <<audit, req>>, workflow'.window = workflow.window,
             workflow'.status = "none" => workflow.status = "none",
             queued' \in 0 .. queued, schedule' = schedule, now' \in {now, now + 1}
      PROVE  EarlyInv'
  <2>1. EarlyTasks(workflow, audit, schedule, queued, now)'
    BY <1>c, EarlyTasksKept
  <2>2. \A r \in Requests : EarlyRequest(req[r], workflow'.window.start, now')
    BY <1>c, <1>i, TimesAreNumbers DEF EarlyRequest
  <2> QED BY <1>c, <2>1, <2>2 DEF EarlyInv
<1>q. queued \in 0 .. queued /\ (queued > 0 => queued - 1 \in 0 .. queued)
  BY <1>i
<1>1. ASSUME NEW r \in Requests, Review(r) \/ Release(r) \/ RequestDies(r)
      PROVE  EarlyInv' /\ runs' = runs
  BY <1>1, EarlyReads, EarlyWrites, RequestReleaseUsed DEF Review, Release
<1>2. ASSUME NEW w \in Workers, Execute(w)
      PROVE  EarlyInv' /\ workflow.window.start <= now
  <2>1. /\ UNCHANGED <<audit, schedule, req, now>> /\ queued > 0 /\ queued' = queued - 1
        /\ workflow' = [workflow EXCEPT !.status = "workflow_executing"]
    BY <1>2 DEF Execute
  <2>2. workflow'.window = workflow.window /\ workflow'.status # "none"
    BY <1>i, <2>1 DEF Row
  <2> QED BY <1>c, <1>i, <1>q, <2>1, <2>2 DEF EarlyTasks
<1>3. ASSUME NEW w \in Workers, ExecuteRefused(w) \/ ExecuteEnds(w) \/ WorkerDies(w)
      PROVE  EarlyInv' /\ runs' = runs
  <2>1. /\ UNCHANGED <<workflow, audit, schedule, req, now, runs>>
        /\ queued' = queued \/ (queued > 0 /\ queued' = queued - 1)
    BY <1>3 DEF ExecuteRefused, ExecuteEnds, WorkerDies, Crash, rows, history
  <2> QED BY <1>c, <1>q, <2>1
<1>4. ASSUME NEW w \in Workers, ExportRead(w) \/ ExportSave(w) PROVE FALSE
  BY <1>4 DEF ExportRead, ExportSave, ReleaseUsed, Serial
<1>5. ASSUME ScheduleDue PROVE EarlyInv' /\ runs' = runs
  <2>1. /\ schedule.state = "waiting" /\ now >= schedule.date /\ schedule'.state = "fired"
        /\ queued' = queued + 1 /\ UNCHANGED <<workflow, audit, req, now, runs>>
    BY <1>5 DEF ScheduleDue, history
  <2>2. workflow.window.start <= now
    BY <1>i, <2>1, TimesAreNumbers DEF EarlyTasks
  <2>3. EarlyTasks(workflow, audit, schedule, queued, now)'
    BY <1>i, <2>1, <2>2 DEF EarlyTasks
  <2> QED BY <1>i, <2>1, <2>3 DEF EarlyInv
<1>6. ASSUME TaskLost \/ CallbackBegin \/ MonitorDies PROVE EarlyInv' /\ runs' = runs
  <2>1. /\ UNCHANGED <<workflow, audit, schedule, req, now, runs>>
        /\ queued' = queued \/ (queued > 0 /\ queued' = queued - 1)
    BY <1>6 DEF TaskLost, CallbackBegin, MonitorDies, Crash, rows, history
  <2> QED BY <1>c, <1>q, <2>1
<1>7. ASSUME CallbackSave \/ CallbackSaveFails PROVE EarlyInv' /\ runs' = runs
  <2>1. /\ monitor.pc = "save" /\ UNCHANGED <<audit, schedule, queued, req, now, runs>>
        /\ \E row \in {workflow, monitor.row}, s \in {"workflow_finish", "workflow_exception"} :
             workflow' = [row EXCEPT !.status = s]
    BY <1>7 DEF CallbackSave, CallbackSaveFails, history
  <2>2. workflow'.window = workflow.window /\ workflow'.status # "none"
    BY <1>i, <2>1 DEF Row, RowsSerial
  <2> QED BY <1>c, <1>q, <2>1, <2>2
<1>8. ASSUME Tick \/ UNCHANGED vars PROVE EarlyInv' /\ runs' = runs
  <2>1. UNCHANGED <<workflow, audit, schedule, queued, req, runs>> /\ now' \in {now, now + 1}
    BY <1>8 DEF Tick, vars, rows, cluster, history
  <2> QED BY <1>c, <1>q, <2>1
<1> QED BY <1>r, <1>1, <1>2, <1>3, <1>4, <1>5, <1>6, <1>7, <1>8 DEF Next, Work, Callback

\* The SQL never starts before the run_date_start of the row, however long its
\* task has waited in the queue, whenever its schedule came due and wherever a
\* process dies: a reviewer moves the window only while the row waits for
\* approval, and what was approved is saved back with the window it has.
THEOREM NeverStartsBeforeWindow == ASSUME Serial PROVE Spec => NeverStartsEarly
<1> DEFINE Inv == SerialIInv /\ EarlyInv
<1>1. Init => Inv
  BY SerialInduction, InitEarly
<1>2. Inv /\ [Next]_vars => Inv'
  BY SerialInduction, NextEarly DEF SerialIInv
<1>3. Inv /\ [Next]_vars => [runs' > runs => workflow.window.start <= now]_vars
  BY NextEarly DEF SerialIInv
<1> HIDE DEF Inv
<1> QED BY <1>1, <1>2, <1>3, PTL DEF Spec, NeverStartsEarly

----------------------------------------------------------------------------
(***************************************************************************)
(* The row and its audit row. They are saved by one transaction in the     *)
(* views, but by two statements in the submission and in the API: a        *)
(* process that dies between them leaves them apart for good, so none dies *)
(* here.                                                                   *)
(***************************************************************************)
NobodyDies == MaxCrashes = 0

\* Only between the two statements do the rows disagree, and then the row lags.
ReviewRequest(x, row, a) ==
    /\ x.pc \in {"submit", "apiPassed"} => row.status = "workflow_manreviewing"
    /\ x.pc = "submit" => a.status # "ABORTED"
    /\ row.status # "none" /\ x.pc \notin {"submit", "apiPassed"} =>
         (row.status = "workflow_manreviewing" <=> a.status = "WAITING")

ReviewInv ==
    /\ workflow.status = "workflow_manreviewing" => monitor.pc = "idle"
    /\ \A r \in Requests : ReviewRequest(req[r], workflow, audit)

LEMMA InitReview == Init => ReviewInv
BY DEF Init, ReviewInv, ReviewRequest, NoRow, Idle, New

LEMMA ReviewStep ==
    ASSUME IInv, Serial, NEW r \in Requests, NEW x, Goto(r, x),
           workflow'.status = "workflow_manreviewing" => monitor'.pc = "idle",
           ReviewRequest(x, workflow', audit')
    PROVE  ReviewInv'
<1>1. \A q \in Requests : req'[q] = x
  BY DEF IInv, TypeOK, Goto, Serial
<1> QED BY <1>1 DEF ReviewInv

\* No process can die.
LEMMA NoDeaths ==
    ASSUME NobodyDies, IInv
    PROVE  ~Crash
BY DEF NobodyDies, IInv, TypeOK, Crash

LEMMA RequestReview ==
    ASSUME Serial, NobodyDies, IInv, SerialInv, ReviewInv, NEW r \in Requests, Review(r) \/ Release(r)
    PROVE  ReviewInv'
<1>i. /\ req[r] \in Request /\ req[r].row \in Row /\ req[r].audit \in WorkflowAudit
      /\ req[r].action \in {"PASS", "REJECT", "ABORT"}
      /\ workflow \in Row /\ audit \in WorkflowAudit
      /\ RequestSerial(req[r], workflow, audit)
      /\ RowsSerial(workflow, audit, monitor)
      /\ ReviewRequest(req[r], workflow, audit)
      /\ workflow.status = "workflow_manreviewing" => monitor.pc = "idle"
      /\ req[r].pc = "submit" => req[r].row.status = "workflow_manreviewing"
      /\ workflow.status = "none" => monitor.pc = "idle"
      /\ req[r].pc # "idle" => workflow.status # "none"
  BY InProgress DEF SerialInv, ReviewInv, RequestBacked, IInv, Backed, NothingYet
\* Steps that change neither row and are not about the submission or the API.
<1>s. ASSUME NEW x, Goto(r, x), UNCHANGED <<workflow, audit, monitor>>,
             req[r].pc \notin {"submit", "apiPassed"}, x.pc \notin {"submit", "apiPassed"}
      PROVE  ReviewInv'
  BY <1>i, <1>s, ReviewStep DEF ReviewRequest
<1>n. Idle.pc = "idle" /\ \A pc : New(pc).pc = pc
  BY DEF Idle, New
<1>1. CASE PassedBegin(r) \/ PassedAuditor(r) \/ CancelBegin(r) \/ CancelCheck(r) \/ CancelAuditor(r)
  <2>1. UNCHANGED <<workflow, audit, monitor>> /\ req[r].pc \notin {"submit", "apiPassed"}
    BY <1>1 DEF PassedBegin, PassedAuditor, CancelBegin, CancelCheck, CancelAuditor, Begin, Continue,
                rows, cluster
  <2>2. CASE PassedBegin(r)
    BY <2>1, <1>s, <2>2 DEF PassedBegin, New
  <2>3. CASE PassedAuditor(r) \/ CancelAuditor(r)
    BY <2>1, <1>s, <2>3, <1>i DEF PassedAuditor, CancelAuditor, Request
  <2>4. CASE CancelBegin(r)
    BY <2>1, <1>s, <2>4 DEF CancelBegin, New
  <2>5. CASE CancelCheck(r)
    BY <2>1, <1>s, <2>5, <1>i, <1>n DEF CancelCheck, Done, Request
  <2> QED BY <1>1, <2>2, <2>3, <2>4, <2>5
<1>2. CASE TimingBegin(r) \/ TimingCheck(r) \/ ExecuteBegin(r) \/ ExecuteWindow(r)
           \/ ExecuteUnschedule(r) \/ ExecuteEnqueue(r)
  <2>1. UNCHANGED <<workflow, audit, monitor>> /\ req[r].pc \notin {"submit", "apiPassed"}
    BY <1>2 DEF TimingBegin, TimingCheck, ExecuteBegin, ExecuteWindow, ExecuteUnschedule, ExecuteEnqueue,
                Begin, Continue, rows, cluster
  <2>2. CASE TimingBegin(r)
    BY <2>1, <1>s, <2>2 DEF TimingBegin, New
  <2>3. CASE TimingCheck(r)
    BY <2>1, <1>s, <2>3, <1>i, <1>n DEF TimingCheck, Done, Request
  <2>4. CASE ExecuteBegin(r) \/ ExecuteWindow(r) \/ ExecuteUnschedule(r) \/ ExecuteEnqueue(r)
    BY <2>1, <1>s, <2>4, <1>n DEF ExecuteBegin, ExecuteWindow, ExecuteUnschedule, ExecuteEnqueue, Done
  <2> QED BY <1>2, <2>2, <2>3, <2>4
<1>3. CASE AlterBegin(r) \/ ApiBegin(r) \/ ApiWorkflow(r) \/ OperateRefused(r)
  <2>1. UNCHANGED <<workflow, audit, monitor>> /\ req[r].pc \notin {"submit", "apiPassed"}
    BY <1>3 DEF AlterBegin, ApiBegin, ApiWorkflow, OperateRefused, Begin, Continue, rows, cluster
  <2>2. CASE AlterBegin(r) \/ OperateRefused(r)
    BY <2>1, <1>s, <2>2, <1>n DEF AlterBegin, OperateRefused, Done
  <2>3. CASE ApiBegin(r)
    BY <2>1, <1>s, <2>3 DEF ApiBegin, New
  <2>4. CASE ApiWorkflow(r)
    BY <2>1, <1>s, <2>4, <1>i DEF ApiWorkflow, Request
  <2> QED BY <1>3, <2>2, <2>3, <2>4
<1>4. CASE Submit(r)
  <2>1. PICK outcome \in AutoOutcomes :
           /\ workflow.status = "none" /\ workflow'.status = "workflow_manreviewing"
           /\ audit' = CreateAudit(outcome) /\ UNCHANGED monitor
           /\ Goto(r, [New("submit") EXCEPT !.row = workflow', !.audit = audit'])
    BY <1>4 DEF Submit, cluster
  <2>2. audit'.status # "ABORTED"
    BY <2>1 DEF CreateAudit
  <2>3. ReviewRequest([New("submit") EXCEPT !.row = workflow', !.audit = audit'], workflow', audit')
    BY <2>1, <2>2 DEF New, ReviewRequest
  <2> QED BY <1>i, <2>1, <2>3, ReviewStep
<1>d. ASSUME Done(r), UNCHANGED monitor,
             workflow'.status = "workflow_manreviewing" => workflow.status = "workflow_manreviewing",
             workflow'.status = "workflow_manreviewing" <=> audit'.status = "WAITING"
      PROVE  ReviewInv'
  BY <1>i, <1>d, <1>n, ReviewStep DEF Done, ReviewRequest
<1>5. CASE SubmitStatus(r)
  <2>1. UNCHANGED <<audit, monitor>> /\ Done(r) /\ workflow.status = "workflow_manreviewing"
    BY <1>5, <1>i DEF SubmitStatus, Continue, cluster, ReviewRequest
  <2>2. workflow'.status = "workflow_manreviewing" <=> audit.status = "WAITING"
    BY <1>5, <1>i DEF SubmitStatus, Continue, Row, RequestSerial, ReviewRequest, WorkflowAudit, WorkflowStatus
  <2> QED BY <1>d, <2>1, <2>2
<1>6. CASE PassedOperate(r)
  <2>1. /\ req[r].pc = "passedOperate" /\ Done(r) /\ UNCHANGED monitor
        /\ CanOperate(req[r].audit, req[r].action, req[r].actor) /\ audit' = Operated(r)
        /\ workflow' = IF Operated(r).status = "PASSED"
                       THEN [req[r].row EXCEPT !.status = "workflow_review_pass"]
                       ELSE workflow
    BY <1>6 DEF PassedOperate, Continue, SaveAudit, cluster
  <2>2. audit.status = "WAITING" /\ Operated(r).status \in {"WAITING", "PASSED"}
    BY <1>i, <2>1, OperatedStatus DEF Operated, RequestSerial
  <2>3. workflow.status = "workflow_manreviewing"
    BY <1>i, <2>2 DEF RowsSerial
  <2>4. workflow'.status = "workflow_manreviewing" <=> audit'.status = "WAITING"
    BY <1>i, <2>1, <2>2, <2>3 DEF Row
  <2> QED BY <1>d, <2>1, <2>3, <2>4
<1>7. CASE CancelOperate(r)
  <2>1. /\ req[r].pc = "cancelOperate" /\ Done(r) /\ UNCHANGED monitor
        /\ CanOperate(req[r].audit, req[r].action, req[r].actor) /\ audit' = Operated(r)
        /\ workflow' = [req[r].row EXCEPT !.status = "workflow_abort"]
    BY <1>7 DEF CancelOperate, Continue, SaveAudit, cluster
  <2>2. audit'.status \in {"REJECTED", "ABORTED"}
    BY <1>i, <2>1, OperatedStatus DEF Operated, RequestSerial
  <2> QED BY <1>d, <1>i, <2>1, <2>2 DEF Row
<1>8. CASE ApiOperate(r)
  <2>1. /\ req[r].pc = "apiOperate" /\ UNCHANGED <<workflow, monitor>>
        /\ CanOperate(req[r].audit, req[r].action, req[r].actor) /\ audit' = Operated(r)
    BY <1>8 DEF ApiOperate, Continue, SaveAudit, cluster
  <2>2. audit.status = "WAITING" /\ Operated(r).status \in {"WAITING", "PASSED"}
    BY <1>i, <2>1, OperatedStatus DEF Operated, RequestSerial
  <2>3. workflow.status = "workflow_manreviewing" /\ monitor.pc = "idle"
    BY <1>i, <2>2 DEF RowsSerial
  <2>4. \/ Goto(r, New("apiPassed")) /\ audit'.status = "PASSED"
        \/ Done(r) /\ audit'.status = "WAITING"
    BY <1>8, <2>1, <2>2 DEF ApiOperate
  <2>5. ReviewRequest(New("apiPassed"), workflow', audit')
    BY <2>1, <2>3, <1>n DEF ReviewRequest
  <2> QED BY <1>d, <2>1, <2>3, <2>4, <2>5, ReviewStep
<1>9. CASE TimingSave(r) \/ ExecuteQueue(r) \/ ExecuteManual(r) \/ ApiPassed(r)
  <2>1. /\ UNCHANGED <<audit, monitor>>
        /\ Goto(r, New("executeUnschedule")) \/ Goto(r, Idle)
        /\ req[r].pc \in ReleaseSteps
        /\ \E row \in {workflow, req[r].row},
              s \in {"workflow_timingtask", "workflow_queuing", "workflow_finish", "workflow_review_pass"} :
             workflow' = [row EXCEPT !.status = s]
    BY <1>9 DEF TimingSave, ExecuteQueue, ExecuteManual, ApiPassed, Continue, Done, cluster, ReleaseSteps
  <2>2. audit.status = "PASSED"
    BY <1>i, <2>1 DEF RequestSerial
  <2>3. workflow'.status # "workflow_manreviewing"
    BY <1>i, <2>1 DEF Row
  <2> QED BY <1>n, <2>1, <2>2, <2>3, ReviewStep DEF ReviewRequest
<1>10. CASE AlterSave(r)
  <2>1. UNCHANGED <<audit, monitor>> /\ Done(r) /\ audit.status = "WAITING"
    BY <1>10, <1>i DEF AlterSave, Continue, RequestSerial, cluster
  <2>2. workflow'.status = workflow.status
    BY <1>10, <1>i DEF AlterSave, Row
  <2>3. workflow.status = "workflow_manreviewing"
    BY <1>i, <2>1 DEF RowsSerial
  <2> QED BY <1>d, <2>1, <2>2, <2>3
<1>11. CASE ApiUnschedule(r) \/ ApiAborted(r)
  BY <1>11, <1>i DEF ApiUnschedule, ApiAborted, Continue, RequestSerial
<1> QED BY <1>1, <1>2, <1>3, <1>4, <1>5, <1>6, <1>7, <1>8, <1>9, <1>10, <1>11 DEF Review, Release

LEMMA NextReview ==
    ASSUME Serial, NobodyDies, IInv, ReleaseUsed, SerialInv, ReviewInv, [Next]_vars
    PROVE  ReviewInv'
<1>i. /\ workflow \in Row /\ monitor.row \in Row
      /\ RowsSerial(workflow, audit, monitor)
      /\ \A r \in Requests : ReviewRequest(req[r], workflow, audit)
      /\ workflow.status = "workflow_manreviewing" => monitor.pc = "idle"
      /\ workflow.status = "none" => monitor.pc = "idle"
  BY DEF IInv, TypeOK, SerialInv, ReviewInv, Backed, NothingYet
<1>c. ASSUME UNCHANGED <<audit, req>>, workflow.status \notin {"workflow_manreviewing", "none"},
             workflow'.status # "workflow_manreviewing"
      PROVE  ReviewInv'
  BY <1>c, <1>i DEF ReviewInv, ReviewRequest
<1>u. ASSUME UNCHANGED <<workflow, audit, req>>, monitor'.pc = "idle" \/ UNCHANGED monitor
      PROVE  ReviewInv'
  BY <1>u, <1>i DEF ReviewInv, ReviewRequest
<1>1. ASSUME NEW r \in Requests, Review(r) \/ Release(r) PROVE ReviewInv'
  BY <1>1, RequestReview
<1>2. ASSUME NEW w \in Workers, Execute(w) PROVE ReviewInv'
  BY <1>2, <1>i, <1>c DEF Execute, Startable, Row
<1>3. ASSUME NEW w \in Workers, ExecuteRefused(w) \/ ExecuteEnds(w) \/ WorkerDies(w) PROVE ReviewInv'
  BY <1>3, <1>u DEF ExecuteRefused, ExecuteEnds, WorkerDies, rows
<1>4. ASSUME NEW w \in Workers, ExportRead(w) \/ ExportSave(w) PROVE FALSE
  BY <1>4 DEF ExportRead, ExportSave, ReleaseUsed, Serial
<1>5. ASSUME ScheduleDue \/ TaskLost \/ MonitorDies PROVE ReviewInv'
  BY <1>5, <1>u DEF ScheduleDue, TaskLost, MonitorDies, FreeMonitor, rows
<1>6. ASSUME CallbackBegin PROVE ReviewInv'
  <2>1. /\ UNCHANGED <<workflow, audit, req>>
        /\ UNCHANGED monitor \/ workflow.status = "workflow_executing"
    BY <1>6 DEF CallbackBegin, rows
  <2> QED BY <1>u, <1>c, <2>1
<1>7. ASSUME CallbackSave \/ CallbackSaveFails PROVE ReviewInv'
  <2>1. /\ monitor.pc = "save" /\ UNCHANGED <<audit, req>>
        /\ \E row \in {workflow, monitor.row}, s \in {"workflow_finish", "workflow_exception"} :
             workflow' = [row EXCEPT !.status = s]
    BY <1>7 DEF CallbackSave, CallbackSaveFails
  <2> QED BY <1>c, <1>i, <2>1 DEF Row
<1>8. ASSUME NEW r \in Requests, RequestDies(r) PROVE FALSE
  BY <1>8, NoDeaths DEF RequestDies
<1>9. ASSUME Tick \/ UNCHANGED vars PROVE ReviewInv'
  BY <1>9, <1>u DEF Tick, vars, rows, cluster
<1> QED BY <1>1, <1>2, <1>3, <1>4, <1>5, <1>6, <1>7, <1>8, <1>9 DEF Next, Work, Callback

\* When no process dies, a workflow is shown in review exactly as long as its
\* audit row waits for a reviewer.
THEOREM ReviewShown == ASSUME Serial, NobodyDies PROVE Spec => []ReviewAgrees
<1> DEFINE Inv == SerialIInv /\ ReviewInv
<1>1. (Init => Inv) /\ (Inv /\ [Next]_vars => Inv')
  BY SerialInduction, InitReview, NextReview DEF SerialIInv
<1>2. Inv => ReviewAgrees
  BY DEF ReviewInv, ReviewRequest, ReviewAgrees, Quiet, Serial
<1> QED BY <1>1, <1>2, PTL DEF Spec

----------------------------------------------------------------------------
(***************************************************************************)
(* One task per release. Without timing nothing but execute puts a task in *)
(* the queue, and it finds the row approved: the task is in the queue,     *)
(* with one worker, among the results or with the hook, or lost with the   *)
(* process that had it.                                                    *)
(***************************************************************************)
Untimed == Serial /\ "timing_task" \notin Ops

NoneRuns == \A w \in Workers : worker[w].pc = "idle"

OneRuns == \A v, w \in Workers : worker[v].pc # "idle" /\ worker[w].pc # "idle" => v = w

\* The statuses of a row that no task has been queued for, or whose task is done.
Unqueued == {"none", "workflow_manreviewing", "workflow_review_pass"} \cup Ended

\* Where the one task of a release can be.
TaskAt ==
    /\ workflow.status # "workflow_timingtask"
    /\ workflow.status \in Unqueued \cup {"workflow_executing"} => queued = 0
    /\ workflow.status # "workflow_executing" => NoneRuns /\ results = << >> /\ monitor.pc = "idle"
    /\ workflow.status = "workflow_queuing" => queued \in {0, 1}
    /\ workflow.status = "workflow_executing" =>
         \/ OneRuns  /\ results = << >>    /\ monitor.pc = "idle"
         \/ NoneRuns /\ Len(results) = 1   /\ monitor.pc = "idle"
         \/ NoneRuns /\ results = << >>    /\ monitor.pc = "save"

\* What status the row has while a request is at a step.
RequestAt(pc, status, q) ==
    /\ pc \in {"submit", "apiPassed"} => status = "workflow_manreviewing"
    /\ pc \in {"cancelAuditor", "cancelOperate"} =>
         status \in {"workflow_manreviewing", "workflow_review_pass"}
    /\ pc \in {"executeWindow", "executeQueue", "executeManual"} => status = "workflow_review_pass"
    /\ pc \in {"executeUnschedule", "executeEnqueue"} => status = "workflow_queuing" /\ q = 0
    /\ pc \notin {"timingCheck", "timingSave"}

OneTask ==
    /\ schedule = NoSchedule
    /\ TaskAt
    /\ \A r \in Requests : RequestAt(req[r].pc, workflow.status, queued)

LEMMA InitOneTask == Init => OneTask
BY DEF Init, OneTask, TaskAt, RequestAt, NoneRuns, Free, NoRow, Idle, New, Unqueued

\* The changes of the status that the life of one task allows; none of them starts
\* the SQL but the one from the queue.
Moves(s, t) ==
    \/ s = t
    \/ s = "none" /\ t = "workflow_manreviewing"
    \/ s = "workflow_manreviewing" /\ t = "workflow_review_pass"
    \/ /\ s \in {"workflow_manreviewing", "workflow_review_pass"}
       /\ t \in {"workflow_abort", "workflow_autoreviewwrong"}
    \/ s = "workflow_review_pass" /\ t \in {"workflow_queuing", "workflow_finish"}
    \/ s = "workflow_executing" /\ t \in {"workflow_finish", "workflow_exception"}

\* A step of the life of a release, or none.
Lives ==
    \/ Moves(workflow.status, workflow'.status) /\ runs' = runs
    \/ /\ workflow.status = "workflow_queuing" /\ workflow'.status = "workflow_executing"
       /\ runs' = runs + 1

\* A step of a request moves the task to the queue, or does not touch it.
LEMMA OneTaskStep ==
    ASSUME IInv, Serial, OneTask, NEW r \in Requests, NEW x, Goto(r, x),
           UNCHANGED <<worker, results, monitor>>, schedule' = NoSchedule,
           \/ workflow'.status = workflow.status /\ queued' = queued
           \/ /\ workflow.status \in Unqueued /\ queued' = queued
              /\ workflow'.status \in Unqueued \cup {"workflow_queuing"}
           \/ workflow.status = "workflow_queuing" /\ workflow'.status = workflow.status /\ queued' = 1,
           RequestAt(x.pc, workflow'.status, queued')
    PROVE  OneTask'
<1>1. \A q \in Requests : req'[q] = x
  BY DEF IInv, TypeOK, Goto, Serial
<1>2. TaskAt'
  BY DEF OneTask, TaskAt, NoneRuns, OneRuns, Unqueued, Ended
<1> QED BY <1>1, <1>2 DEF OneTask

LEMMA RequestOneTask ==
    ASSUME Untimed, IInv, ReleaseUsed, SerialInv, OneTask, NEW r \in Requests,
           Review(r) \/ Release(r) \/ RequestDies(r)
    PROVE  OneTask' /\ Lives
<1>i. /\ req[r] \in Request /\ req[r].row \in Row /\ req[r].audit \in WorkflowAudit
      /\ req[r].action \in {"PASS", "REJECT", "ABORT"}
      /\ workflow \in Row /\ audit \in WorkflowAudit
      /\ RequestSerial(req[r], workflow, audit)
      /\ RowsSerial(workflow, audit, monitor)
      /\ RequestAt(req[r].pc, workflow.status, queued)
      /\ schedule = NoSchedule
      /\ req[r].pc = "submit" => req[r].row.status = "workflow_manreviewing"
      /\ Serial
  BY InProgress DEF SerialInv, RequestBacked, OneTask, Untimed
<1>n. /\ Idle.pc = "idle" /\ \A pc : New(pc).pc = pc
      /\ \A s, q : RequestAt("idle", s, q)
  BY DEF Idle, New, RequestAt
<1>r. runs' = runs
  BY RequestReleaseUsed
<1>s. ASSUME NEW x, Goto(r, x), UNCHANGED <<workflow, cluster>>, schedule' = NoSchedule,
             RequestAt(x.pc, workflow.status, queued)
      PROVE  OneTask' /\ Lives
  BY <1>i, <1>r, <1>s, OneTaskStep DEF cluster, Lives, Moves
<1>m. ASSUME NEW x, Goto(r, x), UNCHANGED cluster, schedule' = NoSchedule,
             Moves(workflow.status, workflow'.status),
             workflow.status \in Unqueued,
             workflow'.status \in Unqueued \cup {"workflow_queuing"},
             RequestAt(x.pc, workflow'.status, queued)
      PROVE  OneTask' /\ Lives
  BY <1>i, <1>r, <1>m, OneTaskStep DEF cluster, Lives
<1>1. CASE PassedBegin(r) \/ PassedAuditor(r) \/ CancelBegin(r) \/ CancelCheck(r) \/ CancelAuditor(r)
  <2>1. UNCHANGED <<workflow, schedule, cluster>>
    BY <1>1 DEF PassedBegin, PassedAuditor, CancelBegin, CancelCheck, CancelAuditor, Begin, Continue, rows
  <2>2. CASE PassedBegin(r)
    BY <2>1, <1>i, <1>s, <2>2 DEF PassedBegin, New, RequestAt
  <2>3. CASE PassedAuditor(r) \/ CancelAuditor(r)
    BY <2>1, <1>s, <2>3, <1>i DEF PassedAuditor, CancelAuditor, Continue, Request, RequestAt
  <2>4. CASE CancelBegin(r)
    BY <2>1, <1>i, <1>s, <2>4 DEF CancelBegin, New, RequestAt
  <2>5. CASE CancelCheck(r)
    BY <2>1, <1>s, <2>5, <1>i, <1>n DEF CancelCheck, CanCancel, Done, Request, RequestAt, TaskAt, OneTask, Executable
  <2> QED BY <1>1, <2>2, <2>3, <2>4, <2>5
<1>2. CASE TimingBegin(r) \/ TimingCheck(r) \/ TimingSave(r) \/ ApiUnschedule(r) \/ ApiAborted(r)
  BY <1>2, <1>i DEF TimingBegin, TimingCheck, TimingSave, ApiUnschedule, ApiAborted, Begin, Continue,
              Untimed, RequestAt, RequestSerial
<1>3. CASE ExecuteBegin(r) \/ ExecuteWindow(r) \/ ExecuteUnschedule(r)
  <2>1. UNCHANGED <<workflow, cluster>> /\ schedule' = NoSchedule
    BY <1>3, <1>i DEF ExecuteBegin, ExecuteWindow, ExecuteUnschedule, Begin, rows
  <2>2. CASE ExecuteBegin(r)
    BY <2>1, <2>2, <1>i, <1>s, <1>n DEF ExecuteBegin, RequestAt, TaskAt, OneTask, Executable
  <2>3. CASE ExecuteWindow(r) \/ ExecuteUnschedule(r)
    BY <2>1, <2>3, <1>i, <1>s, <1>n DEF ExecuteWindow, ExecuteUnschedule, Continue, Done, RequestAt
  <2> QED BY <1>3, <2>2, <2>3
<1>4. CASE ExecuteEnqueue(r)
  <2>1. /\ workflow' = workflow /\ workflow.status = "workflow_queuing" /\ queued' = 1 /\ schedule' = NoSchedule
        /\ Goto(r, Idle) /\ UNCHANGED <<worker, results, monitor>>
    BY <1>4, <1>i DEF ExecuteEnqueue, Continue, RequestAt, Done, rows
  <2> QED BY <2>1, <1>i, <1>n, <1>r, OneTaskStep DEF Lives, Moves
<1>5. CASE AlterBegin(r) \/ ApiBegin(r) \/ ApiWorkflow(r) \/ OperateRefused(r) \/ RequestDies(r)
  <2>1. UNCHANGED <<workflow, schedule, cluster>>
    BY <1>5 DEF AlterBegin, ApiBegin, ApiWorkflow, OperateRefused, RequestDies, Begin, rows
  <2>2. CASE AlterBegin(r) \/ OperateRefused(r) \/ RequestDies(r)
    BY <2>1, <1>i, <1>s, <2>2, <1>n DEF AlterBegin, OperateRefused, RequestDies, Done, RequestAt
  <2>3. CASE ApiBegin(r)
    BY <2>1, <1>i, <1>s, <2>3 DEF ApiBegin, New, RequestAt
  <2>4. CASE ApiWorkflow(r)
    BY <2>1, <1>s, <2>4, <1>i DEF ApiWorkflow, Request, RequestAt
  <2> QED BY <1>5, <2>2, <2>3, <2>4
<1>6. CASE Submit(r)
  <2>1. /\ workflow.status = "none" /\ workflow'.status = "workflow_manreviewing"
        /\ Goto(r, [New("submit") EXCEPT !.row = workflow', !.audit = audit'])
        /\ UNCHANGED <<schedule, cluster>>
    BY <1>6 DEF Submit
  <2> QED BY <2>1, <1>i, <1>m DEF New, RequestAt, Moves, Unqueued
<1>7. CASE SubmitStatus(r) \/ PassedOperate(r) \/ CancelOperate(r) \/ ExecuteManual(r) \/ ApiPassed(r)
  <2>1. UNCHANGED cluster /\ schedule' = NoSchedule /\ Goto(r, Idle)
    BY <1>7, <1>i DEF SubmitStatus, PassedOperate, CancelOperate, ExecuteManual, ApiPassed, Done
  <2>2. workflow.status \in {"workflow_manreviewing", "workflow_review_pass"}
    <3>1. CASE PassedOperate(r)
      <4>1. req[r].pc = "passedOperate" /\ CanOperate(req[r].audit, req[r].action, req[r].actor)
        BY <3>1 DEF PassedOperate, Continue, SaveAudit
      <4> QED BY <4>1, <1>i, OperatedStatus DEF RequestSerial, RowsSerial
    <3>2. CASE ~PassedOperate(r)
      BY <1>7, <3>2, <1>i DEF SubmitStatus, CancelOperate, ExecuteManual, ApiPassed, Continue, RequestAt
    <3> QED BY <3>1, <3>2
  <2>3. /\ Moves(workflow.status, workflow'.status)
        /\ workflow'.status \in Unqueued
    <3>1. CASE SubmitStatus(r)
      BY <3>1, <1>i DEF SubmitStatus, Continue, RequestAt, Row, Moves, Unqueued, Ended
    <3>2. CASE PassedOperate(r)
      BY <3>2, <1>i, <2>2 DEF PassedOperate, Row, Moves, Unqueued, Ended
    <3>3. CASE CancelOperate(r)
      BY <3>3, <1>i, <2>2 DEF CancelOperate, Row, Moves, Unqueued, Ended
    <3>4. CASE ExecuteManual(r) \/ ApiPassed(r)
      BY <3>4, <1>i DEF ExecuteManual, ApiPassed, Continue, RequestAt, Row, Moves, Unqueued, Ended
    <3> QED BY <1>7, <3>1, <3>2, <3>3, <3>4
  <2> QED BY <2>1, <2>2, <2>3, <1>n, <1>m DEF Unqueued
<1>8. CASE ExecuteQueue(r)
  <2>1. /\ workflow.status = "workflow_review_pass" /\ workflow'.status = "workflow_queuing"
        /\ queued = 0 /\ Goto(r, New("executeUnschedule")) /\ UNCHANGED <<schedule, cluster>>
    BY <1>8, <1>i DEF ExecuteQueue, Continue, RequestAt, Row, OneTask, TaskAt, Unqueued
  <2> QED BY <2>1, <1>i, <1>n, <1>m DEF RequestAt, Moves, Unqueued
<1>9. CASE AlterSave(r)
  <2>1. /\ workflow'.status = workflow.status /\ Goto(r, Idle) /\ UNCHANGED <<schedule, cluster>>
    BY <1>9, <1>i DEF AlterSave, Done, Row
  <2> QED BY <2>1, <1>i, <1>n, <1>r, OneTaskStep DEF Lives, Moves, cluster
<1>10. CASE ApiOperate(r)
  <2>1. /\ req[r].pc = "apiOperate" /\ UNCHANGED <<workflow, schedule, cluster>>
        /\ CanOperate(req[r].audit, req[r].action, req[r].actor)
    BY <1>10 DEF ApiOperate, Continue, SaveAudit
  <2>2. audit.status = "WAITING" /\ Operated(r).status \in {"WAITING", "PASSED"}
    BY <1>i, <2>1, OperatedStatus DEF Operated, RequestSerial
  <2>3. workflow.status = "workflow_manreviewing"
    BY <1>i, <2>2 DEF RowsSerial
  <2>4. Goto(r, New("apiPassed")) \/ Goto(r, Idle)
    BY <1>10, <2>2 DEF ApiOperate, Done
  <2> QED BY <2>1, <2>3, <2>4, <1>i, <1>n, <1>s DEF RequestAt
<1> QED BY <1>1, <1>2, <1>3, <1>4, <1>5, <1>6, <1>7, <1>8, <1>9, <1>10 DEF Review, Release

\* The token is kept by every step, and every step is one of the life of a release.
LEMMA NextOneTask ==
    ASSUME Untimed, IInv, ReleaseUsed, SerialInv, OneTask, [Next]_vars
    PROVE  OneTask' /\ Lives
<1>i. /\ workflow \in Row /\ monitor.row \in Row /\ results \in Seq(Outcome) /\ queued \in Nat
      /\ worker \in [Workers -> Worker]
      /\ TaskAt /\ schedule = NoSchedule
      /\ \A r \in Requests : RequestAt(req[r].pc, workflow.status, queued)
  BY DEF IInv, TypeOK, OneTask, Worker
<1>1. ASSUME NEW r \in Requests, Review(r) \/ Release(r) \/ RequestDies(r)
      PROVE  OneTask' /\ Lives
  BY <1>1, RequestOneTask
<1>2. ASSUME NEW w \in Workers, Execute(w)
      PROVE  OneTask' /\ Lives
  <2>1. /\ workflow.status = "workflow_queuing" /\ workflow'.status = "workflow_executing"
        /\ queued = 1 /\ queued' = 0 /\ runs' = runs + 1
        /\ NoneRuns /\ worker' = [worker EXCEPT ![w].pc = "running"]
        /\ results = << >> /\ monitor.pc = "idle"
        /\ UNCHANGED <<schedule, results, monitor, req>>
    BY <1>2, <1>i DEF Execute, Startable, Row, TaskAt
  <2>2. OneRuns'
    BY <1>i, <2>1 DEF OneRuns, NoneRuns, Worker
  <2>3. TaskAt'
    BY <2>1, <2>2 DEF TaskAt, Unqueued, Ended
  <2>4. ASSUME NEW r \in Requests PROVE RequestAt(req'[r].pc, workflow'.status, queued')
    BY <1>i, <2>1 DEF RequestAt
  <2> QED BY <1>i, <2>1, <2>3, <2>4 DEF OneTask, Lives
<1>q. ASSUME UNCHANGED <<workflow, req, runs>>, schedule' = NoSchedule, queued' \in Nat, queued' <= queued, TaskAt'
      PROVE  OneTask' /\ Lives
  BY <1>i, <1>q DEF OneTask, RequestAt, Lives, Moves
<1>a. \A o \in Outcome : Len(Append(<< >>, o)) = 1
  BY SMT
<1>l. Len(results) = 1 => Tail(results) = << >> /\ results # << >>
  <2>1. ASSUME results # << >>, Len(results) = 1 PROVE Tail(results) = << >>
    <3>1. Tail(results) \in Seq(Outcome) /\ Len(Tail(results)) = 0
      BY <1>i, <2>1, HeadTailProperties
    <3> QED BY <3>1, EmptySeq
  <2>2. << >> \in Seq(Outcome) /\ Len(<< >>) = 0
    BY EmptySeq
  <2> QED BY <2>1, <2>2
<1>3. ASSUME NEW w \in Workers, ExecuteRefused(w) PROVE FALSE
  BY <1>3, <1>i DEF ExecuteRefused, TaskAt, Unqueued, Startable, Row, Status, Released, Ended
<1>4. ASSUME NEW w \in Workers, ExecuteEnds(w) \/ WorkerDies(w) PROVE OneTask' /\ Lives
  <2>1. /\ UNCHANGED <<workflow, req, runs, schedule, queued, monitor>>
        /\ worker[w].pc # "idle" /\ worker' = [worker EXCEPT ![w] = Free]
        /\ \/ results' = results
           \/ \E o \in Outcome : results' = Append(results, o)
    BY <1>4 DEF ExecuteEnds, WorkerDies, rows, history, Outcome
  <2>2. /\ workflow.status = "workflow_executing" /\ OneRuns /\ results = << >> /\ monitor.pc = "idle"
    BY <1>i, <2>1 DEF TaskAt, NoneRuns
  <2>3. NoneRuns'
    BY <1>i, <2>1, <2>2 DEF NoneRuns, OneRuns, Free
  <2>4. results' = << >> \/ Len(results') = 1
    BY <1>a, <2>1, <2>2
  <2>5. TaskAt'
    BY <1>i, <2>1, <2>2, <2>3, <2>4 DEF TaskAt, NoneRuns, OneRuns
  <2> QED BY <1>i, <1>q, <2>1, <2>5
<1>5. ASSUME NEW w \in Workers, ExportRead(w) \/ ExportSave(w) PROVE FALSE
  BY <1>5 DEF ExportRead, ExportSave, ReleaseUsed, Serial, Untimed
<1>6. ASSUME ScheduleDue PROVE FALSE
  BY <1>6, <1>i DEF ScheduleDue, NoSchedule
<1>7. ASSUME TaskLost PROVE OneTask' /\ Lives
  <2>1. /\ UNCHANGED <<workflow, req, runs, schedule, worker, results, monitor>>
        /\ queued > 0 /\ queued' = queued - 1
    BY <1>7 DEF TaskLost, rows, history
  <2>2. TaskAt'
    BY <1>i, <2>1 DEF TaskAt, NoneRuns, OneRuns
  <2> QED BY <1>i, <1>q, <2>1, <2>2
<1>8. ASSUME CallbackBegin PROVE OneTask' /\ Lives
  <2>1. /\ UNCHANGED <<workflow, req, runs, schedule, queued, worker>>
        /\ monitor.pc = "idle" /\ results # << >> /\ results' = Tail(results)
        /\ workflow.status = "workflow_executing" => monitor'.pc = "save"
    BY <1>8 DEF CallbackBegin, rows, history
  <2>2. workflow.status = "workflow_executing" /\ NoneRuns /\ Len(results) = 1
    BY <1>i, <2>1 DEF TaskAt
  <2>3. TaskAt'
    BY <1>i, <1>l, <2>1, <2>2 DEF TaskAt, NoneRuns
  <2> QED BY <1>i, <1>q, <2>1, <2>3
<1>9. ASSUME CallbackSave \/ CallbackSaveFails PROVE OneTask' /\ Lives
  <2>1. /\ UNCHANGED <<req, runs, schedule, queued, worker, results>>
        /\ monitor.pc = "save" /\ monitor'.pc = "idle"
        /\ workflow'.status \in {"workflow_finish", "workflow_exception"}
    BY <1>9, <1>i DEF CallbackSave, CallbackSaveFails, FreeMonitor, history, Row
  <2>2. workflow.status = "workflow_executing" /\ NoneRuns /\ results = << >>
    BY <1>i, <2>1 DEF TaskAt
  <2>3. TaskAt'
    BY <1>i, <2>1, <2>2 DEF TaskAt, NoneRuns, Unqueued, Ended
  <2>4. ASSUME NEW r \in Requests PROVE RequestAt(req'[r].pc, workflow'.status, queued')
    BY <1>i, <2>1, <2>2 DEF RequestAt
  <2> QED BY <1>i, <2>1, <2>2, <2>3, <2>4 DEF OneTask, Lives, Moves
<1>10. ASSUME MonitorDies PROVE OneTask' /\ Lives
  <2>1. /\ UNCHANGED <<workflow, req, runs, schedule, queued, worker, results>>
        /\ monitor.pc = "save" /\ monitor'.pc = "idle"
    BY <1>10 DEF MonitorDies, FreeMonitor, rows, history
  <2>2. TaskAt'
    BY <1>i, <2>1 DEF TaskAt, NoneRuns, OneRuns
  <2> QED BY <1>i, <1>q, <2>1, <2>2
<1>11. ASSUME Tick \/ UNCHANGED vars PROVE OneTask' /\ Lives
  BY <1>11, <1>i, <1>q DEF Tick, vars, rows, cluster, history, TaskAt, NoneRuns, OneRuns
<1> QED BY <1>1, <1>2, <1>3, <1>4, <1>5, <1>6, <1>7, <1>8, <1>9, <1>10, <1>11 DEF Next, Work, Callback

\* A withdrawn row and a refused audit row go together once the submission is over.
Withdrawn == {"workflow_abort", "workflow_autoreviewwrong"}

Refused == {"REJECTED", "ABORTED"}

EndRequest(x, row, a) ==
    row.status # "none" /\ x.pc # "submit" => (row.status \in Withdrawn <=> a.status \in Refused)

EndInv == \A r \in Requests : EndRequest(req[r], workflow, audit)

LEMMA InitEnd == Init => EndInv
BY DEF Init, EndInv, EndRequest, NoRow

LEMMA RequestEnd ==
    ASSUME Untimed, IInv, SerialInv, ReviewInv, OneTask, EndInv, NEW r \in Requests, Review(r) \/ Release(r)
    PROVE  EndInv'
<1>i. /\ req[r] \in Request /\ req[r].row \in Row /\ req[r].audit \in WorkflowAudit
      /\ req[r].action \in {"PASS", "REJECT", "ABORT"}
      /\ workflow \in Row /\ audit \in WorkflowAudit
      /\ RequestSerial(req[r], workflow, audit)
      /\ RowsSerial(workflow, audit, monitor)
      /\ ReviewRequest(req[r], workflow, audit)
      /\ RequestAt(req[r].pc, workflow.status, queued)
      /\ EndRequest(req[r], workflow, audit)
      /\ req[r].pc = "submit" => req[r].row.status = "workflow_manreviewing"
  BY InProgress DEF SerialInv, ReviewInv, RequestBacked, OneTask, EndInv
<1>g. ASSUME NEW x, Goto(r, x), EndRequest(x, workflow', audit') PROVE EndInv'
  <2>1. \A q \in Requests : req'[q] = x
    BY <1>g DEF IInv, TypeOK, Goto, Untimed, Serial
  <2> QED BY <1>g, <2>1 DEF EndInv
<1>n. Idle.pc = "idle" /\ \A pc : New(pc).pc = pc
  BY DEF Idle, New
<1>u. ASSUME UNCHANGED <<workflow, audit>>, req[r].pc # "submit", NEW x, Goto(r, x) PROVE EndInv'
  BY <1>u, <1>g, <1>i DEF EndRequest
<1>1. CASE PassedBegin(r) \/ PassedAuditor(r) \/ CancelBegin(r) \/ CancelAuditor(r)
           \/ TimingBegin(r) \/ ExecuteBegin(r) \/ AlterBegin(r) \/ ApiBegin(r) \/ ApiWorkflow(r)
  BY <1>1, <1>u DEF PassedBegin, PassedAuditor, CancelBegin, CancelAuditor, TimingBegin, ExecuteBegin,
                    AlterBegin, ApiBegin, ApiWorkflow, Begin, Continue, rows
<1>2. CASE CancelCheck(r) \/ TimingCheck(r) \/ ExecuteWindow(r) \/ ExecuteUnschedule(r)
           \/ ExecuteEnqueue(r) \/ OperateRefused(r)
  BY <1>2, <1>u DEF CancelCheck, TimingCheck, ExecuteWindow, ExecuteUnschedule, ExecuteEnqueue,
                    OperateRefused, Continue, Done, rows
<1>3. CASE Submit(r)
  BY <1>3, <1>g DEF Submit, New, EndRequest
<1>4. CASE SubmitStatus(r)
  <2>1. UNCHANGED audit /\ Done(r) /\ req[r].audit = audit /\ audit.status # "ABORTED"
    BY <1>4, <1>i DEF SubmitStatus, Continue, RequestSerial, ReviewRequest
  <2>2. workflow'.status \in Withdrawn <=> audit.status \in Refused
    BY <1>4, <1>i, <2>1 DEF SubmitStatus, Continue, Row, WorkflowAudit, WorkflowStatus, Withdrawn, Refused
  <2> QED BY <1>g, <2>1, <2>2 DEF Done, EndRequest
<1>5. CASE PassedOperate(r)
  <2>1. /\ req[r].pc = "passedOperate" /\ Done(r)
        /\ CanOperate(req[r].audit, req[r].action, req[r].actor) /\ audit' = Operated(r)
        /\ workflow' = IF Operated(r).status = "PASSED"
                       THEN [req[r].row EXCEPT !.status = "workflow_review_pass"]
                       ELSE workflow
    BY <1>5 DEF PassedOperate, Continue, SaveAudit
  <2>2. audit.status = "WAITING" /\ Operated(r).status \in {"WAITING", "PASSED"}
    BY <1>i, <2>1, OperatedStatus DEF Operated, RequestSerial
  <2> QED BY <1>g, <1>i, <2>1, <2>2 DEF Done, EndRequest, Row, RowsSerial, Withdrawn, Refused
<1>6. CASE CancelOperate(r)
  <2>1. /\ req[r].pc = "cancelOperate" /\ Done(r)
        /\ CanOperate(req[r].audit, req[r].action, req[r].actor) /\ audit' = Operated(r)
        /\ workflow' = [req[r].row EXCEPT !.status = "workflow_abort"]
    BY <1>6 DEF CancelOperate, Continue, SaveAudit
  <2>2. audit'.status \in {"REJECTED", "ABORTED"}
    BY <1>i, <2>1, OperatedStatus DEF Operated, RequestSerial
  <2> QED BY <1>g, <1>i, <2>1, <2>2 DEF Done, EndRequest, Row, Withdrawn, Refused
<1>7. CASE ApiOperate(r)
  <2>1. /\ req[r].pc = "apiOperate" /\ UNCHANGED workflow
        /\ CanOperate(req[r].audit, req[r].action, req[r].actor) /\ audit' = Operated(r)
    BY <1>7 DEF ApiOperate, Continue, SaveAudit
  <2>2. audit.status = "WAITING" /\ Operated(r).status \in {"WAITING", "PASSED"}
    BY <1>i, <2>1, OperatedStatus DEF Operated, RequestSerial
  <2>3. PICK x : Goto(r, x)
    BY <1>7, <2>1, <2>2 DEF ApiOperate, Done
  <2> QED BY <1>g, <1>i, <2>1, <2>2, <2>3 DEF EndRequest, RowsSerial, Withdrawn, Refused
<1>8. CASE ExecuteQueue(r) \/ ExecuteManual(r) \/ ApiPassed(r)
  <2>1. /\ UNCHANGED audit /\ audit.status = "PASSED"
        /\ Goto(r, New("executeUnschedule")) \/ Goto(r, Idle)
        /\ workflow'.status \in {"workflow_queuing", "workflow_finish", "workflow_review_pass"}
    BY <1>8, <1>i DEF ExecuteQueue, ExecuteManual, ApiPassed, Continue, Done, Row, ReleaseSteps, RequestSerial
  <2> QED BY <1>g, <2>1 DEF EndRequest, Withdrawn, Refused
<1>9. CASE AlterSave(r)
  BY <1>9, <1>g, <1>i DEF AlterSave, Continue, Done, Row, RequestSerial, RowsSerial, EndRequest, Withdrawn, Refused
<1>10. CASE TimingSave(r) \/ ApiUnschedule(r) \/ ApiAborted(r)
  BY <1>10, <1>i DEF TimingSave, ApiUnschedule, ApiAborted, Continue, RequestSerial, RequestAt
<1> QED BY <1>1, <1>2, <1>3, <1>4, <1>5, <1>6, <1>7, <1>8, <1>9, <1>10 DEF Review, Release

LEMMA NextEnd ==
    ASSUME Untimed, NobodyDies, IInv, SerialInv, ReviewInv, OneTask, EndInv, ReleaseUsed, [Next]_vars
    PROVE  EndInv'
<1>i. /\ workflow \in Row /\ TaskAt
      /\ \A r \in Requests : /\ RequestAt(req[r].pc, workflow.status, queued)
                             /\ EndRequest(req[r], workflow, audit)
  BY DEF IInv, TypeOK, OneTask, EndInv
<1>u. ASSUME UNCHANGED <<audit, req>>,
             \/ workflow'.status = workflow.status
             \/ /\ workflow.status \in {"workflow_queuing", "workflow_executing"}
                /\ workflow'.status \notin Withdrawn
      PROVE  EndInv'
  BY <1>i, <1>u DEF EndInv, EndRequest, RequestAt, Withdrawn
<1>1. ASSUME NEW r \in Requests, Review(r) \/ Release(r) PROVE EndInv'
  BY <1>1, RequestEnd
<1>2. ASSUME NEW r \in Requests, RequestDies(r) PROVE FALSE
  BY <1>2, NoDeaths DEF RequestDies
<1>3. ASSUME NEW w \in Workers, Work(w) \/ WorkerDies(w) PROVE EndInv'
  <2>1. CASE Execute(w)
    BY <2>1, <1>i, <1>u DEF Execute, Row, TaskAt, Startable, Withdrawn
  <2>2. CASE ExecuteRefused(w) \/ ExecuteEnds(w) \/ WorkerDies(w)
    BY <2>2, <1>u DEF ExecuteRefused, ExecuteEnds, WorkerDies, rows
  <2>3. ~ExportRead(w) /\ ~ExportSave(w)
    BY DEF ExportRead, ExportSave, ReleaseUsed, Serial, Untimed
  <2> QED BY <1>3, <2>1, <2>2, <2>3 DEF Work
<1>4. ASSUME ScheduleDue \/ TaskLost \/ MonitorDies \/ CallbackBegin PROVE EndInv'
  BY <1>4, <1>u DEF ScheduleDue, TaskLost, MonitorDies, CallbackBegin, rows
<1>5. ASSUME CallbackSave \/ CallbackSaveFails PROVE EndInv'
  <2>1. monitor.pc = "save" /\ UNCHANGED <<audit, req>>
        /\ \E row \in {workflow, monitor.row}, s \in {"workflow_finish", "workflow_exception"} :
             workflow' = [row EXCEPT !.status = s]
    BY <1>5 DEF CallbackSave, CallbackSaveFails
  <2>2. workflow.status = "workflow_executing" /\ workflow'.status \notin Withdrawn
    BY <1>i, <2>1 DEF TaskAt, Row, Withdrawn, IInv, TypeOK
  <2> QED BY <1>u, <2>1, <2>2
<1>6. ASSUME Tick \/ UNCHANGED vars PROVE EndInv'
  BY <1>6, <1>u DEF Tick, vars, rows
<1> QED BY <1>1, <1>2, <1>3, <1>4, <1>5, <1>6 DEF Next, Callback

OneTaskIInv == SerialIInv /\ OneTask

LEMMA OneTaskInduction ==
    ASSUME Untimed
    PROVE  /\ Init => OneTaskIInv
           /\ OneTaskIInv /\ [Next]_vars => OneTaskIInv' /\ Lives
BY SerialInduction, InitOneTask, NextOneTask DEF OneTaskIInv, SerialIInv, Untimed

\* The result is recorded when the SQL does not run any more: what the page shows
\* is the result of the run, also after workers, tasks or the monitor died.
THEOREM ResultIsOfTheRun == ASSUME Untimed PROVE Spec => []NothingRunsAfterEnd
<1>1. (Init => OneTaskIInv) /\ (OneTaskIInv /\ [Next]_vars => OneTaskIInv')
  BY OneTaskInduction
<1>2. OneTaskIInv => NothingRunsAfterEnd
  BY DEF OneTaskIInv, OneTask, TaskAt, NoneRuns, NothingRunsAfterEnd
<1> QED BY <1>1, <1>2, PTL DEF Spec

\* What has ended stays as it ended: no stale copy, late hook or second task
\* brings a finished or withdrawn workflow back, wherever a process dies.
THEOREM ResultStays == ASSUME Untimed PROVE Spec => EndedStays
<1>1. /\ Init => OneTaskIInv
      /\ OneTaskIInv /\ [Next]_vars =>
           OneTaskIInv' /\ [workflow.status \in Ended => workflow'.status = workflow.status]_vars
  BY OneTaskInduction DEF Lives, Moves, Ended
<1> QED BY <1>1, PTL DEF Spec, EndedStays

\* When no process dies, a workflow is shown as withdrawn exactly when its audit
\* row was refused.
THEOREM EndShown == ASSUME Untimed, NobodyDies PROVE Spec => []EndAgrees
<1> DEFINE Inv == OneTaskIInv /\ ReviewInv /\ EndInv
<1>1. (Init => Inv) /\ (Inv /\ [Next]_vars => Inv')
  BY OneTaskInduction, InitReview, InitEnd, NextReview, NextEnd DEF OneTaskIInv, SerialIInv, Untimed
<1>2. Inv => EndAgrees
  BY DEF EndInv, EndRequest, EndAgrees, Withdrawn, Refused, Quiet, Untimed, Serial
<1> QED BY <1>1, <1>2, PTL DEF Spec

----------------------------------------------------------------------------
(***************************************************************************)
(* The refinement of ReleaseLifecycle, apart from its fairness.            *)
(***************************************************************************)
LEMMA LivesIsLifecycle ==
    ASSUME workflow \in Row, workflow' \in Row, workflow.status # "workflow_timingtask", runs \in Nat, Lives
    PROVE  [Lifecycle!Next]_(Lifecycle!vars)
BY DEF Lives, Moves, Phase, Row, Status, Released, Ended,
       Lifecycle!Next, Lifecycle!vars, Lifecycle!Submit, Lifecycle!Approve, Lifecycle!Withdraw,
       Lifecycle!Release, Lifecycle!RunByHand, Lifecycle!Start, Lifecycle!End, Lifecycle!Move

\* The rows, the queue, the workers and the hook implement the life of a release:
\* the initial states are mapped to its initial state, and every step to one of
\* its steps or to none. So the SQL starts at most once, only from the queue, and
\* a release is never taken back. (That it ends is KeepsLifecycle's fairness,
\* which only the run checks.)
THEOREM ImplementsLifecycle ==
    ASSUME Untimed
    PROVE  Spec => Lifecycle!Init /\ [][Lifecycle!Next]_(Lifecycle!vars)
<1>1. (Init => OneTaskIInv) /\ (OneTaskIInv /\ [Next]_vars => OneTaskIInv')
  BY OneTaskInduction
<1>2. OneTaskIInv /\ [Next]_vars => [Lifecycle!Next]_(Lifecycle!vars)
  <2> SUFFICES ASSUME OneTaskIInv, [Next]_vars PROVE [Lifecycle!Next]_(Lifecycle!vars)
    OBVIOUS
  <2>1. OneTaskIInv' /\ Lives
    BY OneTaskInduction
  <2> QED BY <2>1, LivesIsLifecycle DEF OneTaskIInv, SerialIInv, IInv, TypeOK, OneTask, TaskAt
<1>3. Init => Lifecycle!Init
  BY DEF Init, NoRow, Phase, Lifecycle!Init
<1> QED BY <1>1, <1>2, <1>3, PTL DEF Spec

=============================================================================
