--------------------------- MODULE ArchiveProofs ---------------------------
(***************************************************************************)
(* Proofs about Archive, for every chain, every set of users, any number   *)
(* of overlapping requests, of crashes and of queued tasks.                *)
(***************************************************************************)
EXTENDS ArchiveHistory, AuditV2Proofs

IInv == TypeOK /\ Backed

\* Backing of the state before the step, with the names expanded.
LEMMA BackedNow ==
    ASSUME IInv
    PROVE  /\ ChainFollowed(audit, "none", approved) /\ audit \in WorkflowAudit
           /\ config.status = "PASSED" \/ picked > 0 => Approved("none", approved)
           /\ queued["periodic"] > 0 \/ "periodic" \in ran => Approved("none", approved)
           /\ \A r \in Requests :
                /\ req[r] \in Request
                /\ ChainFollowed(req[r].audit, "none", approved)
           /\ config \in Config \cup {NoConfig}
           /\ picked \in 0 .. MaxPicked
           /\ queued \in [Kinds -> 0 .. MaxQueued] /\ ran \subseteq Kinds
           /\ approved \subseteq Groups
           /\ begun \in 0 .. MaxRequests /\ crashes \in 0 .. MaxCrashes
           /\ off \in BOOLEAN
           /\ req \in [Requests -> Request]
BY DEF IInv, TypeOK, Backed, PeriodicOnlyApproved, ChainApproved

LEMMA NoAuditFollows ==
    ASSUME NEW done
    PROVE  NoAudit \in WorkflowAudit /\ ChainFollowed(NoAudit, "none", done)
BY DEF NoAudit, WorkflowAudit, WorkflowStatus, ChainFollowed

LEMMA IdleType == Idle \in Request /\ Idle.audit = NoAudit
BY NoAuditFollows, UsersAssumption DEF Idle, Request, Pcs, WorkflowAction

LEMMA InitIInv == Init => IInv
<1> SUFFICES ASSUME Init PROVE IInv
  OBVIOUS
<1>1. TypeOK
  <2>1. 0 \in 0 .. MaxPicked /\ 0 \in 0 .. MaxQueued /\ 0 \in 0 .. MaxRequests /\ 0 \in 0 .. MaxCrashes
    BY ArchiveAssumption
  <2>2. NoAudit \in WorkflowAudit /\ Idle \in Request
    BY NoAuditFollows, IdleType
  <2> QED BY <2>1, <2>2 DEF Init, TypeOK
<1>2. Backed
  BY NoAuditFollows, IdleType DEF Init, Backed, PeriodicOnlyApproved, NoConfig, Kinds
<1> QED BY <1>1, <1>2 DEF IInv

----------------------------------------------------------------------------
\* A step of a request: it is replaced by one that is typed and follows the
\* chain, approvals only grow, and the rows are backed.
LEMMA RequestStep ==
    ASSUME IInv,
           NEW r \in Requests, NEW state \in Request,
           req' = [req EXCEPT ![r] = state],
           begun' \in 0 .. MaxRequests, crashes' \in 0 .. MaxCrashes,
           config' \in Config \cup {NoConfig}, audit' \in WorkflowAudit,
           off' \in BOOLEAN, UNCHANGED <<picked, queued, ran>>,
           approved \subseteq approved', approved' \subseteq Groups,
           ChainFollowed(audit', "none", approved'),
           ChainFollowed(state.audit, "none", approved'),
           config'.status = "PASSED" => Approved("none", approved')
    PROVE  IInv'
<1>1. TypeOK'
  BY BackedNow DEF TypeOK
<1>2. ASSUME NEW q \in Requests PROVE ChainFollowed(req'[q].audit, "none", approved')
  <2>1. CASE q = r
    BY <2>1, BackedNow
  <2>2. CASE q # r
    <3>1. req'[q] = req[q]
      BY <2>2, BackedNow
    <3> QED BY <3>1, BackedNow, FollowedGrows
  <2> QED BY <2>1, <2>2
<1>3. PeriodicOnlyApproved' /\ (picked' > 0 => ChainApproved')
  BY BackedNow DEF PeriodicOnlyApproved, ChainApproved, Approved
<1> QED BY <1>1, <1>2, <1>3 DEF IInv, Backed, ChainApproved

\* A request that only changes its own state, holding a copy of the row or none.
LEMMA OwnStep ==
    ASSUME IInv,
           NEW r \in Requests, NEW state \in Request,
           req' = [req EXCEPT ![r] = state],
           state.audit = audit \/ state.audit = NoAudit,
           begun' \in 0 .. MaxRequests, crashes' \in 0 .. MaxCrashes,
           UNCHANGED <<config, audit, picked, queued, ran, approved, off>>
    PROVE  IInv'
<1>1. ChainFollowed(state.audit, "none", approved)
  BY BackedNow, NoAuditFollows
<1> QED BY <1>1, BackedNow, RequestStep

LEMMA FrameTypes ==
    ASSUME IInv, NEW r \in Requests, NEW op, NEW pc, Begin(r, op) \/ Continue(r, pc)
    PROVE  begun' \in 0 .. MaxRequests /\ crashes' \in 0 .. MaxCrashes
BY BackedNow, ArchiveAssumption DEF Begin, Continue

\* The columns that are saved with a status have their types.
LEMMA ConfigType ==
    ASSUME NEW status \in WorkflowStatus, NEW state \in BOOLEAN
    PROVE  /\ [status |-> status, state |-> state] \in Config
           /\ [status |-> status, state |-> state].status = status
BY DEF Config

\* What picking, queueing and running does to the queue.
LEMMA QueueStep ==
    ASSUME IInv,
           picked' \in 0 .. MaxPicked, crashes' \in 0 .. MaxCrashes,
           queued' \in [Kinds -> 0 .. MaxQueued], ran' \subseteq Kinds,
           picked' > 0 \/ queued'["periodic"] > 0 \/ "periodic" \in ran' =>
               \/ picked > 0 \/ queued["periodic"] > 0 \/ "periodic" \in ran
               \/ config.status = "PASSED",
           UNCHANGED <<config, audit, req, begun, approved, off>>
    PROVE  IInv'
<1>1. TypeOK'
  BY DEF IInv, TypeOK
<1>2. /\ PeriodicOnlyApproved'
      /\ picked' > 0 => ChainApproved
  BY BackedNow DEF PeriodicOnlyApproved, ChainApproved
<1> QED BY <1>1, <1>2 DEF IInv, Backed, ChainApproved

LEMMA EnqueueTypes ==
    ASSUME IInv, NEW kind \in Kinds, Enqueue(kind)
    PROVE  /\ queued' \in [Kinds -> 0 .. MaxQueued]
           /\ \A k \in Kinds : k # kind => queued'[k] = queued[k]
           /\ UNCHANGED <<config, audit, ran, req, begun, crashes, approved, off>>
BY BackedNow, ArchiveAssumption DEF Enqueue

----------------------------------------------------------------------------
LEMMA NextIInv == IInv /\ [Next]_vars => IInv'
<1> SUFFICES ASSUME IInv, [Next]_vars PROVE IInv'
  OBVIOUS
<1>1. ASSUME Apply PROVE IInv'
  <2>1. audit' \in WorkflowAudit /\ ChainFollowed(audit', "none", approved)
    BY <1>1, CreateFollows DEF Apply, AutoReview
  <2>2. /\ config' = [status |-> audit'.status, state |-> audit'.status = "PASSED"]
        /\ UNCHANGED <<picked, queued, ran, req, begun, crashes, approved, off>>
    BY <1>1 DEF Apply
  <2>3. config' \in Config /\ config'.status = audit'.status
    BY <2>1, <2>2, ConfigType DEF WorkflowAudit
  <2>4. TypeOK'
    BY <2>1, <2>2, <2>3 DEF IInv, TypeOK
  <2>5. config'.status = "PASSED" => Approved("none", approved)
    BY <2>1, <2>3 DEF ChainFollowed
  <2> QED BY <2>1, <2>2, <2>4, <2>5
          DEF IInv, Backed, PeriodicOnlyApproved, ChainApproved
<1>2. ASSUME Switch PROVE IInv'
  <2>1. PICK state \in BOOLEAN : config' = [config EXCEPT !.state = state] /\ off' = ~state
    BY <1>2 DEF Switch
  <2>2. /\ config # NoConfig
        /\ UNCHANGED <<audit, picked, queued, ran, req, begun, crashes, approved>>
    BY <1>2 DEF Switch, Submitted
  <2>3. config' \in Config /\ config'.status = config.status
    BY <2>1, <2>2, BackedNow DEF Config
  <2>4. TypeOK'
    BY <2>1, <2>2, <2>3 DEF IInv, TypeOK
  <2> QED BY <2>2, <2>3, <2>4 DEF IInv, Backed, PeriodicOnlyApproved, ChainApproved
<1>3. ASSUME ArchiveOnce PROVE IInv'
  <2>1. Enqueue("once") /\ "once" \in Kinds /\ "periodic" \in Kinds /\ picked' = picked
    BY <1>3 DEF ArchiveOnce, Kinds
  <2>2. /\ queued' \in [Kinds -> 0 .. MaxQueued] /\ queued'["periodic"] = queued["periodic"]
        /\ UNCHANGED <<config, audit, ran, req, begun, crashes, approved, off>>
    BY <2>1, EnqueueTypes
  <2> QED BY <2>1, <2>2, BackedNow, QueueStep
<1>4. ASSUME PickArchive PROVE IInv'
  <2>1. /\ config.status = "PASSED" /\ picked < MaxPicked /\ picked' = picked + 1
        /\ UNCHANGED <<config, audit, queued, ran, req, begun, crashes, approved, off>>
    BY <1>4 DEF PickArchive, PickRow
  <2>2. picked' \in 0 .. MaxPicked
    BY <2>1, BackedNow, ArchiveAssumption
  <2> QED BY <2>1, <2>2, BackedNow, QueueStep
<1>12. ASSUME AddArchiveTask PROVE IInv'
  <2>1. /\ Enqueue("periodic") /\ "periodic" \in Kinds
        /\ picked > 0 /\ picked' = picked - 1
    BY <1>12 DEF AddArchiveTask, Kinds
  <2>2. /\ queued' \in [Kinds -> 0 .. MaxQueued]
        /\ UNCHANGED <<config, audit, ran, req, begun, crashes, approved, off>>
    BY <2>1, EnqueueTypes
  <2>3. picked' \in 0 .. MaxPicked
    BY <2>1, BackedNow, ArchiveAssumption
  <2> QED BY <2>1, <2>2, <2>3, BackedNow, QueueStep
<1>13. ASSUME PickDies PROVE IInv'
  <2>1. /\ picked > 0 /\ picked' = picked - 1
        /\ crashes < MaxCrashes /\ crashes' = crashes + 1
        /\ UNCHANGED <<config, audit, queued, ran, req, begun, approved, off>>
    BY <1>13 DEF PickDies
  <2>2. picked' \in 0 .. MaxPicked /\ crashes' \in 0 .. MaxCrashes
    BY <2>1, BackedNow, ArchiveAssumption
  <2> QED BY <2>1, <2>2, BackedNow, QueueStep
<1>5. ASSUME NEW kind \in Kinds, ArchiveRun(kind) PROVE IInv'
  <2>1. /\ queued[kind] > 0 /\ queued' = [queued EXCEPT ![kind] = @ - 1]
        /\ ran' = ran \cup {kind}
        /\ UNCHANGED <<config, audit, picked, req, begun, crashes, approved, off>>
    BY <1>5 DEF ArchiveRun
  <2>2. queued' \in [Kinds -> 0 .. MaxQueued] /\ ran' \subseteq Kinds
    BY <2>1, BackedNow, ArchiveAssumption
  <2>3. queued'["periodic"] > 0 \/ "periodic" \in ran' =>
          queued["periodic"] > 0 \/ "periodic" \in ran
    BY <2>1, BackedNow DEF Kinds
  <2> QED BY <2>1, <2>2, <2>3, BackedNow, QueueStep
<1>6. ASSUME NEW r \in Requests, AuditBegin(r) \/ ApiBegin(r) PROVE IInv'
  <2>1. PICK state \in Request : req' = [req EXCEPT ![r] = state] /\ state.audit = audit
    <3>1. CASE AuditBegin(r)
      <4>1. PICK actor \in Reviewers, action \in Actions :
              Goto(r, [pc |-> "audit", actor |-> actor, action |-> action,
                       audit |-> audit, state |-> config.state])
        BY <3>1 DEF AuditBegin
      <4> DEFINE state == [pc |-> "audit", actor |-> actor, action |-> action,
                           audit |-> audit, state |-> config.state]
      <4>2. /\ actor \in Users /\ action \in WorkflowAction
            /\ config.state \in BOOLEAN
        <5>1. actor \in Users /\ action \in WorkflowAction
          BY UsersAssumption, ArchiveAssumption
        <5>2. config.state \in BOOLEAN
          <6>1. config \in Config \/ config = NoConfig
            BY BackedNow
          <6>2. CASE config \in Config
            BY <6>2 DEF Config
          <6>3. CASE config = NoConfig
            BY <6>3 DEF NoConfig
          <6> QED BY <6>1, <6>2, <6>3
        <5> QED BY <5>1, <5>2
      <4>3. state \in Request /\ state.audit = audit
        BY <4>2, BackedNow DEF Request, Pcs
      <4>4. req' = [req EXCEPT ![r] = state]
        BY <4>1 DEF Goto
      <4> HIDE DEF state
      <4> QED BY <4>3, <4>4
    <3>2. CASE ApiBegin(r)
      <4>1. PICK actor \in Users :
              Goto(r, [pc |-> "api", actor |-> actor, action |-> "PASS",
                       audit |-> audit, state |-> FALSE])
        BY <3>2 DEF ApiBegin
      <4> DEFINE state == [pc |-> "api", actor |-> actor, action |-> "PASS",
                           audit |-> audit, state |-> FALSE]
      <4>2. state \in Request /\ state.audit = audit
        BY BackedNow DEF Request, Pcs, WorkflowAction
      <4>3. req' = [req EXCEPT ![r] = state]
        BY <4>1 DEF Goto
      <4> HIDE DEF state
      <4> QED BY <4>2, <4>3
    <3> QED BY <1>6, <3>1, <3>2
  <2>2. begun' \in 0 .. MaxRequests /\ crashes' \in 0 .. MaxCrashes
    BY <1>6, FrameTypes DEF AuditBegin, ApiBegin
  <2>3. UNCHANGED <<config, audit, picked, queued, ran, approved, off>>
    BY <1>6 DEF AuditBegin, ApiBegin
  <2> QED BY <2>1, <2>2, <2>3, OwnStep
<1>7. ASSUME NEW r \in Requests, ApiCancel(r) PROVE IInv'
  <2> DEFINE state == [Idle EXCEPT !.pc = "error"]
  <2>1. state \in Request /\ state.audit = NoAudit
    BY IdleType DEF Idle, Request, Pcs
  <2>2. begun' \in 0 .. MaxRequests /\ crashes' \in 0 .. MaxCrashes
    BY <1>7, FrameTypes DEF ApiCancel
  <2>3. /\ UNCHANGED <<config, audit, picked, queued, ran, approved, off>>
        /\ req' = [req EXCEPT ![r] = state]
    BY <1>7 DEF ApiCancel, Goto
  <2> HIDE DEF state
  <2> QED BY <2>1, <2>2, <2>3, OwnStep
<1>8. ASSUME NEW r \in Requests, Refused(r) \/ RequestDies(r) PROVE IInv'
  <2>1. /\ UNCHANGED <<config, audit, picked, queued, ran, approved, off, begun>>
        /\ req' = [req EXCEPT ![r] = Idle]
    BY <1>8 DEF Refused, RequestDies, Goto
  <2>2. begun' \in 0 .. MaxRequests /\ crashes' \in 0 .. MaxCrashes
    BY <1>8, BackedNow, ArchiveAssumption DEF Refused, RequestDies
  <2> QED BY <2>1, <2>2, IdleType, OwnStep
<1>9. ASSUME NEW r \in Requests, AuditOperate(r) \/ ApiOperate(r) PROVE IInv'
  <2> DEFINE a      == req[r].audit
             action == req[r].action
             more   == IF action = "PASS" THEN approved \cup {a.current} ELSE approved
  <2>1. /\ CanOperate(a, action, req[r].actor)
        /\ audit' = Operate(a, action) /\ approved' = more
        /\ UNCHANGED <<picked, queued, ran>>
    BY <1>9 DEF AuditOperate, ApiOperate, SaveAudit, Operated
  <2>2. a \in WorkflowAudit /\ action \in WorkflowAction /\ ChainFollowed(a, "none", approved)
    BY BackedNow DEF Request
  <2>3. /\ audit' \in WorkflowAudit
        /\ ChainFollowed(audit', "none", more)
        /\ action = "PASS" => a.current \in Groups
    <3> HIDE DEF a, action
    <3> QED BY <2>1, <2>2, OperatedFollows
  <2>4. approved \subseteq approved' /\ approved' \subseteq Groups
    BY <2>1, <2>3, BackedNow
  <2>5. begun' \in 0 .. MaxRequests /\ crashes' \in 0 .. MaxCrashes
    BY <1>9, FrameTypes DEF AuditOperate, ApiOperate
  <2>6. audit'.status = "PASSED" => Approved("none", approved')
    BY <2>1, <2>3 DEF ChainFollowed
  <2> HIDE DEF a, action, more
  <2>7. CASE AuditOperate(r)
    <3>1. /\ req' = [req EXCEPT ![r] = Idle]
          /\ config' = [status |-> audit'.status,
                        state  |-> audit'.status = "PASSED" \/ req[r].state]
          /\ off' \in BOOLEAN
      BY <2>7 DEF AuditOperate, Goto
    <3>2. audit'.status \in WorkflowStatus
      BY <2>3 DEF WorkflowAudit
    <3>3. (audit'.status = "PASSED" \/ req[r].state) \in BOOLEAN
      BY BackedNow DEF Request
    <3>4. config' \in Config /\ config'.status = audit'.status
      BY <3>1, <3>2, <3>3, ConfigType
    <3> QED BY <2>1, <2>3, <2>4, <2>5, <2>6, <3>1, <3>4, IdleType, NoAuditFollows, RequestStep
  <2>8. CASE ApiOperate(r)
    <3> DEFINE state == [req[r] EXCEPT !.pc = "save", !.audit = audit']
    <3>1. req' = [req EXCEPT ![r] = state] /\ config' = config /\ off' = off
      BY <2>8 DEF ApiOperate, Goto
    <3>2. state \in Request /\ state.audit = audit'
      BY <2>3, BackedNow DEF Request, Pcs
    <3>3. config'.status = "PASSED" => Approved("none", approved')
      BY <3>1, <2>4, BackedNow DEF Approved
    <3> HIDE DEF state
    <3> QED BY <2>1, <2>3, <2>4, <2>5, <3>1, <3>2, <3>3, BackedNow, RequestStep
  <2> QED BY <1>9, <2>7, <2>8
<1>10. ASSUME NEW r \in Requests, ApiSave(r) PROVE IInv'
  <2>1. /\ req' = [req EXCEPT ![r] = Idle]
        /\ config' = [status |-> req[r].audit.status,
                      state  |-> req[r].audit.status = "PASSED"]
        /\ off' \in BOOLEAN
        /\ UNCHANGED <<audit, picked, queued, ran, approved>>
    BY <1>10 DEF ApiSave, Goto
  <2>2. req[r].audit.status \in WorkflowStatus /\ ChainFollowed(req[r].audit, "none", approved)
    BY BackedNow DEF Request, WorkflowAudit
  <2>3. config' \in Config /\ config'.status = req[r].audit.status
    BY <2>1, <2>2, ConfigType
  <2>4. config'.status = "PASSED" => Approved("none", approved)
    BY <2>2, <2>3 DEF ChainFollowed
  <2>5. begun' \in 0 .. MaxRequests /\ crashes' \in 0 .. MaxCrashes
    BY <1>10, FrameTypes DEF ApiSave
  <2> QED BY <2>1, <2>3, <2>4, <2>5, BackedNow, IdleType, NoAuditFollows, RequestStep
<1>11. CASE UNCHANGED vars
  BY <1>11 DEF vars, IInv, TypeOK, Backed, PeriodicOnlyApproved, ChainApproved
<1> QED BY <1>1, <1>2, <1>3, <1>4, <1>5, <1>6, <1>7, <1>8, <1>9, <1>10, <1>11, <1>12, <1>13 DEF Next, Proceed

----------------------------------------------------------------------------
\* The types of the rows, the queue, the requests and the history.
THEOREM TypeCorrect == Spec => []TypeOK
<1>1. IInv => TypeOK
  BY DEF IInv
<1> QED BY <1>1, InitIInv, NextIInv, PTL DEF Spec

\* Both rows, and the copies that requests hold, are backed by the approvals.
THEOREM AlwaysBacked == Spec => []Backed
<1>1. IInv => Backed
  BY DEF IInv
<1> QED BY <1>1, InitIInv, NextIInv, PTL DEF Spec

\* No periodic archive without the approval of the whole chain.
THEOREM NothingArchivedUnapproved == Spec => []PeriodicOnlyApproved
<1>1. IInv => PeriodicOnlyApproved
  BY DEF IInv, Backed
<1> QED BY <1>1, InitIInv, NextIInv, PTL DEF Spec

----------------------------------------------------------------------------
(***************************************************************************)
(* The history.  The row lags behind its audit row only while a review of  *)
(* the API is between the two statements and holds what the audit row is;  *)
(* and a switch that was thrown off stays in the row until a page that had *)
(* read it earlier puts it back.                                           *)
(***************************************************************************)
RowsAgree ==
    \/ config.status = audit.status
    \/ \E r \in Requests : req[r].pc = "save" /\ req[r].audit = audit

HistoryInv ==
    /\ ~Submitted => ~off /\ \A r \in Requests : req[r].pc = "idle"
    /\ "status" \notin broken /\ Submitted => RowsAgree
    /\ "state" \notin broken /\ off => ~config.state

LEMMA InitHistory == WatchedInit => HistoryInv
BY DEF WatchedInit, Init, HistoryInv, Submitted, Idle

\* A step of one request, seen by the history.
LEMMA Watched ==
    ASSUME IInv, WatchedNext, NEW r \in Requests, NEW state, Goto(r, state)
    PROVE  /\ req'[r] = state
           /\ \A q \in Requests : q # r => req'[q] = req[q]
           /\ "status" \notin broken' => "status" \notin broken /\ ~CutSave(r)
           /\ "state" \notin broken' => "state" \notin broken /\ ~StaleSave(r)
BY DEF IInv, TypeOK, Goto, WatchedNext

LEMMA BrokenGrows ==
    ASSUME WatchedNext
    PROVE  broken \subseteq broken'
BY DEF WatchedNext

\* Rows of a configuration that has been submitted are not the absent one.
LEMMA StatusSubmitted ==
    ASSUME NEW c \in Config
    PROVE  c # NoConfig /\ c.status \in WorkflowStatus
BY DEF Config, NoConfig, WorkflowStatus

\* A request that is not between its statements moves on, and the rows stay.
LEMMA HistoryStep ==
    ASSUME IInv, HistoryInv, WatchedNext, NEW r \in Requests, NEW state, Goto(r, state),
           UNCHANGED <<config, audit, off>>,
           Submitted,
           "status" \in broken' \/ req[r].pc # "save"
    PROVE  HistoryInv'
<1>1. /\ req'[r] = state
      /\ \A q \in Requests : q # r => req'[q] = req[q]
      /\ broken \subseteq broken'
  BY Watched, BrokenGrows
<1>2. "status" \notin broken' => RowsAgree'
  BY <1>1 DEF HistoryInv, RowsAgree
<1> QED BY <1>1, <1>2 DEF HistoryInv, Submitted

LEMMA NextHistory == IInv /\ HistoryInv /\ [WatchedNext]_watched => HistoryInv'
<1> SUFFICES ASSUME IInv, HistoryInv, [WatchedNext]_watched PROVE HistoryInv'
  OBVIOUS
<1>i. /\ \A r \in Requests : /\ req[r] \in Request /\ req[r].audit \in WorkflowAudit
                             /\ req[r].action \in WorkflowAction
                             /\ req[r].state \in BOOLEAN
      /\ audit \in WorkflowAudit
      /\ config \in Config \cup {NoConfig}
      /\ Idle.pc = "idle"
  BY BackedNow DEF Request, Idle
<1>0. CASE UNCHANGED watched
  BY <1>0 DEF watched, vars, HistoryInv, RowsAgree, Submitted
<1> SUFFICES ASSUME WatchedNext PROVE HistoryInv'
  BY <1>0
<1>1. CASE Apply
  <2>1. /\ ~Submitted /\ UNCHANGED <<req, off>>
        /\ config' = [status |-> audit'.status, state |-> audit'.status = "PASSED"]
    BY <1>1 DEF Apply
  <2>2. config'.status = audit'.status
    BY <2>1
  <2> QED BY <2>1, <2>2 DEF HistoryInv, RowsAgree
<1>2. CASE Switch
  <2>1. PICK state \in BOOLEAN : config' = [config EXCEPT !.state = state] /\ off' = ~state
    BY <1>2 DEF Switch
  <2>2. Submitted /\ UNCHANGED <<audit, req>>
    BY <1>2 DEF Switch
  <2>3. config \in Config
    BY <1>i, <2>2 DEF Submitted
  <2>4. config' \in Config /\ config'.status = config.status /\ config'.state = state
    BY <2>1, <2>3 DEF Config
  <2>5. Submitted'
    BY <2>4, StatusSubmitted DEF Submitted
  <2> QED BY <2>1, <2>2, <2>4, <2>5, BrokenGrows DEF HistoryInv, RowsAgree
<1>3. ASSUME ArchiveOnce \/ PickArchive \/ AddArchiveTask \/ PickDies \/ \E kind \in Kinds : ArchiveRun(kind)
      PROVE  HistoryInv'
  <2>1. UNCHANGED <<config, audit, req, off>>
    BY <1>3 DEF ArchiveOnce, PickArchive, PickRow, AddArchiveTask, PickDies, Enqueue, ArchiveRun
  <2> QED BY <2>1, BrokenGrows DEF HistoryInv, RowsAgree, Submitted
<1>4. ASSUME NEW r \in Requests, AuditBegin(r) \/ ApiBegin(r) \/ ApiCancel(r) PROVE HistoryInv'
  <2>1. /\ req[r].pc = "idle" /\ Submitted /\ UNCHANGED <<config, audit, off>>
        /\ \E state : Goto(r, state)
    BY <1>4 DEF AuditBegin, ApiBegin, ApiCancel, Begin
  <2> QED BY <2>1, HistoryStep
<1>5. ASSUME NEW r \in Requests, Refused(r) \/ RequestDies(r) PROVE HistoryInv'
  <2>1. /\ req[r].pc # "idle" /\ Goto(r, Idle) /\ UNCHANGED <<config, audit, off>>
        /\ Refused(r) => req[r].pc # "save"
        /\ RequestDies(r) => crashes' = crashes + 1
    BY <1>5 DEF Refused, RequestDies
  <2>2. Submitted
    BY <2>1 DEF HistoryInv
  <2>3. "status" \in broken' \/ req[r].pc # "save"
    <3>1. req'[r] = Idle /\ crashes \in Nat
      BY <2>1, Watched, BackedNow, ArchiveAssumption
    <3>2. req[r].pc = "save" => CutSave(r)
      BY <1>5, <1>i, <2>1, <3>1 DEF CutSave
    <3> QED BY <2>1, <3>2, Watched
  <2> QED BY <2>1, <2>2, <2>3, HistoryStep
<1>6. ASSUME NEW r \in Requests, ApiOperate(r) PROVE HistoryInv'
  <2> DEFINE state == [req[r] EXCEPT !.pc = "save", !.audit = audit']
  <2>1. req[r].pc = "api" /\ Goto(r, state) /\ UNCHANGED <<config, off>>
    BY <1>6 DEF ApiOperate, Continue
  <2>2. state.pc = "save" /\ state.audit = audit'
    BY <1>i DEF Request
  <2> HIDE DEF state
  <2>3. req'[r] = state /\ broken \subseteq broken'
    BY <2>1, Watched, BrokenGrows
  <2>4. Submitted /\ Submitted'
    BY <2>1 DEF HistoryInv, Submitted
  <2>5. RowsAgree'
    BY <2>2, <2>3 DEF RowsAgree
  <2> QED BY <2>1, <2>3, <2>4, <2>5 DEF HistoryInv
<1>7. ASSUME NEW r \in Requests, AuditOperate(r) PROVE HistoryInv'
  <2>1. /\ req[r].pc = "audit" /\ Goto(r, Idle)
        /\ CanOperate(req[r].audit, req[r].action, req[r].actor)
        /\ audit' = Operate(req[r].audit, req[r].action)
        /\ config' = [status |-> audit'.status,
                      state  |-> audit'.status = "PASSED" \/ req[r].state]
        /\ off' = (off /\ ~(audit'.status = "PASSED" /\ req[r].action = "PASS"))
    BY <1>7 DEF AuditOperate, SaveAudit, Operated, Continue
  <2>2. audit' \in WorkflowAudit
    BY <1>i, <2>1, BackedNow, OperatedFollows
  <2>3. config' \in Config /\ config'.status = audit'.status
        /\ config'.state = (audit'.status = "PASSED" \/ req[r].state)
    BY <1>i, <2>1, <2>2, ConfigType DEF WorkflowAudit
  <2>4. Submitted'
    BY <2>3, StatusSubmitted DEF Submitted
  <2>5. ASSUME "state" \notin broken', off' PROVE ~config'.state
    <3>1. /\ req'[r] = Idle /\ ~StaleSave(r) /\ "state" \notin broken
          /\ off /\ ~config.state
      BY <2>1, <2>5, Watched DEF HistoryInv
    <3>2. CASE config' = config
      BY <3>1, <3>2
    <3>3. CASE config' # config
      <4>1. /\ req[r].state = config.state
            /\ req[r].action \in {"PASS", "REJECT", "ABORT"}
        BY <1>i, <2>1, <3>1, <3>3 DEF StaleSave, WorkflowAction
      <4>2. ~(audit'.status = "PASSED" /\ req[r].action = "PASS")
        BY <2>1, <2>5, Zenon
      <4>3. req[r].action # "PASS" => audit'.status \in {"REJECTED", "ABORTED"}
        BY <1>i, <2>1, <4>1, OperatedStatus
      <4>4. audit'.status # "PASSED"
        BY <4>2, <4>3
      <4> QED BY <2>3, <3>1, <4>1, <4>4
    <3> QED BY <3>2, <3>3
  <2> QED BY <2>3, <2>4, <2>5 DEF HistoryInv, RowsAgree
<1>8. ASSUME NEW r \in Requests, ApiSave(r) PROVE HistoryInv'
  <2>1. /\ req[r].pc = "save" /\ Goto(r, Idle) /\ audit' = audit
        /\ config' = [status |-> req[r].audit.status,
                      state  |-> req[r].audit.status = "PASSED"]
        /\ off' = (off /\ ~config'.state)
    BY <1>8 DEF ApiSave, Continue
  <2>2. config' \in Config /\ config'.status = req[r].audit.status
    BY <1>i, <2>1, ConfigType DEF WorkflowAudit
  <2>3. Submitted'
    BY <2>2, StatusSubmitted DEF Submitted
  <2>4. "status" \notin broken' => req[r].audit = audit
    BY <1>i, <2>1, Watched DEF CutSave
  <2> QED BY <2>1, <2>2, <2>3, <2>4 DEF HistoryInv, RowsAgree
<1> QED BY <1>1, <1>2, <1>3, <1>4, <1>5, <1>6, <1>7, <1>8 DEF WatchedNext, Next, Proceed

LEMMA WatchedInduction ==
    /\ WatchedInit => IInv /\ HistoryInv
    /\ IInv /\ HistoryInv /\ [WatchedNext]_watched => IInv' /\ HistoryInv'
<1>1. [WatchedNext]_watched => [Next]_vars
  BY DEF WatchedNext, watched
<1> QED BY <1>1, InitIInv, NextIInv, InitHistory, NextHistory DEF WatchedInit

\* The configuration shows the status of its audit row whenever no request of
\* the API is between its two statements, unless one of those died there or
\* was overtaken: the page's reviews never break it, in any overlap.
THEOREM ConfigurationShown == WatchedSpec => []UncutStatusAgrees
<1>1. HistoryInv => UncutStatusAgrees
  BY DEF HistoryInv, RowsAgree, UncutStatusAgrees, StatusAgrees
<1> QED BY <1>1, WatchedInduction, PTL DEF WatchedSpec

\* While a configuration is switched off, nothing more of it is picked: what runs
\* still was picked before, up to the first page that saves a switch it had read
\* before.
THEOREM SwitchedOffIsNotPicked == WatchedSpec => SwitchOffHolds
<1> DEFINE Held == off /\ "state" \notin broken => Pending' <= Pending
<1>1. IInv /\ HistoryInv /\ [WatchedNext]_watched => [Held]_vars
  <2> SUFFICES ASSUME IInv, HistoryInv, WatchedNext, off, "state" \notin broken
               PROVE  Pending' <= Pending
    BY DEF watched
  <2>1. /\ queued \in [Kinds -> 0 .. MaxQueued] /\ MaxQueued \in Nat
        /\ picked \in 0 .. MaxPicked /\ MaxPicked \in Nat
        /\ "periodic" \in Kinds /\ ~config.state
    BY BackedNow, ArchiveAssumption DEF HistoryInv, Kinds
  <2>2. \/ UNCHANGED <<picked, queued>>
        \/ Enqueue("once") /\ UNCHANGED picked
        \/ AddArchiveTask
        \/ PickDies
        \/ \E kind \in Kinds : queued' = [queued EXCEPT ![kind] = @ - 1] /\ UNCHANGED picked
    BY <2>1 DEF WatchedNext, Next, Proceed, Apply, Switch, ArchiveOnce, PickArchive, ArchiveRun,
           AuditBegin, ApiBegin, ApiCancel, AuditOperate, ApiOperate, ApiSave, Refused, RequestDies
  <2>3. CASE UNCHANGED <<picked, queued>>
    BY <2>1, <2>3 DEF Pending
  <2>4. CASE Enqueue("once") /\ UNCHANGED picked
    BY <2>1, <2>4 DEF Enqueue, Pending
  <2>5. CASE AddArchiveTask
    BY <2>1, <2>5 DEF AddArchiveTask, Enqueue, Pending
  <2>6. CASE PickDies
    BY <2>1, <2>6 DEF PickDies, Pending
  <2>7. ASSUME NEW kind \in Kinds, queued' = [queued EXCEPT ![kind] = @ - 1] /\ UNCHANGED picked
        PROVE  Pending' <= Pending
    BY <2>1, <2>7 DEF Pending
  <2> QED BY <2>2, <2>3, <2>4, <2>5, <2>6, <2>7
<1> QED BY <1>1, WatchedInduction, PTL DEF WatchedSpec, SwitchOffHolds

=============================================================================
