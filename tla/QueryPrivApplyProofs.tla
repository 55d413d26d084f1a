------------------------ MODULE QueryPrivApplyProofs ------------------------
(***************************************************************************)
(* Proofs about QueryPrivApply, for every chain, every set of users, any   *)
(* number of overlapping requests and any number of crashes.               *)
(***************************************************************************)
EXTENDS QueryPrivApplyHistory, AuditV2Proofs

IInv == TypeOK /\ Backed

LEMMA NoAuditFollows ==
    ASSUME NEW done
    PROVE  NoAudit \in WorkflowAudit /\ ChainFollowed(NoAudit, "none", done)
BY DEF NoAudit, WorkflowAudit, WorkflowStatus, ChainFollowed

LEMMA IdleType == Idle \in Request /\ Idle.audit = NoAudit /\ Idle.pc = "idle"
BY NoAuditFollows, UsersAssumption DEF Idle, Request, Pcs, WorkflowAction

LEMMA InitIInv == Init => IInv
<1> SUFFICES ASSUME Init PROVE IInv
  OBVIOUS
<1>1. TypeOK
  BY NoAuditFollows, IdleType, ApplyAssumption DEF Init, TypeOK
<1>2. Backed
  BY NoAuditFollows, IdleType DEF Init, Backed, GrantedOnlyApproved
<1> QED BY <1>1, <1>2 DEF IInv

----------------------------------------------------------------------------
\* A request is replaced by one that is typed and backed, approvals only grow,
\* and the rows are backed: the invariant holds again.
LEMMA StepIInv ==
    ASSUME IInv,
           NEW r \in Requests, NEW state \in Request,
           req' = [req EXCEPT ![r] = state],
           begun' \in 0 .. MaxRequests, crashes' \in 0 .. MaxCrashes,
           apply' \in WorkflowStatus \cup {"none"}, audit' \in WorkflowAudit,
           grants' \in Nat,
           approved \subseteq approved', approved' \subseteq Groups,
           ChainFollowed(audit', "none", approved'),
           ChainFollowed(state.audit, "none", approved'),
           state.pc = "grant" => Approved("none", approved'),
           grants' > 0 \/ apply' = "PASSED" => Approved("none", approved')
    PROVE  IInv'
<1>1. TypeOK'
  BY DEF IInv, TypeOK
<1>2. GrantedOnlyApproved'
  BY DEF GrantedOnlyApproved, ChainApproved
<1>3. ASSUME NEW q \in Requests
      PROVE  /\ ChainFollowed(req'[q].audit, "none", approved')
             /\ req'[q].pc = "grant" => Approved("none", approved')
  <2>1. CASE q = r
    BY <2>1 DEF IInv, TypeOK
  <2>2. CASE q # r
    <3>1. req'[q] = req[q]
      BY <2>2 DEF IInv, TypeOK
    <3>2. /\ ChainFollowed(req[q].audit, "none", approved)
          /\ req[q].pc = "grant" => Approved("none", approved)
      BY DEF IInv, Backed, ChainApproved
    <3> QED BY <3>1, <3>2, FollowedGrows DEF Approved
  <2> QED BY <2>1, <2>2
<1> QED BY <1>1, <1>2, <1>3 DEF IInv, Backed, ChainApproved

\* Backing of the state before the step, with the names expanded.
LEMMA BackedNow ==
    ASSUME IInv
    PROVE  /\ ChainFollowed(audit, "none", approved)
           /\ grants > 0 \/ apply = "PASSED" => Approved("none", approved)
           /\ \A r \in Requests :
                /\ req[r] \in Request
                /\ ChainFollowed(req[r].audit, "none", approved)
                /\ req[r].pc = "grant" => Approved("none", approved)
           /\ apply \in WorkflowStatus \cup {"none"} /\ audit \in WorkflowAudit
           /\ grants \in Nat /\ approved \subseteq Groups
           /\ begun \in 0 .. MaxRequests /\ crashes \in 0 .. MaxCrashes
BY DEF IInv, TypeOK, Backed, GrantedOnlyApproved, ChainApproved

LEMMA FrameTypes ==
    ASSUME IInv, NEW r \in Requests, NEW op, NEW pc, Begin(r, op) \/ Continue(r, pc)
    PROVE  begun' \in 0 .. MaxRequests /\ crashes' \in 0 .. MaxCrashes
BY BackedNow, ApplyAssumption DEF Begin, Continue

LEMMA NextIInv == IInv /\ [Next]_vars => IInv'
<1> SUFFICES ASSUME IInv, [Next]_vars PROVE IInv'
  OBVIOUS
<1>1. ASSUME NEW r \in Requests, Apply(r) PROVE IInv'
  <2> DEFINE state == [Idle EXCEPT !.pc = "callBack", !.audit = audit']
  <2>1. audit' \in WorkflowAudit /\ ChainFollowed(audit', "none", approved)
    BY <1>1, CreateFollows DEF Apply, AutoReview
  <2>2. /\ apply' = "WAITING" /\ req' = [req EXCEPT ![r] = state]
        /\ grants' = grants /\ approved' = approved
        /\ apply = "none"
    BY <1>1 DEF Apply, Goto
  <2>3. state \in Request /\ state.audit = audit' /\ state.pc = "callBack"
    BY <2>1, IdleType DEF Idle, Request, Pcs
  <2>4. begun' \in 0 .. MaxRequests /\ crashes' \in 0 .. MaxCrashes
    BY <1>1, FrameTypes DEF Apply
  <2> HIDE DEF state
  <2> QED BY <2>1, <2>2, <2>3, <2>4, BackedNow, StepIInv DEF WorkflowStatus
<1>2. ASSUME NEW r \in Requests, CallBack(r) PROVE IInv'
  <2> DEFINE state == IF apply' = "PASSED" THEN [req[r] EXCEPT !.pc = "grant"] ELSE Idle
  <2>1. /\ apply' = req[r].audit.status /\ req' = [req EXCEPT ![r] = state]
        /\ grants' = grants /\ approved' = approved /\ audit' = audit
    BY <1>2 DEF CallBack, Goto
  <2>2. /\ apply' \in WorkflowStatus
        /\ apply' = "PASSED" => Approved("none", approved)
    BY <2>1, BackedNow DEF Request, WorkflowAudit, ChainFollowed
  <2>3. /\ state \in Request
        /\ ChainFollowed(state.audit, "none", approved)
        /\ state.pc = "grant" => apply' = "PASSED"
    <3>1. CASE apply' = "PASSED"
      BY <3>1, BackedNow DEF Request, Pcs
    <3>2. CASE apply' # "PASSED"
      BY <3>2, IdleType, NoAuditFollows
    <3> QED BY <3>1, <3>2
  <2>4. begun' \in 0 .. MaxRequests /\ crashes' \in 0 .. MaxCrashes
    BY <1>2, FrameTypes DEF CallBack
  <2> HIDE DEF state
  <2> QED BY <2>1, <2>2, <2>3, <2>4, BackedNow, StepIInv
<1>3. ASSUME NEW r \in Requests, Grant(r) PROVE IInv'
  <2>1. /\ req[r].pc = "grant" /\ req' = [req EXCEPT ![r] = Idle]
        /\ grants' = grants + 1
        /\ apply' = apply /\ approved' = approved /\ audit' = audit
    BY <1>3 DEF Grant, Continue, Goto
  <2>2. Approved("none", approved)
    BY <2>1, BackedNow
  <2>3. begun' \in 0 .. MaxRequests /\ crashes' \in 0 .. MaxCrashes
    BY <1>3, FrameTypes DEF Grant
  <2>4. grants' \in Nat /\ Idle \in Request /\ Idle.pc # "grant"
    BY <2>1, BackedNow, IdleType
  <2>5. ChainFollowed(Idle.audit, "none", approved')
    BY IdleType, NoAuditFollows
  <2> QED BY <2>1, <2>2, <2>3, <2>4, <2>5, BackedNow, StepIInv
<1>4. ASSUME NEW r \in Requests, NEW state \in Request,
             req' = [req EXCEPT ![r] = state],
             state.audit = audit \/ state.audit = NoAudit,
             state.pc # "grant",
             begun' \in 0 .. MaxRequests, crashes' \in 0 .. MaxCrashes,
             UNCHANGED <<apply, audit, grants, approved>>
      PROVE  IInv'
  BY <1>4, BackedNow, NoAuditFollows, StepIInv
<1>5. ASSUME NEW r \in Requests, AuditBegin(r) \/ ApiBegin(r) PROVE IInv'
  <2>1. PICK state \in Request :
          /\ req' = [req EXCEPT ![r] = state]
          /\ state.audit = audit /\ state.pc # "grant"
    <3>1. CASE AuditBegin(r)
      <4>1. PICK actor \in Reviewers, action \in Actions :
              Goto(r, [pc |-> "audit", actor |-> actor, action |-> action, audit |-> audit])
        BY <3>1 DEF AuditBegin
      <4> DEFINE state == [pc |-> "audit", actor |-> actor, action |-> action, audit |-> audit]
      <4>2. actor \in Users /\ action \in WorkflowAction
        BY UsersAssumption, ApplyAssumption DEF WorkflowAction
      <4>3. state \in Request /\ state.audit = audit /\ state.pc # "grant"
        BY <4>2, BackedNow DEF Request, Pcs
      <4>4. req' = [req EXCEPT ![r] = state]
        BY <4>1 DEF Goto
      <4> HIDE DEF state
      <4> QED BY <4>3, <4>4
    <3>2. CASE ApiBegin(r)
      <4>1. PICK actor \in Users :
              Goto(r, [pc |-> "api", actor |-> actor, action |-> "PASS", audit |-> audit])
        BY <3>2 DEF ApiBegin
      <4> DEFINE state == [pc |-> "api", actor |-> actor, action |-> "PASS", audit |-> audit]
      <4>2. actor \in Users /\ "PASS" \in WorkflowAction
        BY UsersAssumption, ApplyAssumption DEF WorkflowAction
      <4>3. state \in Request /\ state.audit = audit /\ state.pc # "grant"
        BY <4>2, BackedNow DEF Request, Pcs
      <4>4. req' = [req EXCEPT ![r] = state]
        BY <4>1 DEF Goto
      <4> HIDE DEF state
      <4> QED BY <4>3, <4>4
    <3> QED BY <1>5, <3>1, <3>2
  <2>2. begun' \in 0 .. MaxRequests /\ crashes' \in 0 .. MaxCrashes
    BY <1>5, FrameTypes DEF AuditBegin, ApiBegin
  <2>3. UNCHANGED <<apply, audit, grants, approved>>
    BY <1>5 DEF AuditBegin, ApiBegin
  <2> QED BY <1>4, <2>1, <2>2, <2>3
<1>6. ASSUME NEW r \in Requests, ApiCancel(r) PROVE IInv'
  <2> DEFINE state == [Idle EXCEPT !.pc = "error"]
  <2>1. state \in Request /\ state.audit = NoAudit /\ state.pc = "error"
    BY IdleType DEF Idle, Request, Pcs
  <2>2. begun' \in 0 .. MaxRequests /\ crashes' \in 0 .. MaxCrashes
    BY <1>6, FrameTypes DEF ApiCancel
  <2>3. UNCHANGED <<apply, audit, grants, approved>> /\ req' = [req EXCEPT ![r] = state]
    BY <1>6 DEF ApiCancel, Goto
  <2> HIDE DEF state
  <2> QED BY <1>4, <2>1, <2>2, <2>3
<1>7. ASSUME NEW r \in Requests, Refused(r) \/ RequestDies(r) PROVE IInv'
  <2>1. UNCHANGED <<apply, audit, grants, approved, begun>> /\ req' = [req EXCEPT ![r] = Idle]
    BY <1>7 DEF Refused, RequestDies, Goto
  <2>2. begun' \in 0 .. MaxRequests /\ crashes' \in 0 .. MaxCrashes
    BY <1>7, BackedNow, ApplyAssumption DEF Refused, RequestDies
  <2> QED BY <1>4, <2>1, <2>2, IdleType
<1>8. ASSUME NEW r \in Requests, AuditOperate(r) \/ ApiOperate(r) PROVE IInv'
  <2> DEFINE a      == req[r].audit
             action == req[r].action
             more   == IF action = "PASS" THEN approved \cup {a.current} ELSE approved
  <2>1. /\ CanOperate(a, action, req[r].actor)
        /\ audit' = Operate(a, action) /\ approved' = more
    BY <1>8 DEF AuditOperate, ApiOperate, SaveAudit, Operated
  <2>2. a \in WorkflowAudit /\ action \in WorkflowAction /\ ChainFollowed(a, "none", approved)
    BY BackedNow DEF Request
  <2>3. /\ audit' \in WorkflowAudit
        /\ ChainFollowed(audit', "none", more)
        /\ action = "PASS" => a.current \in Groups
    <3> HIDE DEF a, action
    <3> QED BY <2>1, <2>2, OperatedFollows
  <2>4. approved \subseteq approved' /\ approved' \subseteq Groups
    BY <2>1, <2>3, BackedNow
  <2>5. begun' \in 0 .. MaxRequests /\ crashes' \in 0 .. MaxCrashes
    BY <1>8, FrameTypes DEF AuditOperate, ApiOperate
  <2>6. Approved("none", approved) => Approved("none", approved')
    BY <2>4 DEF Approved
  <2>7. audit'.status = "PASSED" => Approved("none", approved')
    BY <2>1, <2>3 DEF ChainFollowed
  <2> HIDE DEF a, action, more
  <2>8. CASE AuditOperate(r)
    <3>1. /\ req' = [req EXCEPT ![r] = Idle] /\ apply' = audit'.status
          /\ grants' = IF apply' = "PASSED" THEN grants + 1 ELSE grants
      BY <2>8 DEF AuditOperate, Goto, SaveAudit
    <3>2. apply' \in WorkflowStatus
      BY <2>3, <3>1 DEF WorkflowAudit
    <3>3. grants' \in Nat /\ (grants' > 0 \/ apply' = "PASSED" => Approved("none", approved'))
      BY <3>1, <2>6, <2>7, BackedNow
    <3> QED BY <2>1, <2>3, <2>4, <2>5, <3>1, <3>2, <3>3, IdleType, NoAuditFollows, StepIInv
  <2>9. CASE ApiOperate(r)
    <3> DEFINE state == [req[r] EXCEPT !.pc = "callBack", !.audit = audit']
    <3>1. req' = [req EXCEPT ![r] = state] /\ apply' = apply /\ grants' = grants
      BY <2>9 DEF ApiOperate, Goto
    <3>2. state \in Request /\ state.audit = audit' /\ state.pc = "callBack"
      BY <2>3, BackedNow DEF Request, Pcs
    <3>3. grants' > 0 \/ apply' = "PASSED" => Approved("none", approved')
      BY <3>1, <2>6, BackedNow
    <3> HIDE DEF state
    <3> QED BY <2>1, <2>3, <2>4, <2>5, <3>1, <3>2, <3>3, BackedNow, StepIInv
  <2> QED BY <1>8, <2>8, <2>9
<1>9. CASE UNCHANGED vars
  BY <1>9 DEF vars, IInv, TypeOK, Backed, GrantedOnlyApproved, ChainApproved
<1> QED BY <1>1, <1>2, <1>3, <1>5, <1>6, <1>7, <1>8, <1>9 DEF Next, Proceed

----------------------------------------------------------------------------
\* The types of the rows, the requests and the history.
THEOREM TypeCorrect == Spec => []TypeOK
<1>1. IInv => TypeOK
  BY DEF IInv
<1> QED BY <1>1, InitIInv, NextIInv, PTL DEF Spec

\* The row, every copy of it and every request about to insert privileges are
\* backed by the approvals.
THEOREM AlwaysBacked == Spec => []Backed
<1>1. IInv => Backed
  BY DEF IInv
<1> QED BY <1>1, InitIInv, NextIInv, PTL DEF Spec

\* No privilege without the approval of the whole chain, by the page or the API.
THEOREM NothingGrantedUnapproved == Spec => []GrantedOnlyApproved
<1>1. IInv => GrantedOnlyApproved
  BY DEF IInv, Backed
<1> QED BY <1>1, InitIInv, NextIInv, PTL DEF Spec


----------------------------------------------------------------------------
(***************************************************************************)
(* The history.  While no copy out of date has been used, the privileges   *)
(* are a token: with the request that is about to insert them, inserted,   *)
(* or lost with a process, and there only once the audit row waits no more.*)
(***************************************************************************)
Pending(x) == x.pc = "grant" \/ (x.pc = "callBack" /\ x.audit.status = "PASSED")

\* What every behaviour keeps: requests come after the submission, and the API
\* only passes.
RequestBegun(x, status, ofApi) ==
    /\ x.pc # "idle" => status # "none"
    /\ x.pc = "api" => x.action = "PASS" /\ ofApi
    /\ x.pc = "callBack" /\ ~ofApi => x.audit.status = "WAITING"

Begun == \A r \in Requests : RequestBegun(req[r], apply, r \in api)

Once ==
    /\ grants <= 1
    /\ grants > 0 => \A r \in Requests : ~Pending(req[r])
    /\ \A q, r \in Requests : Pending(req[q]) /\ Pending(req[r]) => q = r
    /\ grants > 0 \/ (\E r \in Requests : Pending(req[r])) =>
         audit.status # "WAITING" /\ apply # "none"

\* The row lags behind the audit row only while a request is between the two.
Agrees ==
    /\ audit.status = "WAITING" /\ apply # "none" => apply = "WAITING"
    /\ apply # "none" =>
         \/ apply = audit.status
         \/ \E r \in Requests : req[r].pc = "callBack" /\ req[r].audit = audit

HistoryInv ==
    /\ Begun
    /\ ~stale => Once
    /\ ~stale /\ ~cut => Agrees

LEMMA InitHistory == WatchedInit => HistoryInv
BY DEF WatchedInit, Init, HistoryInv, Begun, RequestBegun, Once, Agrees, Pending, Idle

\* A step of one request, seen by the history.
LEMMA Watched ==
    ASSUME IInv, WatchedNext, NEW r \in Requests, NEW state, Goto(r, state)
    PROVE  /\ req' = [req EXCEPT ![r] = state]
           /\ req'[r] = state
           /\ ~stale' => ~stale /\ ~Stale(r)
           /\ ~cut' => ~cut
           /\ \A q \in Requests : q # r => req'[q] = req[q]
           /\ \A q \in Requests : q \in api /\ req'[q].pc # "idle" => q \in api'
BY DEF IInv, TypeOK, Goto, WatchedNext

\* A step that moves no token and leaves the rows as they are.
LEMMA HistoryStep ==
    ASSUME IInv, HistoryInv, WatchedNext, NEW r \in Requests, NEW state, Goto(r, state),
           UNCHANGED <<apply, audit, grants>>,
           RequestBegun(state, apply, r \in api'),
           ~Pending(state),
           req[r].pc = "callBack" /\ ~cut' => r \notin api
    PROVE  HistoryInv'
<1>w. /\ req' = [req EXCEPT ![r] = state] /\ req'[r] = state
      /\ ~stale' => ~stale
      /\ ~cut' => ~cut
      /\ \A q \in Requests : q # r => req'[q] = req[q]
      /\ \A q \in Requests : q \in api /\ req'[q].pc # "idle" => q \in api'
  BY Watched
<1>1. Begun'
  BY <1>w DEF HistoryInv, Begun, RequestBegun
<1>2. ~stale' => Once'
  BY <1>w DEF HistoryInv, Once
<1>3. ~stale' /\ ~cut' => Agrees'
  BY <1>w DEF HistoryInv, Agrees, Begun, RequestBegun
<1> QED BY <1>1, <1>2, <1>3 DEF HistoryInv

LEMMA NextHistory == IInv /\ HistoryInv /\ [WatchedNext]_watched => HistoryInv'
<1> SUFFICES ASSUME IInv, HistoryInv, [WatchedNext]_watched PROVE HistoryInv'
  OBVIOUS
<1>i. /\ \A r \in Requests : /\ req[r] \in Request /\ req[r].audit \in WorkflowAudit
                             /\ req[r].action \in WorkflowAction
      /\ audit \in WorkflowAudit /\ grants \in Nat
      /\ Idle.pc = "idle" /\ Idle.action = "PASS"
  BY BackedNow DEF Request, Idle
<1>0. CASE UNCHANGED watched
  BY <1>0 DEF watched, vars, HistoryInv, Begun, Once, Agrees
<1> SUFFICES ASSUME WatchedNext PROVE HistoryInv'
  BY <1>0
<1>1. ASSUME NEW r \in Requests, Apply(r) PROVE HistoryInv'
  <2> DEFINE state == [Idle EXCEPT !.pc = "callBack", !.audit = audit']
  <2>1. /\ Goto(r, state) /\ apply = "none" /\ apply' = "WAITING"
        /\ audit'.status = "WAITING" /\ UNCHANGED grants
    BY <1>1 DEF Apply, CreateAudit
  <2>2. state.pc = "callBack" /\ state.audit = audit'
    BY DEF Idle
  <2> HIDE DEF state
  <2>3. /\ req'[r] = state
        /\ ~stale' => ~stale
        /\ ~cut' => ~cut
        /\ \A q \in Requests : q # r => req'[q] = req[q]
    BY <2>1, Watched
  <2>4. \A q \in Requests : q # r => req'[q].pc = "idle"
    BY <2>1, <2>3 DEF HistoryInv, Begun, RequestBegun
  <2>5. Begun'
    BY <2>1, <2>2, <2>3, <2>4 DEF Begun, RequestBegun
  <2>6. ~stale' => Once'
    BY <2>1, <2>2, <2>3, <2>4 DEF HistoryInv, Once, Pending
  <2> QED BY <2>1, <2>2, <2>3, <2>5, <2>6 DEF HistoryInv, Agrees
<1>2. ASSUME NEW r \in Requests, CallBack(r) PROVE HistoryInv'
  <2> DEFINE state == IF apply' = "PASSED" THEN [req[r] EXCEPT !.pc = "grant"] ELSE Idle
  <2>1. /\ req[r].pc = "callBack" /\ Goto(r, state) /\ apply' = req[r].audit.status
        /\ UNCHANGED <<audit, grants, crashes>>
    BY <1>2 DEF CallBack, Continue
  <2>2. state.pc \in {"grant", "idle"} /\ (state.pc = "grant" <=> apply' = "PASSED")
    BY <1>i DEF Request
  <2> HIDE DEF state
  <2>3. /\ req'[r] = state
        /\ ~stale' => ~stale /\ ~Stale(r)
        /\ ~cut' => ~cut
        /\ \A q \in Requests : q # r => req'[q] = req[q]
        /\ \A q \in Requests : q \in api /\ req'[q].pc # "idle" => q \in api'
    BY <2>1, Watched
  <2>4. ~stale' => req[r].audit = audit
    BY <2>1, <2>2, <2>3 DEF Stale, Refused, Died
  <2>5. apply' # "none"
    BY <1>i, <2>1 DEF WorkflowAudit, WorkflowStatus
  <2>6. Begun'
    BY <2>2, <2>3, <2>5 DEF HistoryInv, Begun, RequestBegun
  <2>7. ~stale' => Once'
    BY <2>1, <2>2, <2>3, <2>4, <2>5 DEF HistoryInv, Once, Pending
  <2> QED BY <2>1, <2>3, <2>4, <2>6, <2>7 DEF HistoryInv, Agrees
<1>3. ASSUME NEW r \in Requests, Grant(r) PROVE HistoryInv'
  <2>1. /\ req[r].pc = "grant" /\ Goto(r, Idle) /\ grants' = grants + 1
        /\ UNCHANGED <<apply, audit>>
    BY <1>3 DEF Grant, Continue
  <2>2. /\ req'[r] = Idle
        /\ ~stale' => ~stale
        /\ ~cut' => ~cut
        /\ \A q \in Requests : q # r => req'[q] = req[q]
        /\ \A q \in Requests : q \in api /\ req'[q].pc # "idle" => q \in api'
    BY <2>1, Watched
  <2>3. Begun'
    BY <1>i, <2>1, <2>2 DEF HistoryInv, Begun, RequestBegun
  <2>4. ~stale' => Once'
    BY <1>i, <2>1, <2>2 DEF HistoryInv, Once, Pending
  <2>5. ~stale' /\ ~cut' => Agrees'
    BY <2>1, <2>2 DEF HistoryInv, Agrees
  <2> QED BY <2>3, <2>4, <2>5 DEF HistoryInv
<1>4. ASSUME NEW r \in Requests, AuditBegin(r) \/ ApiBegin(r) \/ ApiCancel(r) PROVE HistoryInv'
  <2>1. /\ req[r].pc = "idle" /\ apply # "none" /\ UNCHANGED <<apply, audit, grants>>
        /\ ApiBegin(r) => r \in api'
    BY <1>4 DEF AuditBegin, ApiBegin, ApiCancel, Begin, WatchedNext
  <2>2. ASSUME NEW state, Goto(r, state), state.pc \in {"audit", "api", "error"},
               state.pc = "api" => state.action = "PASS" /\ ApiBegin(r)
        PROVE  HistoryInv'
    BY <2>1, <2>2, HistoryStep DEF RequestBegun, Pending
  <2>3. CASE AuditBegin(r)
    BY <2>2, <2>3 DEF AuditBegin
  <2>4. CASE ApiBegin(r)
    BY <2>2, <2>4 DEF ApiBegin
  <2>5. CASE ApiCancel(r)
    BY <2>2, <2>5 DEF ApiCancel, Idle
  <2> QED BY <1>4, <2>3, <2>4, <2>5
<1>5. ASSUME NEW r \in Requests, Refused(r) \/ RequestDies(r) PROVE HistoryInv'
  <2>1. /\ req[r].pc # "idle" /\ Goto(r, Idle) /\ UNCHANGED <<apply, audit, grants>>
        /\ Refused(r) => req[r].pc # "callBack"
        /\ RequestDies(r) => crashes' = crashes + 1
    BY <1>5 DEF Refused, RequestDies
  <2>2. req[r].pc = "callBack" /\ ~cut' => r \notin api
    <3>1. req'[r] = Idle /\ crashes \in Nat
      BY <2>1, Watched, BackedNow, ApplyAssumption
    <3>2. req[r].pc = "callBack" => Died(r)
      BY <1>5, <1>i, <2>1, <3>1 DEF Died
    <3>3. cut' <=> cut \/ \E q \in api : Died(q) /\ req[q].pc \in {"callBack", "grant"}
      BY DEF WatchedNext
    <3> QED BY <3>2, <3>3
  <2>3. RequestBegun(Idle, apply, r \in api') /\ ~Pending(Idle)
    BY <1>i DEF RequestBegun, Pending
  <2> QED BY <2>1, <2>2, <2>3, HistoryStep
<1>6. ASSUME NEW r \in Requests, AuditOperate(r) \/ ApiOperate(r) PROVE HistoryInv'
  <2>1. /\ req[r].pc \in {"audit", "api"}
        /\ CanOperate(req[r].audit, req[r].action, req[r].actor)
        /\ audit' = Operate(req[r].audit, req[r].action) /\ UNCHANGED crashes
    BY <1>6 DEF AuditOperate, ApiOperate, SaveAudit, Operated, Continue
  <2>2. PICK state : /\ Goto(r, state)
                     /\ AuditOperate(r) => state = Idle
                     /\ ApiOperate(r) => state = [req[r] EXCEPT !.pc = "callBack", !.audit = audit']
    BY <1>6 DEF AuditOperate, ApiOperate, Continue
  <2>3. /\ req'[r] = state
        /\ ~stale' => ~stale /\ ~Stale(r)
        /\ ~cut' => ~cut
        /\ \A q \in Requests : q # r => req'[q] = req[q]
        /\ \A q \in Requests : q \in api /\ req'[q].pc # "idle" => q \in api'
    BY <2>2, Watched
  <2>4. state.pc # req[r].pc /\ apply # "none"
    BY <1>i, <1>6, <2>1, <2>2 DEF Request, HistoryInv, Begun, RequestBegun
  <2>5. ~stale' => req[r].audit = audit /\ req[r].action \in {"PASS", "REJECT", "ABORT"}
    BY <1>i, <2>1, <2>3, <2>4 DEF Stale, Refused, Died, WorkflowAction
  <2>6. ~stale' => /\ req[r].action = "PASS" => /\ audit.status = "WAITING"
                                                /\ audit'.status \in {"WAITING", "PASSED"}
                   /\ req[r].action # "PASS" => audit'.status \in {"REJECTED", "ABORTED"}
    BY <1>i, <2>1, <2>5, OperatedStatus
  <2>7. CASE AuditOperate(r)
    <3>1. /\ apply' = audit'.status
          /\ grants' = IF apply' = "PASSED" THEN grants + 1 ELSE grants
          /\ state.pc = "idle" /\ ~Pending(state)
      BY <1>i, <2>2, <2>7 DEF AuditOperate, SaveAudit, Pending
    <3>2. audit' \in WorkflowAudit /\ apply' # "none"
      BY <3>1, <1>i, <2>1, BackedNow, OperatedFollows DEF WorkflowAudit, WorkflowStatus
    <3>3. Begun'
      BY <2>3, <3>1, <3>2 DEF HistoryInv, Begun, RequestBegun
    <3>4. ~stale' => Once'
      BY <1>i, <2>3, <2>6, <3>1, <3>2 DEF HistoryInv, Once
    <3> QED BY <2>3, <3>1, <3>3, <3>4 DEF HistoryInv, Agrees
  <2>8. CASE ApiOperate(r)
    <3>1. /\ UNCHANGED <<apply, grants>> /\ req[r].pc = "api"
          /\ state.pc = "callBack" /\ state.audit = audit'
      BY <1>i, <2>2, <2>8 DEF ApiOperate, Continue, Request
    <3>2. req[r].action = "PASS" /\ r \in api'
      BY <2>3, <3>1 DEF HistoryInv, Begun, RequestBegun
    <3>3. Begun'
      BY <2>3, <2>4, <3>1, <3>2 DEF HistoryInv, Begun, RequestBegun
    <3>4. ~stale' => Once'
      BY <1>i, <2>3, <2>4, <2>6, <3>1, <3>2 DEF HistoryInv, Once, Pending
    <3>5. ~stale' /\ ~cut' => Agrees'
      BY <2>3, <2>4, <2>6, <3>1, <3>2 DEF HistoryInv, Agrees
    <3> QED BY <3>3, <3>4, <3>5 DEF HistoryInv
  <2> QED BY <1>6, <2>7, <2>8
<1> QED BY <1>1, <1>2, <1>3, <1>4, <1>5, <1>6 DEF WatchedNext, Next, Proceed

LEMMA WatchedInduction ==
    /\ WatchedInit => IInv /\ HistoryInv
    /\ IInv /\ HistoryInv /\ [WatchedNext]_watched => IInv' /\ HistoryInv'
<1>1. [WatchedNext]_watched => [Next]_vars
  BY DEF WatchedNext, watched
<1> QED BY <1>1, InitIInv, NextIInv, InitHistory, NextHistory DEF WatchedInit

\* The privileges are inserted once, although the call-back looks for no earlier
\* ones: as long as nobody operates on an out-of-date copy of the audit row,
\* whatever is approved, rejected or withdrawn, and whoever dies.
THEOREM PrivilegesOnce == WatchedSpec => []FreshGrantedOnce
<1>1. HistoryInv => FreshGrantedOnce
  BY DEF HistoryInv, Once, FreshGrantedOnce, GrantedOnce
<1> QED BY <1>1, WatchedInduction, PTL DEF WatchedSpec

\* Likewise the page shows of an application what its audit row says, unless a
\* request of the API died between its statements.
THEOREM ApplicationShown == WatchedSpec => []FreshStatusAgrees
<1>1. HistoryInv => FreshStatusAgrees
  BY DEF HistoryInv, Agrees, FreshStatusAgrees, StatusAgrees
<1> QED BY <1>1, WatchedInduction, PTL DEF WatchedSpec

=============================================================================
