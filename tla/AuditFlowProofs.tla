-------------------------- MODULE AuditFlowProofs --------------------------
(***************************************************************************)
(* Proofs about AuditFlow, for every chain, every set of users and any     *)
(* number of concurrent requests.  A chain may name a group twice, except  *)
(* where the promise of ApprovalChain is proved.                           *)
(***************************************************************************)
EXTENDS AuditFlow, AuditV2Proofs, SequenceTheorems

----------------------------------------------------------------------------
IInv == TypeOK /\ CopiesFollowed

LEMMA InitIInv == Init => IInv
<1> SUFFICES ASSUME Init PROVE IInv
  OBVIOUS
<1>1. audit \in WorkflowAudit /\ ChainFollowed(audit, auto, approved)
  BY CreateFollows DEF Init
<1>2. TypeOK
  BY <1>1 DEF Init, TypeOK, Idle
<1> QED BY <1>1, <1>2 DEF IInv, CopiesFollowed, Init, Idle

LEMMA NextIInv == IInv /\ [Next]_vars => IInv'
<1> SUFFICES ASSUME IInv, [Next]_vars PROVE IInv'
  OBVIOUS
<1> USE DEF IInv
<1>1. ASSUME NEW r \in Requests, GetAuditor(r) PROVE IInv'
  <2>1. TypeOK'
    BY <1>1 DEF GetAuditor, TypeOK, Loaded, Idle
  <2>2. CopiesFollowed'
    BY <1>1 DEF GetAuditor, TypeOK, CopiesFollowed, ChainFollowed, Approved, Idle
  <2> QED BY <2>1, <2>2
<1>2. ASSUME NEW r \in Requests, Refused(r) \/ OperateNothing(r) PROVE IInv'
  <2>1. TypeOK'
    BY <1>2 DEF Refused, OperateNothing, TypeOK
  <2>2. CopiesFollowed'
    BY <1>2 DEF Refused, OperateNothing, TypeOK, CopiesFollowed, ChainFollowed, Approved, Idle
  <2> QED BY <2>1, <2>2
<1>3. ASSUME NEW r \in Requests, PassOne(r) PROVE IInv'
  <2> DEFINE a == req[r].audit
  <2>1. req[r] \in Loaded /\ a \in WorkflowAudit
    BY <1>3 DEF PassOne, TypeOK, Loaded, Idle
  <2>2. a.status = "WAITING"
    BY <1>3, <2>1 DEF PassOne, CanOperate, SupportedOperationGrid, WorkflowAudit, WorkflowStatus, ExecuteActions
  <2>3. ChainFollowed(a, auto, approved)
    BY <1>3 DEF PassOne, CopiesFollowed
  <2>4. /\ audit' = OperatePass(a)
        /\ approved' = approved \cup {a.current}
        /\ auto' = auto
        /\ req' = [req EXCEPT ![r] = Idle]
    BY <1>3 DEF PassOne
  <2>5. audit' \in WorkflowAudit /\ ChainFollowed(audit', auto', approved') /\ a.current \in Groups
    <3> HIDE DEF a
    <3> QED BY <2>1, <2>2, <2>3, <2>4, PassFollows
  <2>6. TypeOK'
    BY <2>4, <2>5 DEF TypeOK
  <2>7. ASSUME NEW q \in Requests, req'[q].pc = "loaded" PROVE ChainFollowed(req'[q].audit, auto', approved')
    <3>1. q # r /\ req'[q] = req[q]
      BY <2>4, <2>7 DEF TypeOK, Idle
    <3> QED BY <3>1, <2>4, <2>7 DEF CopiesFollowed, ChainFollowed, Approved
  <2> QED BY <2>5, <2>6, <2>7 DEF CopiesFollowed
<1>4. ASSUME NEW r \in Requests, RejectOne(r) \/ AbortOne(r) PROVE IInv'
  <2>1. req[r] \in Loaded /\ req[r].audit \in WorkflowAudit
    BY <1>4 DEF RejectOne, AbortOne, TypeOK, Loaded, Idle
  <2>2. audit' \in WorkflowAudit /\ audit'.status \in {"REJECTED", "ABORTED"}
    <3>1. CASE RejectOne(r)
      BY <3>1 DEF RejectOne, OperateReject, WorkflowAudit, WorkflowStatus
    <3>2. CASE AbortOne(r)
      <4> DEFINE a == req[r].audit
      <4>1. a \in WorkflowAudit /\ audit' = OperateAbort(a)
        BY <3>2, <2>1 DEF AbortOne
      <4> HIDE DEF a
      <4> QED BY <4>1 DEF OperateAbort, WorkflowAudit, WorkflowStatus
    <3> QED BY <1>4, <3>1, <3>2
  <2>3. TypeOK'
    BY <1>4, <2>2 DEF RejectOne, AbortOne, TypeOK
  <2>4. ChainFollowed(audit', auto', approved')
    BY <2>2 DEF ChainFollowed
  <2>5. ASSUME NEW q \in Requests, req'[q].pc = "loaded" PROVE ChainFollowed(req'[q].audit, auto', approved')
    <3>1. q # r /\ req'[q] = req[q]
      BY <1>4, <2>5 DEF RejectOne, AbortOne, TypeOK, Idle
    <3> QED BY <3>1, <1>4, <2>5 DEF RejectOne, AbortOne, CopiesFollowed, ChainFollowed
  <2> QED BY <2>3, <2>4, <2>5 DEF CopiesFollowed
<1>5. CASE UNCHANGED vars
  BY <1>5 DEF vars, TypeOK, CopiesFollowed, ChainFollowed, Approved
<1> QED BY <1>1, <1>2, <1>3, <1>4, <1>5 DEF Next

\* The types of the row, the copies and the history.
THEOREM TypeCorrect == Spec => []TypeOK
<1>1. IInv => TypeOK
  BY DEF IInv
<1> QED BY <1>1, InitIInv, NextIInv, PTL DEF Spec

\* Every copy that a request of operate holds follows the chain.
THEOREM CopiesAlwaysFollowed == Spec => []CopiesFollowed
<1>1. IInv => CopiesFollowed
  BY DEF IInv
<1> QED BY <1>1, InitIInv, NextIInv, PTL DEF Spec

\* A workflow is approved only by all the groups of its chain, however many
\* requests operate on it at the same time from stale copies (operate_pass).
THEOREM NeverSkipsAGroup == Spec => []NoGroupSkipped
<1>1. IInv => NoGroupSkipped
  BY DEF IInv, CopiesFollowed, ChainFollowed, Approved, NoGroupSkipped
<1> QED BY <1>1, InitIInv, NextIInv, PTL DEF Spec

\* The groups that get_review_info shows as passed have approved.
THEOREM ReviewPageHonest == Spec => []ReviewInfoHonest
<1>1. IInv => ReviewInfoHonest
  BY DEF IInv, CopiesFollowed, ChainFollowed, ReviewInfoHonest, ReviewInfoPassed
<1> QED BY <1>1, InitIInv, NextIInv, PTL DEF Spec


----------------------------------------------------------------------------
(***************************************************************************)
(* The promise of the chain.  In a chain that names a group twice,         *)
(* list.index finds the first of them and an approval can lead back, so    *)
(* these theorems are about chains that do not.                            *)
(***************************************************************************)
Distinct ==
    \A i, j \in DOMAIN AuditAuthGroups : AuditAuthGroups[i] = AuditAuthGroups[j] => i = j

\* The groups from g on.
Rest(g) == SubSeq(AuditAuthGroups, Position(g), Len(AuditAuthGroups))

\* The group that follows stands one position further on.
LEMMA FollowingAdvances ==
    ASSUME Distinct, NEW g \in ChainGroups, Following(g) # NoGroup
    PROVE  Position(Following(g)) = Position(g) + 1
<1>1. /\ Position(g) + 1 \in 1 .. Len(AuditAuthGroups)
      /\ Following(g) = AuditAuthGroups[Position(g) + 1]
      /\ Following(g) \in ChainGroups
  BY FollowingInChain
<1>2. /\ Position(Following(g)) \in 1 .. Len(AuditAuthGroups)
      /\ AuditAuthGroups[Position(Following(g))] = Following(g)
  BY <1>1, PositionIsFirst
<1> QED BY <1>1, <1>2, ChainAssumption DEF Distinct

\* The groups after the current one are those of the group that follows, if any.
LEMMA RestFollows ==
    ASSUME Distinct, NEW g \in ChainGroups
    PROVE  /\ Rest(g) \in Seq(Groups)
           /\ Rest(g) # << >>
           /\ Tail(Rest(g)) = IF Following(g) = NoGroup THEN << >> ELSE Rest(Following(g))
           /\ Len(Tail(Rest(g))) < Len(Rest(g))
<1> DEFINE n == Len(AuditAuthGroups)
<1>1. Position(g) \in 1 .. n /\ n \in Nat /\ AuditAuthGroups \in Seq(Groups)
  BY PositionIsFirst, ChainAssumption
<1>2. Rest(g) \in Seq(Groups) /\ Len(Rest(g)) = n - Position(g) + 1
  <2>1. \A i \in Position(g) .. n : AuditAuthGroups[i] \in Groups
    BY <1>1, ElementOfSeq
  <2> QED BY <1>1, <2>1, SubSeqProperties DEF Rest
<1>3. Rest(g) # << >>
  BY <1>1, <1>2, EmptySeq
<1>4. Tail(Rest(g)) = SubSeq(AuditAuthGroups, Position(g) + 1, n)
  BY <1>1, HeadTailOfSubSeq DEF Rest
<1>5. ASSUME Following(g) = NoGroup PROVE Tail(Rest(g)) = << >>
  <2>1. Position(g) = n
    BY <1>5, LastPosition
  <2> QED BY <1>1, <1>4, <2>1, SubSeqEmpty
<1>6. ASSUME Following(g) # NoGroup PROVE Tail(Rest(g)) = Rest(Following(g))
  <2>1. Rest(Following(g)) = SubSeq(AuditAuthGroups, Position(g) + 1, n)
    BY <1>6, FollowingAdvances DEF Rest
  <2> QED BY <1>4, <1>6, <2>1
<1>7. Len(Tail(Rest(g))) < Len(Rest(g))
  <2> HIDE DEF Rest
  <2>1. Len(Tail(Rest(g))) = Len(Rest(g)) - 1
    BY <1>2, <1>3, HeadTailProperties
  <2> QED BY <1>1, <1>2, <2>1
<1> QED BY <1>2, <1>3, <1>5, <1>6, <1>7

\* A PASS on a row that follows the chain is the approval of its first
\* remaining group.
LEMMA PassApproves ==
    ASSUME Distinct, IInv, NEW r \in Requests, PassOne(r), req[r].audit = audit
    PROVE  /\ Promise!Approve
           /\ Len(Remaining') < Len(Remaining)
<1>1. /\ audit \in WorkflowAudit /\ audit.status = "WAITING"
      /\ audit' = OperatePass(audit)
  BY PassNeedsWaiting DEF IInv, TypeOK, PassOne
<1>2. /\ audit.current \in ChainGroups
      /\ audit.next = Following(audit.current)
  BY <1>1 DEF IInv, CopiesFollowed, ChainFollowed
<1>3. Remaining = Rest(audit.current)
  BY <1>1 DEF Remaining, Rest
<1>4. CASE audit.next = NoGroup
  <2>1. audit'.status = "PASSED"
    BY <1>1, <1>4 DEF OperatePass, WorkflowAudit
  <2>2. Remaining' = << >>
    BY <2>1 DEF Remaining
  <2> QED BY <1>1, <1>2, <1>3, <1>4, <2>1, <2>2, RestFollows DEF Promise!Approve
<1>5. CASE audit.next # NoGroup
  <2>1. audit'.status = "WAITING" /\ audit'.current = audit.next
    BY <1>1, <1>5 DEF OperatePass
  <2>2. Remaining' = Rest(audit.next)
    BY <2>1 DEF Remaining, Rest
  <2>3. Rest(audit.next) # << >>
    BY <1>2, <1>5, FollowingInChain, RestFollows
  <2> QED BY <1>1, <1>2, <1>3, <1>5, <2>1, <2>2, <2>3, RestFollows DEF Promise!Approve
<1> QED BY <1>4, <1>5

\* A rejection or withdrawal ends the chain.
LEMMA EndRefuses ==
    ASSUME IInv, NEW r \in Requests, RejectOne(r) \/ AbortOne(r), req[r].audit = audit
    PROVE  Promise!Refuse
<1>1. audit \in WorkflowAudit
  BY DEF IInv, TypeOK
<1>2. audit.status \in {"WAITING", "PASSED"}
  BY <1>1 DEF RejectOne, AbortOne, CanOperate, SupportedOperationGrid, WorkflowAudit, WorkflowStatus
<1>3. audit'.status \in {"REJECTED", "ABORTED"}
  <2>1. OperateReject(audit).status = "REJECTED" /\ OperateAbort(audit).status = "ABORTED"
    BY <1>1 DEF OperateReject, OperateAbort, WorkflowAudit
  <2> QED BY <2>1 DEF RejectOne, AbortOne
<1>4. Remaining' = << >>
  BY <1>3 DEF Remaining
<1> QED BY <1>2, <1>3, <1>4 DEF Promise!Refuse

LEMMA InitPromise == Init => Promise!Init
<1> SUFFICES ASSUME Init PROVE Promise!Init
  OBVIOUS
<1>1. CASE auto = "none"
  <2>1. audit.status = "WAITING" /\ audit.current = AuditAuthGroups[1]
    BY <1>1 DEF Init, CreateAudit
  <2>2. Remaining = SubSeq(AuditAuthGroups, 1, Len(AuditAuthGroups))
    BY <2>1, FirstPosition DEF Remaining
  <2> QED BY <2>1, <2>2, SubSeqFull, ChainAssumption DEF Promise!Init
<1>2. CASE auto # "none"
  BY <1>2 DEF Init, AutoReview, CreateAudit, Remaining, Promise!Init
<1> QED BY <1>1, <1>2

LEMMA NextPromise ==
    ASSUME Distinct, IInv, [Next]_vars
    PROVE  [StaleStep \/ Promise!Next]_(Promise!vars)
<1>1. ASSUME NEW r \in Requests, PassOne(r) \/ RejectOne(r) \/ AbortOne(r)
      PROVE  StaleStep \/ Promise!Next
  <2>1. CASE req[r].audit = audit
    BY <1>1, <2>1, PassApproves, EndRefuses DEF Promise!Next
  <2>2. CASE req[r].audit # audit
    <3>1. req[r].pc = "loaded" /\ req' = [req EXCEPT ![r] = Idle]
      BY <1>1 DEF PassOne, RejectOne, AbortOne
    <3>2. req'[r].pc = "idle"
      BY <3>1 DEF IInv, TypeOK, Idle
    <3> QED BY <2>2, <3>1, <3>2 DEF StaleStep
  <2> QED BY <2>1, <2>2
<1>2. UNCHANGED audit => UNCHANGED (Promise!vars)
  BY DEF Promise!vars, Remaining
<1> QED BY <1>1, <1>2 DEF Next, GetAuditor, Refused, OperateNothing, vars

\* Every accepted PASS on an up-to-date copy brings the workflow nearer to its
\* end, also after a stale save has moved the row back.
THEOREM EveryPassAdvances == ASSUME Distinct PROVE Spec => EveryPassCounts
<1>1. IInv /\ [Next]_vars =>
        [\A r \in Requests :
           PassOne(r) /\ req[r].audit = audit => Len(Remaining') < Len(Remaining)]_vars
  BY PassApproves
<1> QED BY <1>1, InitIInv, NextIInv, PTL DEF Spec, EveryPassCounts

\* The row implements the promise of the chain: whatever requests overlap, each
\* step that is not made from a stale copy is a step of ApprovalChain or none.
THEOREM ImplementsChain == ASSUME Distinct PROVE Spec => KeepsPromise
<1>1. IInv /\ [Next]_vars => [StaleStep \/ Promise!Next]_(Promise!vars)
  BY NextPromise
<1> QED BY <1>1, InitIInv, NextIInv, InitPromise, PTL DEF Spec, KeepsPromise

=============================================================================
