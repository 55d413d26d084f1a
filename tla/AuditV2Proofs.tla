--------------------------- MODULE AuditV2Proofs ---------------------------
(***************************************************************************)
(* Lemmas about the operators of AuditV2, for every chain of groups; a     *)
(* chain may name a group twice.                                           *)
(***************************************************************************)
EXTENDS AuditV2, WellFoundedInduction, TLAPS

\* A group of the chain has a first position: list.index finds one.
LEMMA FirstExists ==
    ASSUME NEW g \in ChainGroups
    PROVE  \E i \in DOMAIN AuditAuthGroups : IsFirst(i, g)
<1> DEFINE T == {i \in DOMAIN AuditAuthGroups : AuditAuthGroups[i] = g}
<1>1. T \subseteq Nat /\ T # {}
  BY ChainAssumption DEF ChainGroups
<1>2. PICK i \in T : \A j \in T : ~(<<j, i>> \in OpToRel(<, Nat))
  <2> HIDE DEF T
  <2> QED BY <1>1, NatLessThanWellFounded, WFMin
<1>3. \A j \in T : ~(j < i)
  BY <1>1, <1>2 DEF OpToRel
<1>4. \A j \in 1 .. i - 1 : AuditAuthGroups[j] # g
  BY <1>1, <1>3, ChainAssumption
<1> QED BY <1>4 DEF IsFirst

\* Position is that first position.
LEMMA PositionIsFirst ==
    ASSUME NEW g \in ChainGroups
    PROVE  /\ Position(g) \in 1 .. Len(AuditAuthGroups)
           /\ AuditAuthGroups[Position(g)] = g
           /\ \A j \in 1 .. Position(g) - 1 : AuditAuthGroups[j] # g
<1>1. Position(g) \in DOMAIN AuditAuthGroups /\ IsFirst(Position(g), g)
  BY FirstExists DEF Position
<1> QED BY <1>1, ChainAssumption DEF IsFirst

\* The group that follows is in the chain, or there is none.
LEMMA FollowingInChain ==
    ASSUME NEW g \in ChainGroups, Following(g) # NoGroup
    PROVE  /\ Position(g) + 1 \in 1 .. Len(AuditAuthGroups)
           /\ Following(g) = AuditAuthGroups[Position(g) + 1]
           /\ Following(g) \in ChainGroups
BY PositionIsFirst, ChainAssumption DEF Following, ChainGroups

LEMMA ChainInGroups == ChainGroups \subseteq Groups
BY ChainAssumption DEF ChainGroups

LEMMA FollowingType ==
    ASSUME NEW g \in ChainGroups
    PROVE  Following(g) \in Groups \cup {NoGroup}
BY FollowingInChain, ChainInGroups

\* A group that is before the one after g is before g, or is g.
LEMMA BeforeFollowing ==
    ASSUME NEW g \in ChainGroups, Following(g) # NoGroup
    PROVE  Before(Following(g)) \subseteq Before(g) \cup {g}
<1> DEFINE h == Following(g)
<1>1. /\ h = AuditAuthGroups[Position(g) + 1]
      /\ h \in ChainGroups
      /\ Position(g) + 1 \in 1 .. Len(AuditAuthGroups)
  BY FollowingInChain
<1>2. /\ Position(g) \in 1 .. Len(AuditAuthGroups)
      /\ AuditAuthGroups[Position(g)] = g
  BY PositionIsFirst
<1>3. /\ Position(h) \in 1 .. Len(AuditAuthGroups)
      /\ \A j \in 1 .. Position(h) - 1 : AuditAuthGroups[j] # h
  BY <1>1, PositionIsFirst
<1>4. Position(h) <= Position(g) + 1
  BY <1>1, <1>2, <1>3, ChainAssumption
<1>5. ASSUME NEW i \in 1 .. Position(h) - 1
      PROVE  AuditAuthGroups[i] \in Before(g) \cup {g}
  <2>1. i \in 1 .. Position(g) - 1 \/ i = Position(g)
    BY <1>2, <1>3, <1>4, ChainAssumption
  <2> QED BY <2>1, <1>2 DEF Before
<1> QED BY <1>5 DEF Before

\* A group that none follows is the last.
LEMMA LastPosition ==
    ASSUME NEW g \in ChainGroups, Following(g) = NoGroup
    PROVE  Position(g) = Len(AuditAuthGroups)
<1>1. Position(g) \in 1 .. Len(AuditAuthGroups)
  BY PositionIsFirst
<1>2. SUFFICES ASSUME Position(g) + 1 <= Len(AuditAuthGroups) PROVE FALSE
  BY <1>1, ChainAssumption
<1>3. Following(g) \in Groups
  BY <1>1, <1>2, ChainAssumption DEF Following
<1> QED BY <1>3, ChainAssumption

\* The first group of the chain is found at 1.
LEMMA FirstPosition ==
    /\ AuditAuthGroups[1] \in ChainGroups
    /\ Position(AuditAuthGroups[1]) = 1
<1>1. AuditAuthGroups[1] \in ChainGroups
  BY ChainAssumption DEF ChainGroups
<1>2. /\ Position(AuditAuthGroups[1]) \in 1 .. Len(AuditAuthGroups)
      /\ \A j \in 1 .. Position(AuditAuthGroups[1]) - 1 : AuditAuthGroups[j] # AuditAuthGroups[1]
  BY <1>1, PositionIsFirst
<1> QED BY <1>1, <1>2

\* The last group of the chain has every other one before it.
LEMMA LastCoversChain ==
    ASSUME NEW g \in ChainGroups, Following(g) = NoGroup
    PROVE  ChainGroups \subseteq Before(g) \cup {g}
<1>1. /\ Position(g) \in 1 .. Len(AuditAuthGroups)
      /\ AuditAuthGroups[Position(g)] = g
  BY PositionIsFirst
<1>2. Position(g) = Len(AuditAuthGroups)
  BY LastPosition
<1>3. ASSUME NEW i \in DOMAIN AuditAuthGroups
      PROVE  AuditAuthGroups[i] \in Before(g) \cup {g}
  <2>1. i \in 1 .. Position(g) - 1 \/ i = Position(g)
    BY <1>1, <1>2, ChainAssumption
  <2> QED BY <2>1, <1>1 DEF Before
<1> QED BY <1>3 DEF ChainGroups

\* create_audit starts with a followed row, whatever the automatic decision.
LEMMA CreateFollows ==
    ASSUME NEW decision \in AutoReview, NEW done
    PROVE  /\ CreateAudit(decision) \in WorkflowAudit
           /\ ChainFollowed(CreateAudit(decision), decision, done)
<1> DEFINE g == AuditAuthGroups[1]
           n == Len(AuditAuthGroups)
<1>1. g \in ChainGroups /\ n \in Nat /\ n > 0
  BY ChainAssumption DEF ChainGroups
<1>2. Position(g) = 1
  BY FirstPosition
<1>3. Following(g) = IF n = 1 THEN NoGroup ELSE AuditAuthGroups[2]
  <2>1. Following(g) = IF 1 + 1 > n THEN NoGroup ELSE AuditAuthGroups[1 + 1]
    BY <1>2, Zenon DEF Following
  <2>2. 1 + 1 > n <=> n = 1
    <3>1. ASSUME NEW m \in Nat, m > 0 PROVE 1 + 1 > m <=> m = 1
      BY <3>1
    <3> QED BY <1>1, <3>1, Zenon
  <2>3. AuditAuthGroups[1 + 1] = AuditAuthGroups[2]
    OBVIOUS
  <2> QED BY <2>1, <2>2, <2>3, Zenon
<1>4. Before(g) = {}
  BY <1>2 DEF Before
<1>5. CASE decision = "none"
  <2>1. CreateAudit(decision) = [status |-> "WAITING", current |-> g, next |-> Following(g)]
    BY <1>5, <1>3 DEF CreateAudit
  <2>2. Following(g) \in Groups \cup {NoGroup} /\ g \in Groups
    BY <1>1, FollowingType, ChainInGroups
  <2> HIDE DEF g
  <2> QED BY <2>1, <2>2, <1>1, <1>4, <1>5 DEF ChainFollowed, WorkflowAudit, WorkflowStatus
<1>6. CASE decision # "none"
  BY <1>6 DEF AutoReview, CreateAudit, ChainFollowed, Approved, WorkflowAudit, WorkflowStatus
<1> QED BY <1>5, <1>6

\* The heart of the argument: whatever followed copy a PASS works from, the row
\* it saves is followed again, with the approval it records.
LEMMA PassFollows ==
    ASSUME NEW a \in WorkflowAudit, NEW decision, NEW done,
           ChainFollowed(a, decision, done), a.status = "WAITING"
    PROVE  /\ OperatePass(a) \in WorkflowAudit
           /\ ChainFollowed(OperatePass(a), decision, done \cup {a.current})
           /\ a.current \in Groups
<1> DEFINE more == done \cup {a.current}
<1>1. /\ a.current \in ChainGroups
      /\ a.next = Following(a.current)
      /\ Before(a.current) \subseteq done
      /\ decision = "none"
  BY DEF ChainFollowed
<1>2. CASE a.next = NoGroup
  <2>1. ChainGroups \subseteq more
    BY <1>1, <1>2, LastCoversChain
  <2>2. OperatePass(a) = [status |-> "PASSED", current |-> NoGroup, next |-> NoGroup]
    BY <1>2 DEF OperatePass, WorkflowAudit
  <2> QED BY <2>1, <2>2, <1>1, ChainInGroups DEF ChainFollowed, Approved, WorkflowAudit, WorkflowStatus
<1>3. CASE a.next # NoGroup
  <2>1. OperatePass(a) = [status |-> "WAITING", current |-> a.next, next |-> Following(a.next)]
    BY <1>3 DEF OperatePass
  <2>2. a.next \in ChainGroups /\ Before(a.next) \subseteq more
    BY <1>1, <1>3, FollowingInChain, BeforeFollowing
  <2>3. Following(a.next) \in Groups \cup {NoGroup}
    BY <2>2, FollowingType
  <2> QED BY <2>1, <2>2, <2>3, <1>1, ChainInGroups DEF ChainFollowed, Approved, WorkflowAudit, WorkflowStatus
<1> QED BY <1>2, <1>3

\* Rejecting and withdrawing leave a row that neither waits nor has passed.
LEMMA EndFollows ==
    ASSUME NEW a \in WorkflowAudit, NEW decision, NEW done,
           NEW action \in {"REJECT", "ABORT"}
    PROVE  /\ Operate(a, action) \in WorkflowAudit
           /\ ChainFollowed(Operate(a, action), decision, done)
<1>1. CASE action = "REJECT"
  BY <1>1 DEF Operate, OperateReject, ChainFollowed, WorkflowAudit, WorkflowStatus
<1>2. CASE action = "ABORT"
  BY <1>2 DEF Operate, OperateAbort, ChainFollowed, WorkflowAudit, WorkflowStatus
<1> QED BY <1>1, <1>2

\* A PASS is allowed on a waiting row only.
LEMMA PassNeedsWaiting ==
    ASSUME NEW a \in WorkflowAudit, NEW actor, CanOperate(a, "PASS", actor)
    PROVE  a.status = "WAITING"
BY DEF CanOperate, SupportedOperationGrid, WorkflowAudit, WorkflowStatus, ExecuteActions

\* What an operation leaves behind: a PASS was made on a waiting row, and the
\* row waits on or has passed; anything else ends the workflow.
LEMMA OperatedStatus ==
    ASSUME NEW a \in WorkflowAudit, NEW action \in {"PASS", "REJECT", "ABORT"}, NEW actor,
           CanOperate(a, action, actor)
    PROVE  /\ action = "PASS" => /\ a.status = "WAITING"
                                 /\ Operate(a, action).status \in {"WAITING", "PASSED"}
           /\ action # "PASS" => Operate(a, action).status \in {"REJECTED", "ABORTED"}
<1>1. CASE action = "PASS"
  BY <1>1, PassNeedsWaiting DEF Operate, OperatePass, WorkflowAudit
<1>2. CASE action \in {"REJECT", "ABORT"}
  BY <1>2 DEF Operate, OperateReject, OperateAbort, WorkflowAudit
<1> QED BY <1>1, <1>2

\* What followed the chain still follows it when approvals are added.
LEMMA FollowedGrows ==
    ASSUME NEW a, NEW decision, NEW done, NEW more,
           ChainFollowed(a, decision, done), done \subseteq more
    PROVE  ChainFollowed(a, decision, more)
BY DEF ChainFollowed, Approved

\* The row and the approvals that one operation leaves behind, whatever copy it
\* works from.
LEMMA OperatedFollows ==
    ASSUME NEW a \in WorkflowAudit, NEW action \in WorkflowAction, NEW actor, NEW done,
           ChainFollowed(a, "none", done), CanOperate(a, action, actor)
    PROVE  /\ Operate(a, action) \in WorkflowAudit
           /\ ChainFollowed(Operate(a, action), "none",
                            IF action = "PASS" THEN done \cup {a.current} ELSE done)
           /\ action = "PASS" => a.current \in Groups
<1>1. CASE action = "PASS"
  <2>1. a.status = "WAITING"
    BY <1>1, PassNeedsWaiting
  <2>2. Operate(a, action) = OperatePass(a)
    BY <1>1 DEF Operate
  <2> QED BY <1>1, <2>1, <2>2, PassFollows
<1>2. CASE action \in {"REJECT", "ABORT"}
  BY <1>2, EndFollows
<1>3. CASE action \in ExecuteActions
  <2>1. action \notin {"PASS", "REJECT", "ABORT"}
    BY <1>3 DEF ExecuteActions
  <2>2. Operate(a, action) = a
    BY <2>1 DEF Operate
  <2> QED BY <2>1, <2>2
<1> QED BY <1>1, <1>2, <1>3 DEF WorkflowAction

=============================================================================
