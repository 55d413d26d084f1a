---------------------------- MODULE MCAuditFlow ----------------------------
(***************************************************************************)
(* Instances of AuditFlow: a submitter, an ordinary reviewer and a         *)
(* superuser; a chain of three groups, the last of which may be unstaffed. *)
(***************************************************************************)
EXTENDS AuditFlow, TLC

CONSTANTS submitter, reviewer, admin, g1, g2, g3

MCChain == <<g1, g2, g3>>

MCGroupUsers == [g \in Groups |-> IF g = g3 THEN {} ELSE {reviewer}]

MCSymmetry == Permutations(Requests)

=============================================================================
