--------------------------- MODULE MCSqlWorkflow ---------------------------
(***************************************************************************)
(* Instances of SqlWorkflow: the submitter, who may execute; a reviewer,   *)
(* who may execute too; a superuser; a chain of one or two groups.         *)
(***************************************************************************)
EXTENDS SqlWorkflow, TLC

CONSTANTS submitter, reviewer, admin, g1, g2

OneGroup  == <<g1>>
TwoGroups == <<g1, g2>>

MCGroupUsers == [g \in Groups |-> {reviewer}]

AlwaysOpen  == {[start |-> 0, end |-> MaxNow]}
OpenOrLater == {[start |-> 0, end |-> 0], [start |-> 1, end |-> 1]}

MCSymmetry == Permutations(Requests) \cup Permutations(Workers)

=============================================================================
