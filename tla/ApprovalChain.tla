--------------------------- MODULE ApprovalChain ---------------------------
(***************************************************************************)
(* What an approval is meant to be, apart from how workflow_audit.py keeps *)
(* it in two group columns: the groups of the chain approve one after the  *)
(* other, the last approval passes the workflow, a rejection or withdrawal *)
(* ends it, also after it has passed, and what has ended never moves.      *)
(***************************************************************************)
EXTENDS Sequences

CONSTANT Chain

VARIABLES remaining, verdict

vars == <<remaining, verdict>>

Init ==
    \/ verdict = "WAITING" /\ remaining = Chain
    \/ verdict \in {"PASSED", "REJECTED"} /\ remaining = << >>

Approve ==
    /\ verdict = "WAITING"
    /\ remaining' = Tail(remaining)
    /\ verdict' = IF remaining' = << >> THEN "PASSED" ELSE "WAITING"

Refuse ==
    /\ verdict \in {"WAITING", "PASSED"}
    /\ verdict' \in {"REJECTED", "ABORTED"}
    /\ remaining' = << >>

Next == Approve \/ Refuse

Spec == Init /\ [][Next]_vars

=============================================================================
