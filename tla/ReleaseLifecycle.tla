-------------------------- MODULE ReleaseLifecycle --------------------------
(***************************************************************************)
(* What a release workflow is meant to be, apart from the rows, the queue  *)
(* and the processes it is spread over: it is submitted and reviewed, it   *)
(* may be withdrawn until it is released, its SQL starts at most once, and *)
(* what has been released comes to an end.                                 *)
(***************************************************************************)
EXTENDS Naturals

VARIABLES phase, starts

vars == <<phase, starts>>

Init == phase = "absent" /\ starts = 0

Move(from, to) ==
    /\ phase \in from
    /\ phase' \in to
    /\ UNCHANGED starts

Submit == Move({"absent"}, {"review"})

Approve == Move({"review"}, {"approved"})

Withdraw == Move({"review", "approved"}, {"withdrawn"})

Release == Move({"approved"}, {"queuing"})

\* The SQL was run by hand, outside the system.
RunByHand == Move({"approved"}, {"succeeded"})

Start ==
    /\ phase = "queuing"
    /\ phase' = "executing"
    /\ starts' = starts + 1

End == Move({"executing"}, {"succeeded", "failed"})

Next == Submit \/ Approve \/ Withdraw \/ Release \/ RunByHand \/ Start \/ End

Spec == Init /\ [][Next]_vars /\ WF_vars(Start) /\ WF_vars(End)

=============================================================================
