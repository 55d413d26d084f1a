---------------------------- MODULE MCQueryKill ----------------------------
(***************************************************************************)
(* Instances of QueryKill.                                                 *)
(***************************************************************************)
EXTENDS QueryKill, TLC

MCSymmetry == Permutations(Requests)

=============================================================================
