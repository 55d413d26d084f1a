------------------------- MODULE MCInstanceAccount -------------------------
(***************************************************************************)
(* Instances of InstanceAccount: one account and one password that         *)
(* escaping leaves alone, and one of each that it changes.                 *)
(***************************************************************************)
EXTENDS InstanceAccountHistory, TLC

CONSTANTS a1, a2, n2, p1, p2, e2

MCRowOf == (a1 :> a1) @@ (a2 :> n2)

MCEscape == (p1 :> p1) @@ (p2 :> e2)

MCSymmetry == Permutations(Posts)

=============================================================================
