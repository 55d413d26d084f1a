---------------------------- MODULE MCLoginLock ----------------------------
(***************************************************************************)
(* Instances of LoginLock.                                                 *)
(***************************************************************************)
EXTENDS LoginLockHistory, TLC

MCSymmetry == Permutations(Requests)

=============================================================================
