-------------------------- MODULE LoginLockHistory --------------------------
(***************************************************************************)
(* LoginLock with a history variable: whether two logins have been in      *)
(* progress together.  A login saves the row it read, so the exact count   *)
(* is promised only up to the first overlap.                               *)
(***************************************************************************)
EXTENDS LoginLock

VARIABLE overlapped

watched == <<vars, overlapped>>

WatchedInit == Init /\ overlapped = FALSE

WatchedNext ==
    /\ Next
    /\ overlapped' = \/ overlapped
                     \/ \E r, s \in Requests : r # s /\ req'[r].pc # "idle" /\ req'[s].pc # "idle"

WatchedSpec == WatchedInit /\ [][WatchedNext]_watched

----------------------------------------------------------------------------
\* As long as no two logins have overlapped, a login is refused exactly when the
\* last LockCount logins failed and the last of them is less than LockTime ago.
RefusedExactly ==
    [][\A r \in Requests :
         ~overlapped /\ req[r].pc = "look" /\ req'[r].pc # "look" =>
           (req'[r].pc = "refused" <=> Locking)]_vars

=============================================================================
