----------------------- MODULE InstanceAccountHistory -----------------------
(***************************************************************************)
(* InstanceAccount with a history variable: whether requests have          *)
(* overlapped, one has died, a user has recorded a password, or deleted an *)
(* account from a page that showed its row otherwise than it is.  Nothing  *)
(* joins the instance and the table, so their agreement is promised only   *)
(* up to the first of these.                                               *)
(***************************************************************************)
EXTENDS InstanceAccount

VARIABLE disturbed

watched == <<accountVars, disturbed>>

WatchedInit == AccountInit /\ disturbed = FALSE

WatchedNext ==
    /\ AccountNext
    /\ disturbed' =
         \/ disturbed
         \/ deaths' > 0
         \/ \E r \in Posts : post'[r].pc = "edit"
         \/ \E r \in Posts : /\ post'[r].pc = "delete"
                            /\ \E a \in post'[r].accounts : post'[r].shown # (saved[a] # None)
         \/ \E r, s \in Posts : /\ r # s
                               /\ post'[r].pc \notin Resting
                               /\ post'[s].pc \notin Resting

WatchedSpec == WatchedInit /\ [][WatchedNext]_watched

----------------------------------------------------------------------------
\* As long as requests come one at a time, none dies, none records a password and
\* none deletes by an outdated page: between them every row under an account's name
\* is that of an account of the instance, with its password, whichever of the
\* statements failed.
AloneSavedAgrees == ~disturbed => SavedAgrees

=============================================================================
