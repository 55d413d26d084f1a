--------------------------- MODULE ArchiveHistory ---------------------------
(***************************************************************************)
(* Archive with a history variable, which watches a behaviour for what     *)
(* breaks the agreement of the rows, so that the properties which need     *)
(* reviews one at a time are about every behaviour up to the first such    *)
(* step, and not only about those without overlap.                         *)
(***************************************************************************)
EXTENDS Archive

VARIABLE broken

watched == <<vars, broken>>

\* The review of the API dies between its statements, or somebody has operated
\* on the audit row in between.
CutSave(r) == req[r].pc = "save" /\ req'[r] # req[r] /\ (crashes' # crashes \/ req[r].audit # audit)

\* The page puts back a state column that it read before the switch was thrown,
\* or is posted an EXECUTE action for a configuration that has passed.
StaleSave(r) ==
    /\ req[r].pc = "audit"
    /\ config' # config
    /\ req'[r] # req[r]
    /\ req[r].state # config.state \/ req[r].action \in ExecuteActions

WatchedInit == Init /\ broken = {}

WatchedNext ==
    /\ Next
    /\ broken' = broken \cup (IF \E r \in Requests : CutSave(r) THEN {"status"} ELSE {})
                        \cup (IF \E r \in Requests : StaleSave(r) THEN {"state"} ELSE {})

WatchedSpec == WatchedInit /\ [][WatchedNext]_watched

----------------------------------------------------------------------------
\* Outside the two statements of the API's review the configuration shows the
\* status of its audit row, stale copies and deaths in the page included
\* (archive_audit saves both in one transaction).
UncutStatusAgrees == "status" \notin broken => StatusAgrees

Pending == picked + queued["periodic"]

\* While a configuration is switched off, the periodic scheduling takes on nothing
\* more: what still is queued and runs was picked before the switch, as long as no
\* stale page has put the switch back (add_archive_task, archive_switch).
SwitchOffHolds == [][off /\ "state" \notin broken => Pending' <= Pending]_vars

\* What would need the row and its task to be dealt with at once, which
\* add_archive_task does not: nothing is queued any more after the switch.
SwitchedOffNotQueued ==
    [][off /\ "state" \notin broken => queued'["periodic"] <= queued["periodic"]]_vars

=============================================================================
