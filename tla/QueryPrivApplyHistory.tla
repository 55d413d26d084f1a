------------------------ MODULE QueryPrivApplyHistory -----------------------
(***************************************************************************)
(* QueryPrivApply with history variables, which watch a behaviour for what *)
(* breaks the agreement of the application's rows, so that the properties  *)
(* which need requests one at a time are about every behaviour up to the   *)
(* first such step, and not only about those without overlap.              *)
(***************************************************************************)
EXTENDS QueryPrivApply

VARIABLES
    stale,   \* a copy was used that was the row no longer, or an EXECUTE action was
    api,     \* requests that came through the API
    cut      \* one of those died between its statements

watched == <<vars, stale, api, cut>>

Died(r) == crashes' # crashes /\ req'[r] # req[r]

Stale(r) ==
    /\ req[r].pc \in {"audit", "api", "callBack"}
    /\ req'[r] # req[r] /\ ~Refused(r) /\ ~Died(r)
    /\ req[r].audit # audit \/ req[r].action \in ExecuteActions

WatchedInit == Init /\ stale = FALSE /\ api = {} /\ cut = FALSE

WatchedNext ==
    /\ Next
    /\ stale' = (stale \/ \E r \in Requests : Stale(r))
    /\ api' = {r \in Requests : ApiBegin(r) \/ (r \in api /\ req'[r].pc # "idle")}
    /\ cut' = (cut \/ \E r \in api : Died(r) /\ req[r].pc \in {"callBack", "grant"})

WatchedSpec == WatchedInit /\ [][WatchedNext]_watched

----------------------------------------------------------------------------
\* The privileges are inserted once, whatever is approved, rejected or withdrawn
\* and whoever dies, as long as nobody operates on a copy of the audit row that
\* is out of date (_query_apply_audit_call_back looks for no earlier ones).
FreshGrantedOnce == ~stale => GrantedOnce

\* Likewise the application's row and its audit row agree between requests,
\* unless a request of the API died between its statements.
FreshStatusAgrees == ~stale /\ ~cut => StatusAgrees

=============================================================================
