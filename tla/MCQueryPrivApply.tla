-------------------------- MODULE MCQueryPrivApply --------------------------
(***************************************************************************)
(* Instances of QueryPrivApply: an applicant, a reviewer and a superuser.  *)
(***************************************************************************)
EXTENDS QueryPrivApplyHistory, TLC

CONSTANTS submitter, reviewer, admin, g1, g2

OneGroup  == <<g1>>
TwoGroups == <<g1, g2>>

MCGroupUsers == [g \in Groups |-> {reviewer}]

\* A handler that has begun runs on.
MCSpec == WatchedSpec /\ \A r \in Requests : WF_vars(Proceed(r))

----------------------------------------------------------------------------
\* An application that has passed gets its privileges, however the requests
\* overlap, unless the one to insert them dies: through the page, where review
\* and call-back are one transaction, no death loses them.
PassedGetsPrivileges == audit.status = "PASSED" ~> grants > 0 \/ cut

=============================================================================
