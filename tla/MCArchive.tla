----------------------------- MODULE MCArchive -----------------------------
(***************************************************************************)
(* Instances of Archive: an applicant, a reviewer and a superuser.         *)
(***************************************************************************)
EXTENDS ArchiveHistory, TLC

CONSTANTS submitter, reviewer, admin, g1, g2

OneGroup  == <<g1>>
TwoGroups == <<g1, g2>>

MCGroupUsers == [g \in Groups |-> {reviewer}]

\* A handler that has begun runs on, the periodic schedule calls
\* add_archive_task again and again, which queues what it picked, and workers take
\* what is queued.
MCSpec ==
    /\ WatchedSpec
    /\ \A r \in Requests : WF_vars(Proceed(r))
    /\ WF_vars(PickArchive)
    /\ WF_vars(AddArchiveTask)
    /\ \A kind \in Kinds : WF_vars(ArchiveRun(kind))

----------------------------------------------------------------------------
\* An application that has passed is archived, unless it is switched off or
\* reviewed again before, or the API's review was cut short.
PassedIsArchived ==
    audit.status = "PASSED" /\ ~off ~>
        "periodic" \in ran \/ off \/ audit.status # "PASSED" \/ "status" \in broken

=============================================================================
