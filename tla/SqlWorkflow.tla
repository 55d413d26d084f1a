---------------------------- MODULE SqlWorkflow ----------------------------
(***************************************************************************)
(* One SQL release workflow from submission to its result: the row         *)
(* sql_workflow, its audit row, its timing Schedule row, the django-q task *)
(* queue, the worker processes that run the SQL and the monitor process    *)
(* that calls the hook.  Web requests are the processes Requests.          *)
(*                                                                         *)
(* Atomicity.  Every database transaction is one action (its writes are    *)
(* seen by others at commit); outside a transaction every statement        *)
(* commits by itself, so every write that another process can see is an    *)
(* action of its own, and every read whose value is used later is kept in  *)
(* the request.  A Django save() without update_fields writes the WHOLE    *)
(* row from such a copy.                                                   *)
(*                                                                         *)
(* Abstracted: of the row, the status and run_date_start, run_date_end are *)
(* kept (this window stands for all the columns a stale save can put back; *)
(* a date that is not set is one no time of the model reaches).  Time is   *)
(* the counter now: any number of steps happen at one time, and a unit of  *)
(* it is long.  Permissions other than the audit's are the constant        *)
(* Executors.  A request that is refused at its first read changes nothing *)
(* and is not a step.  Logs and notifications have no effect on this state.*)
(***************************************************************************)
EXTENDS AuditV2

CONSTANTS
    Requests,      \* web requests in progress at the same time
    Workers,       \* worker processes of the cluster
    Executors,     \* users can_execute / can_timingtask let execute the workflow
    Windows,       \* what run_date_start and run_date_end may be
    AutoOutcomes,  \* what generate_audit_setting may decide: subset of AutoReview
    Export,        \* is_offline_export
    Ops,           \* the operations users call
    MaxRequests,   \* bound: requests begun altogether
    MaxCrashes,    \* bound: processes killed in the middle of something
    MaxNow         \* bound: the last time of the clock

Operations == {"passed", "cancel", "timing_task", "execute", "alter_run_date",
               "api_pass", "api_cancel"}

ASSUME InstanceAssumption ==
    /\ Superusers \subseteq Executors
    /\ Executors \subseteq Users
    /\ Windows \subseteq [start : Int, end : Int] /\ Windows # {}
    /\ AutoOutcomes \subseteq AutoReview
    /\ Export \in BOOLEAN
    /\ Ops \subseteq Operations
    /\ MaxRequests \in Nat
    /\ MaxCrashes \in Nat
    /\ MaxNow \in Nat

VARIABLES
    workflow,   \* the sql_workflow row
    audit,      \* its workflow_audit row
    schedule,   \* the Schedule row "sqlreview-timing-<id>"
    queued,     \* execute tasks in the redis list: they do not differ
    worker,     \* what each worker process does
    results,    \* finished tasks the monitor has not saved yet
    monitor,    \* the hook, execute_callback
    req,        \* the web requests
    begun, crashes,
    now,        \* the clock
    auto,       \* history: the outcome of the automatic review
    approved,   \* history: groups that approved in their turn
    runs,       \* history: how often the SQL was started on the instance
    granted     \* history: a user released the workflow and no task has used it yet

rows    == <<workflow, audit, schedule>>
cluster == <<queued, worker, results, monitor>>
history == <<auto, approved, runs, granted>>
vars    == <<rows, cluster, req, begun, crashes, now, history>>

----------------------------------------------------------------------------
Startable == {"workflow_queuing", "workflow_timingtask"}

Executable == {"workflow_review_pass", "workflow_timingtask"}

Released == {"workflow_review_pass", "workflow_timingtask", "workflow_queuing",
             "workflow_executing", "workflow_finish", "workflow_exception"}

Ended == {"workflow_finish", "workflow_exception", "workflow_abort",
          "workflow_autoreviewwrong"}

Status == {"none", "workflow_manreviewing"} \cup Released \cup Ended

Row == [status : Status, window : Windows]

AnyWindow == CHOOSE window \in Windows : TRUE

NoRow   == [status |-> "none", window |-> AnyWindow]
NoAudit == [status |-> "REJECTED", current |-> NoGroup, next |-> NoGroup]

Times == 0 .. MaxNow

\* The timing task: next_run and whether it is still to come ("fired": repeats = 0).
Schedule == [state : {"none", "waiting", "fired"}, date : Times]

NoSchedule == [state |-> "none", date |-> 0]

\* How a task ends: execute returns a ReviewSet without or with errors, or raises.
Outcome == {"ok", "error", "raised"}

\* The next step of each operation; the copies are kept only while they are needed.
Pcs == {"idle", "submit",
        "passedAuditor", "passedOperate",
        "cancelCheck", "cancelAuditor", "cancelOperate",
        "timingCheck", "timingSave",
        "executeWindow", "executeQueue", "executeUnschedule", "executeEnqueue", "executeManual",
        "alterSave",
        "apiWorkflow", "apiOperate", "apiPassed", "apiUnschedule", "apiAborted"}

\* The steps behind a check of the status or of the audit row.
ReleaseSteps == {"timingSave", "executeWindow", "executeQueue", "executeUnschedule",
                 "executeEnqueue", "executeManual", "apiPassed"}

Request == [pc     : Pcs,
            actor  : Users,
            action : {"PASS", "REJECT", "ABORT"},
            row    : Row,
            audit  : WorkflowAudit,
            date   : Times]   \* the run_date of timing_task

New(pc) == [pc |-> pc, actor |-> CreateUser, action |-> "PASS",
            row |-> NoRow, audit |-> NoAudit, date |-> 0]

Idle == New("idle")

Free == [pc |-> "idle", row |-> NoRow]

TypeOK ==
    /\ workflow \in Row
    /\ audit \in WorkflowAudit
    /\ schedule \in Schedule
    /\ queued \in Nat
    /\ worker \in [Workers -> [pc : {"idle", "running", "exporting"}, row : Row]]
    /\ results \in Seq(Outcome)
    /\ monitor \in [pc : {"idle", "save"}, outcome : Outcome, row : Row]
    /\ req \in [Requests -> Request]
    /\ begun \in 0 .. MaxRequests
    /\ crashes \in 0 .. MaxCrashes
    /\ now \in Times
    /\ auto \in AutoReview
    /\ approved \subseteq Groups
    /\ runs \in Nat
    /\ granted \in BOOLEAN

Init ==
    /\ workflow = NoRow
    /\ audit = NoAudit
    /\ schedule = NoSchedule
    /\ queued = 0
    /\ worker = [w \in Workers |-> Free]
    /\ results = << >>
    /\ monitor = [pc |-> "idle", outcome |-> "ok", row |-> NoRow]
    /\ req = [r \in Requests |-> Idle]
    /\ begun = 0
    /\ crashes = 0
    /\ now = 0
    /\ auto = "none"
    /\ approved = {}
    /\ runs = 0
    /\ granted = FALSE

----------------------------------------------------------------------------
\* The frame of the web requests.
Begin(r, op) ==
    /\ op \in Ops
    /\ workflow.status # "none"
    /\ req[r].pc = "idle"
    /\ begun < MaxRequests
    /\ begun' = begun + 1
    /\ UNCHANGED <<cluster, crashes, now>>

Continue(r, pc) ==
    /\ req[r].pc = pc
    /\ UNCHANGED <<begun, crashes, now>>

Goto(r, state) == req' = [req EXCEPT ![r] = state]

Done(r) == Goto(r, Idle)

\* on_correct_time_period: does the row's window hold this time?
OnCorrectTimePeriod(time) == workflow.window.start <= time /\ time <= workflow.window.end

\* A task or schedule may now start the SQL once.
Grant == granted' = TRUE /\ UNCHANGED <<auto, approved, runs>>

----------------------------------------------------------------------------
(***************************************************************************)
(* WorkflowContentSerializer.create.  The transaction saves the row and    *)
(* creates the audit; after it the same in-memory row is saved once more,  *)
(* with the status of an automatic decision.                               *)
(***************************************************************************)
Submit(r) ==
    /\ workflow.status = "none"
    /\ req[r].pc = "idle"
    /\ begun < MaxRequests
    /\ begun' = begun + 1
    /\ \E outcome \in AutoOutcomes, window \in Windows :
         /\ workflow' = [status |-> "workflow_manreviewing", window |-> window]
         /\ audit' = CreateAudit(outcome)
         /\ auto' = outcome
    /\ Goto(r, [New("submit") EXCEPT !.row = workflow', !.audit = audit'])
    /\ UNCHANGED <<schedule, cluster, crashes, now, approved, runs, granted>>

\* Mutant: the branch of an automatic pass is missing.
SubmitStatusRejectOnly(r) ==
    /\ Continue(r, "submit")
    /\ workflow' = [req[r].row EXCEPT !.status =
                      IF req[r].audit.status = "REJECTED" THEN "workflow_autoreviewwrong" ELSE @]
    /\ Done(r)
    /\ UNCHANGED <<audit, schedule, cluster, history>>

SubmitStatus(r) ==
    /\ Continue(r, "submit")
    /\ workflow' = [req[r].row EXCEPT !.status =
                      CASE req[r].audit.status = "REJECTED" -> "workflow_autoreviewwrong"
                        [] req[r].audit.status = "PASSED"   -> "workflow_review_pass"
                        [] OTHER                            -> @]
    /\ Done(r)
    /\ UNCHANGED <<audit, schedule, cluster, history>>

----------------------------------------------------------------------------
(***************************************************************************)
(* passed: reads the row and the audit row, then one transaction.          *)
(***************************************************************************)
PassedBegin(r) ==
    /\ Begin(r, "passed")
    /\ \E actor \in Reviewers :
         Goto(r, [New("passedAuditor") EXCEPT !.actor = actor, !.row = workflow])
    /\ UNCHANGED <<rows, history>>

PassedAuditor(r) ==
    /\ Continue(r, "passedAuditor")
    /\ Goto(r, [req[r] EXCEPT !.pc = "passedOperate", !.audit = audit])
    /\ UNCHANGED <<rows, cluster, history>>

\* The request's copy of the audit row after its operation.
Operated(r) == Operate(req[r].audit, req[r].action)

\* operate's effects: the audit row, and on PASS the detail of the current group.
SaveAudit(r) ==
    /\ CanOperate(req[r].audit, req[r].action, req[r].actor)
    /\ audit' = Operated(r)
    /\ approved' = IF req[r].action = "PASS"
                   THEN approved \cup {req[r].audit.current}
                   ELSE approved
    /\ UNCHANGED <<auto, runs, granted>>

\* Mutant: the status of the audit is not looked at.
PassedOperateAlways(r) ==
    /\ Continue(r, "passedOperate")
    /\ SaveAudit(r)
    /\ workflow' = [req[r].row EXCEPT !.status = "workflow_review_pass"]
    /\ Done(r)
    /\ UNCHANGED <<schedule, cluster>>

PassedOperate(r) ==
    /\ Continue(r, "passedOperate")
    /\ SaveAudit(r)
    /\ workflow' = IF Operated(r).status = "PASSED"
                   THEN [req[r].row EXCEPT !.status = "workflow_review_pass"]
                   ELSE workflow
    /\ Done(r)
    /\ UNCHANGED <<schedule, cluster>>

\* AuditException out of operate: passed and cancel render an error, the API a 400.
OperateRefused(r) ==
    /\ req[r].pc \in {"passedOperate", "cancelOperate", "apiOperate"}
    /\ ~CanOperate(req[r].audit, req[r].action, req[r].actor)
    /\ Done(r)
    /\ UNCHANGED <<rows, cluster, begun, crashes, now, history>>

----------------------------------------------------------------------------
(***************************************************************************)
(* cancel.  can_cancel reads both rows again; its two or three reads are   *)
(* one step here.  The audit row is read inside the transaction, without a *)
(* lock.                                                                   *)
(***************************************************************************)
CancelBegin(r) ==
    /\ Begin(r, "cancel")
    /\ \E actor \in Users :
         Goto(r, [New("cancelCheck") EXCEPT !.actor = actor, !.row = workflow])
    /\ UNCHANGED <<rows, history>>

CanCancel(user) ==
    \/ /\ workflow.status = "workflow_manreviewing"
       /\ CanReview(audit, user) \/ user = CreateUser
    \/ /\ workflow.status \in Executable
       /\ user \in Executors \/ user = CreateUser

CancelCheck(r) ==
    /\ Continue(r, "cancelCheck")
    /\ LET user == req[r].actor IN
         IF CanCancel(user) /\ (user = CreateUser \/ user \in Reviewers)
         THEN Goto(r, [req[r] EXCEPT !.pc = "cancelAuditor",
                                     !.action = IF user = CreateUser THEN "ABORT" ELSE "REJECT"])
         ELSE Done(r)
    /\ UNCHANGED <<rows, cluster, history>>

CancelAuditor(r) ==
    /\ Continue(r, "cancelAuditor")
    /\ Goto(r, [req[r] EXCEPT !.pc = "cancelOperate", !.audit = audit])
    /\ UNCHANGED <<rows, cluster, history>>

\* Mutant: the workflow row is not saved.
CancelOperateAuditOnly(r) ==
    /\ Continue(r, "cancelOperate")
    /\ SaveAudit(r)
    /\ Done(r)
    /\ UNCHANGED <<workflow, schedule, cluster>>

\* The status that guards del_schedule is the one just assigned.
CancelOperate(r) ==
    /\ Continue(r, "cancelOperate")
    /\ SaveAudit(r)
    /\ workflow' = [req[r].row EXCEPT !.status = "workflow_abort"]
    /\ schedule' = IF workflow'.status = "workflow_timingtask" THEN NoSchedule ELSE schedule
    /\ Done(r)
    /\ UNCHANGED cluster

----------------------------------------------------------------------------
(***************************************************************************)
(* timing_task.  A run_date in the past is refused (a unit of the clock is *)
(* long: now is not past).  The row is read, checked by a second read, the *)
(* first copy is saved.  The row lock of that save makes the replacement   *)
(* of the schedule in the same transaction atomic.                         *)
(***************************************************************************)
TimingBegin(r) ==
    /\ Begin(r, "timing_task")
    /\ Executors # {}
    /\ \E date \in now .. MaxNow :
         Goto(r, [New("timingCheck") EXCEPT !.row = workflow, !.date = date])
    /\ UNCHANGED <<rows, history>>

TimingCheck(r) ==
    /\ Continue(r, "timingCheck")
    /\ IF workflow.status \in Executable /\ OnCorrectTimePeriod(req[r].date)
       THEN Goto(r, [req[r] EXCEPT !.pc = "timingSave"])
       ELSE Done(r)
    /\ UNCHANGED <<rows, cluster, history>>

\* Mutant: the schedule is not added.
TimingSaveNoSchedule(r) ==
    /\ Continue(r, "timingSave")
    /\ workflow' = [req[r].row EXCEPT !.status = "workflow_timingtask"]
    /\ Grant
    /\ Done(r)
    /\ UNCHANGED <<audit, schedule, cluster>>

TimingSave(r) ==
    /\ Continue(r, "timingSave")
    /\ workflow' = [req[r].row EXCEPT !.status = "workflow_timingtask"]
    /\ schedule' = [state |-> "waiting", date |-> req[r].date]
    /\ Grant
    /\ Done(r)
    /\ UNCHANGED <<audit, cluster>>

----------------------------------------------------------------------------
(***************************************************************************)
(* execute, also ExecuteWorkflow.post of the API.  can_execute locks the   *)
(* row, but its transaction is over before the status is written.          *)
(***************************************************************************)
\* Mutant: a queuing workflow may be executed, too.
ExecuteBeginQueuing(r) ==
    /\ Begin(r, "execute")
    /\ Executors # {}
    /\ workflow.status \in Executable \cup {"workflow_queuing"}
    /\ Goto(r, New("executeWindow"))
    /\ UNCHANGED <<rows, history>>

ExecuteBegin(r) ==
    /\ Begin(r, "execute")
    /\ Executors # {}
    /\ workflow.status \in Executable
    /\ Goto(r, New("executeWindow"))
    /\ UNCHANGED <<rows, history>>

\* on_correct_time_period, and then the mode the user asked for.  Nothing looks
\* at the window again: the task may wait in the queue until it is over.
ExecuteWindow(r) ==
    /\ Continue(r, "executeWindow")
    /\ IF OnCorrectTimePeriod(now)
       THEN \E pc \in {"executeQueue", "executeManual"} : Goto(r, New(pc))
       ELSE Done(r)
    /\ UNCHANGED <<rows, cluster, history>>

ExecuteQueue(r) ==
    /\ Continue(r, "executeQueue")
    /\ workflow' = [workflow EXCEPT !.status = "workflow_queuing"]
    /\ Grant
    /\ Goto(r, New("executeUnschedule"))
    /\ UNCHANGED <<audit, schedule, cluster>>

\* Mutant: the task is not put into the queue.
ExecuteUnscheduleOnly(r) ==
    /\ Continue(r, "executeUnschedule")
    /\ schedule' = NoSchedule
    /\ Done(r)
    /\ UNCHANGED <<workflow, audit, cluster, history>>

ExecuteUnschedule(r) ==
    /\ Continue(r, "executeUnschedule")
    /\ schedule' = NoSchedule
    /\ Goto(r, New("executeEnqueue"))
    /\ UNCHANGED <<workflow, audit, cluster, history>>

ExecuteEnqueue(r) ==
    /\ Continue(r, "executeEnqueue")
    /\ queued' = queued + 1
    /\ Done(r)
    /\ UNCHANGED <<rows, worker, results, monitor, history>>

ExecuteManual(r) ==
    /\ Continue(r, "executeManual")
    /\ workflow' = [workflow EXCEPT !.status = "workflow_finish"]
    /\ Done(r)
    /\ UNCHANGED <<audit, schedule, cluster, history>>

----------------------------------------------------------------------------
\* Mutant: can_review is not asked.
AlterBeginAnyStatus(r) ==
    /\ Begin(r, "alter_run_date")
    /\ Goto(r, New("alterSave"))
    /\ UNCHANGED <<rows, history>>

\* alter_run_date: only while can_review, and it writes the two dates only.
AlterBegin(r) ==
    /\ Begin(r, "alter_run_date")
    /\ \E user \in Users : CanReview(audit, user)
    /\ Goto(r, New("alterSave"))
    /\ UNCHANGED <<rows, history>>

AlterSave(r) ==
    /\ Continue(r, "alterSave")
    /\ \E window \in Windows : workflow' = [workflow EXCEPT !.window = window]
    /\ Done(r)
    /\ UNCHANGED <<audit, schedule, cluster, history>>

----------------------------------------------------------------------------
(***************************************************************************)
(* AuditWorkflow.post: reads the audit row, then the workflow row; operate *)
(* and the statements after it commit one by one.                          *)
(***************************************************************************)
ApiBegin(r) ==
    /\ \E actor \in Users, action \in {"PASS", "ABORT"} :
         /\ Begin(r, IF action = "PASS" THEN "api_pass" ELSE "api_cancel")
         /\ action = "ABORT" => actor = CreateUser
         /\ Goto(r, [New("apiWorkflow") EXCEPT !.actor = actor, !.action = action, !.audit = audit])
    /\ UNCHANGED <<rows, history>>

ApiWorkflow(r) ==
    /\ Continue(r, "apiWorkflow")
    /\ Goto(r, [req[r] EXCEPT !.pc = "apiOperate", !.row = workflow])
    /\ UNCHANGED <<rows, cluster, history>>

ApiOperate(r) ==
    /\ Continue(r, "apiOperate")
    /\ SaveAudit(r)
    /\ CASE Operated(r).status = "PASSED"  -> Goto(r, New("apiPassed"))
         [] Operated(r).status = "ABORTED" ->
              Goto(r, New(IF req[r].row.status = "workflow_timingtask"
                          THEN "apiUnschedule"
                          ELSE "apiAborted"))
         [] OTHER -> Done(r)
    /\ UNCHANGED <<workflow, schedule, cluster>>

ApiPassed(r) ==
    /\ Continue(r, "apiPassed")
    /\ workflow' = [workflow EXCEPT !.status = "workflow_review_pass"]
    /\ Done(r)
    /\ UNCHANGED <<audit, schedule, cluster, history>>

ApiUnschedule(r) ==
    /\ Continue(r, "apiUnschedule")
    /\ schedule' = NoSchedule
    /\ Goto(r, New("apiAborted"))
    /\ UNCHANGED <<workflow, audit, cluster, history>>

ApiAborted(r) ==
    /\ Continue(r, "apiAborted")
    /\ workflow' = [workflow EXCEPT !.status = "workflow_abort"]
    /\ Done(r)
    /\ UNCHANGED <<audit, schedule, cluster, history>>

----------------------------------------------------------------------------
(***************************************************************************)
(* django-q, used through tasks.py and async_task.  The scheduler enqueues *)
(* the task of a due ONCE schedule with repeats = 1 and leaves the row     *)
(* with repeats = 0, in one transaction.  Redis is read with a pop: a task *)
(* that a process loses is not delivered again.                            *)
(***************************************************************************)
ScheduleDue ==
    /\ schedule.state = "waiting"
    /\ now >= schedule.date
    /\ schedule' = [state |-> "fired", date |-> 0]
    /\ queued' = queued + 1
    /\ UNCHANGED <<workflow, audit, worker, results, monitor, req, begun, crashes, now, history>>

\* Mutant: the status is not looked at under the lock.
ExecuteUnchecked(w) ==
    /\ worker[w].pc = "idle"
    /\ queued > 0
    /\ queued' = queued - 1
    /\ workflow' = [workflow EXCEPT !.status = "workflow_executing"]
    /\ worker' = [worker EXCEPT ![w].pc = "running"]
    /\ runs' = runs + 1
    /\ granted' = FALSE
    /\ UNCHANGED <<audit, schedule, results, monitor, req, begun, crashes, now, auto, approved>>

\* execute_sql.execute up to the engine: the status is read and written under
\* the row lock.
Execute(w) ==
    /\ worker[w].pc = "idle"
    /\ queued > 0
    /\ workflow.status \in Startable
    /\ queued' = queued - 1
    /\ workflow' = [workflow EXCEPT !.status = "workflow_executing"]
    /\ worker' = [worker EXCEPT ![w].pc = "running"]
    /\ runs' = runs + 1
    /\ granted' = FALSE
    /\ UNCHANGED <<audit, schedule, results, monitor, req, begun, crashes, now, auto, approved>>

\* The status is another one: execute raises, which is a failed task with a hook.
ExecuteRefused(w) ==
    /\ worker[w].pc = "idle"
    /\ queued > 0
    /\ workflow.status \notin Startable
    /\ queued' = queued - 1
    /\ results' = Append(results, "raised")
    /\ UNCHANGED <<rows, worker, monitor, req, begun, crashes, now, history>>

\* Mutant: a task that raised has no hook.
ExecuteEndsSilently(w) ==
    /\ worker[w].pc = "running"
    /\ \E outcome \in IF Export THEN {"error", "raised"} ELSE Outcome :
         results' = IF outcome = "raised" THEN results ELSE Append(results, outcome)
    /\ worker' = [worker EXCEPT ![w] = Free]
    /\ UNCHANGED <<rows, queued, monitor, req, begun, crashes, now, history>>

\* execute_workflow, or an export whose query failed.
ExecuteEnds(w) ==
    /\ worker[w].pc = "running"
    /\ \E outcome \in IF Export THEN {"error", "raised"} ELSE Outcome :
         results' = Append(results, outcome)
    /\ worker' = [worker EXCEPT ![w] = Free]
    /\ UNCHANGED <<rows, queued, monitor, req, begun, crashes, now, history>>

\* execute_offline_download reads the row again to note the file name, and saves it whole.
ExportRead(w) ==
    /\ Export
    /\ worker[w].pc = "running"
    /\ worker' = [worker EXCEPT ![w] = [pc |-> "exporting", row |-> workflow]]
    /\ UNCHANGED <<rows, queued, results, monitor, req, begun, crashes, now, history>>

ExportSave(w) ==
    /\ worker[w].pc = "exporting"
    /\ workflow' = worker[w].row
    /\ results' = Append(results, "ok")
    /\ worker' = [worker EXCEPT ![w] = Free]
    /\ UNCHANGED <<audit, schedule, queued, monitor, req, begun, crashes, now, history>>

----------------------------------------------------------------------------
(***************************************************************************)
(* execute_callback, called by the one monitor process for task after task.*)
(***************************************************************************)
CallbackBegin ==
    /\ monitor.pc = "idle"
    /\ results # << >>
    /\ results' = Tail(results)
    /\ monitor' = IF workflow.status = "workflow_executing"
                  THEN [pc |-> "save", outcome |-> Head(results), row |-> workflow]
                  ELSE monitor
    /\ UNCHANGED <<rows, queued, worker, req, begun, crashes, now, history>>

FreeMonitor == monitor' = [pc |-> "idle", outcome |-> "ok", row |-> NoRow]

CallbackSave ==
    /\ monitor.pc = "save"
    /\ workflow' = [monitor.row EXCEPT !.status = IF monitor.outcome = "ok"
                                                  THEN "workflow_finish"
                                                  ELSE "workflow_exception"]
    /\ FreeMonitor
    /\ UNCHANGED <<audit, schedule, queued, worker, results, req, begun, crashes, now, history>>

\* Saving the result raised: only finish_time and status are updated.
CallbackSaveFails ==
    /\ monitor.pc = "save"
    /\ workflow' = [workflow EXCEPT !.status = "workflow_exception"]
    /\ FreeMonitor
    /\ UNCHANGED <<audit, schedule, queued, worker, results, req, begun, crashes, now, history>>

----------------------------------------------------------------------------
(***************************************************************************)
(* Processes that die (deploys, the OOM killer): what was committed stays, *)
(* what was only in memory or popped from redis is gone.                   *)
(***************************************************************************)
Crash == crashes < MaxCrashes /\ crashes' = crashes + 1 /\ UNCHANGED now

RequestDies(r) ==
    /\ Crash
    /\ req[r].pc # "idle"
    /\ Done(r)
    /\ UNCHANGED <<rows, cluster, begun, history>>

WorkerDies(w) ==
    /\ Crash
    /\ worker[w].pc # "idle"
    /\ worker' = [worker EXCEPT ![w] = Free]
    /\ UNCHANGED <<rows, queued, results, monitor, req, begun, history>>

TaskLost ==
    /\ Crash
    /\ queued > 0
    /\ queued' = queued - 1
    /\ UNCHANGED <<rows, worker, results, monitor, req, begun, history>>

MonitorDies ==
    /\ Crash
    /\ monitor.pc = "save"
    /\ FreeMonitor
    /\ UNCHANGED <<rows, queued, worker, results, req, begun, history>>

----------------------------------------------------------------------------
Tick ==
    /\ now < MaxNow
    /\ now' = now + 1
    /\ UNCHANGED <<rows, cluster, req, begun, crashes, history>>

----------------------------------------------------------------------------
Review(r) ==
    \/ Submit(r) \/ SubmitStatus(r)
    \/ PassedBegin(r) \/ PassedAuditor(r) \/ PassedOperate(r)
    \/ CancelBegin(r) \/ CancelCheck(r) \/ CancelAuditor(r) \/ CancelOperate(r)
    \/ OperateRefused(r)
    \/ AlterBegin(r) \/ AlterSave(r)
    \/ ApiBegin(r) \/ ApiWorkflow(r) \/ ApiOperate(r)
    \/ ApiPassed(r) \/ ApiUnschedule(r) \/ ApiAborted(r)

Release(r) ==
    \/ TimingBegin(r) \/ TimingCheck(r) \/ TimingSave(r)
    \/ ExecuteBegin(r) \/ ExecuteWindow(r) \/ ExecuteQueue(r)
    \/ ExecuteUnschedule(r) \/ ExecuteEnqueue(r) \/ ExecuteManual(r)

Work(w) == Execute(w) \/ ExecuteRefused(w) \/ ExecuteEnds(w) \/ ExportRead(w) \/ ExportSave(w)

Callback == CallbackBegin \/ CallbackSave \/ CallbackSaveFails

Next ==
    \/ \E r \in Requests : Review(r) \/ Release(r) \/ RequestDies(r)
    \/ \E w \in Workers : Work(w) \/ WorkerDies(w)
    \/ ScheduleDue \/ Callback \/ TaskLost \/ MonitorDies
    \/ Tick

Spec == Init /\ [][Next]_vars

\* A handler that has begun runs on, the scheduler looks for due schedules every
\* half minute, workers take tasks and the monitor takes results; time goes by.
Proceed(r) == req[r].pc # "idle" /\ (Review(r) \/ Release(r))

FairSpec ==
    /\ Spec
    /\ \A r \in Requests : WF_vars(Proceed(r))
    /\ \A w \in Workers : WF_vars(Work(w))
    /\ WF_vars(ScheduleDue)
    /\ WF_vars(Callback)
    /\ WF_vars(Tick)

----------------------------------------------------------------------------
(***************************************************************************)
(* Properties.                                                             *)
(***************************************************************************)
Quiet == \A r \in Requests : req[r].pc = "idle"

ChainApproved == Approved(auto, approved)

\* SQL is started, and the row says it may be, only after every group of the
\* chain approved or the system decided no approval was needed: under any
\* interleaving of stale saves, races and crashes.
OnlyApprovedRuns == runs > 0 \/ workflow.status \in Released => ChainApproved

\* What makes OnlyApprovedRuns inductive: every copy of a row, every step after
\* the check of can_execute and every task that runs is backed by the approval,
\* and before the submission there is nothing.
RequestBacked(x, decision, done) ==
    /\ ChainFollowed(x.audit, decision, done)
    /\ x.row.status \in Released \/ x.pc \in ReleaseSteps => Approved(decision, done)
    /\ x.pc = "submit" => x.row.status = "workflow_manreviewing"

ProcessBacked(p, decision, done) ==
    /\ p.row.status \in Released \/ p.pc # "idle" => Approved(decision, done)
    /\ p.pc = "exporting" => p.row.status # "none"

NothingYet ==
    /\ runs = 0
    /\ \A r \in Requests : req[r] = Idle
    /\ \A w \in Workers : worker[w] = Free
    /\ monitor.pc = "idle" /\ monitor.row = NoRow

Backed ==
    /\ ChainFollowed(audit, auto, approved)
    /\ OnlyApprovedRuns
    /\ \A r \in Requests : RequestBacked(req[r], auto, approved)
    /\ \A w \in Workers : ProcessBacked(worker[w], auto, approved)
    /\ ProcessBacked(monitor, auto, approved)
    /\ workflow.status = "none" => NothingYet

\* Each start of the SQL uses up a release by a user (execute or timing_task)
\* made since the last start: two tasks of one release never both run it.
OneRunPerRelease == [][runs' > runs => granted]_vars

\* The SQL of a workflow that was withdrawn or rejected does not start (tasks
\* and schedules may be left over from before; users act one at a time).
StartsOnlyWhilePassed == [][runs' > runs => audit.status = "PASSED"]_vars

\* However long the task waited and whenever its schedule came due, the SQL
\* does not start before the run_date_start that the row has then: the window
\* that execute or timing_task compared with is still the row's, as a
\* reviewer's new window takes effect before the approval or not at all (users
\* act one at a time).  Of the end of the window the code promises no such
\* thing: see StartsInWindow.
NeverStartsEarly == [][runs' > runs => workflow.window.start <= now]_vars

\* run_date_end is the end of the time in which the workflow may be executed.
StartsInWindow == [][runs' > runs => OnCorrectTimePeriod(now)]_vars

\* Between requests, the row is in review exactly as long as its audit row waits.
ReviewAgrees ==
    Quiet /\ workflow.status # "none" =>
        (workflow.status = "workflow_manreviewing" <=> audit.status = "WAITING")

\* Without timing, the row and its audit row agree between requests, and what
\* has ended stays as it ended.
EndAgrees ==
    Quiet /\ workflow.status # "none" =>
        (workflow.status \in {"workflow_abort", "workflow_autoreviewwrong"}
            <=> audit.status \in {"REJECTED", "ABORTED"})

EndedStays == [][workflow.status \in Ended => workflow'.status = workflow.status]_vars

\* A result is recorded only when nothing runs any more, so what is shown as
\* the result is the result of the run.
NothingRunsAfterEnd ==
    workflow.status \in {"workflow_finish", "workflow_exception"} =>
        \A w \in Workers : worker[w].pc = "idle"

\* A released workflow gets its result, or is withdrawn, when no process dies.
ReleasedEnds ==
    workflow.status \in {"workflow_queuing", "workflow_executing"} ~> workflow.status \in Ended

\* A timed workflow does not stay timed: its schedule comes due and runs it.
TimedRuns == workflow.status = "workflow_timingtask" ~> workflow.status # "workflow_timingtask"

\* execute's comment: the current read prevents repeated execution.
NeverRunsTwice == runs <= 1

\* cancel's comment: the timing task is deleted.
CancelDeletesSchedule == Quiet /\ workflow.status = "workflow_abort" => schedule.state # "waiting"

\* can_cancel's docstring: reviewer and submitter can stop a workflow that is
\* in review or approved.  Whom it lets through is not refused by operate.
CancelNotRefused ==
    \A r \in Requests : req[r].pc = "cancelOperate" =>
        CanOperate(req[r].audit, req[r].action, req[r].actor)

----------------------------------------------------------------------------
(***************************************************************************)
(* Refinement: the life of a release (ReleaseLifecycle), read off the row  *)
(* and the count of starts.  It holds when requests do not overlap, without*)
(* timing and without the API's cancel.                                    *)
(***************************************************************************)
Phase ==
    CASE workflow.status = "none"                   -> "absent"
      [] workflow.status = "workflow_manreviewing"  -> "review"
      [] workflow.status = "workflow_review_pass"   -> "approved"
      [] workflow.status = "workflow_queuing"       -> "queuing"
      [] workflow.status = "workflow_executing"     -> "executing"
      [] workflow.status = "workflow_finish"        -> "succeeded"
      [] workflow.status = "workflow_exception"     -> "failed"
      [] workflow.status \in {"workflow_abort", "workflow_autoreviewwrong"} -> "withdrawn"
      [] OTHER                                      -> "timed"

Lifecycle == INSTANCE ReleaseLifecycle WITH phase <- Phase, starts <- runs

\* Every statement of the handlers, the task and the hook is a step of that
\* life or none: the SQL starts once, only from the queue, the row is withdrawn
\* only before its release, and a released workflow ends.
KeepsLifecycle == Lifecycle!Spec

=============================================================================
