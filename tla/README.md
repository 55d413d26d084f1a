# A TLA+ verification of Archery

Archery is a platform through which SQL is submitted, approved by a chain of
groups, and then executed on production databases; through which users apply
for the privilege to query, and query; and through which data are archived.
This directory holds TLA+ modules of the parts of it in which state is shared
between requests, the REST API, the task queue and the workers, and where a
promise to the users is kept or broken by the order of their steps. TLC checks
the modules on small instances; TLAPS proves the most important results for
every instance. `PROJECT.json` maps every definition to the lines it models and
lists runs, mutants, findings, hazards and theorems.

The program is the Python code under `src/sql`, `src/sql_api` and `src/common`;
the JavaScript in the repository is, apart from a small front end, vendored
libraries, and nothing here is about it.

## Inventory

| Component | State | Operations | Hard behaviour | What makes it correct | Module |
|---|---|---|---|---|---|
| Approval engine (`sql/utils/workflow_audit.py`) | one `workflow_audit` row: status, current and next group | `create_audit`, `can_operate`, `operate` (pass, reject, abort), `get_review_info`, `can_review` | the row is read when the object is built and saved whole later, without a lock | no group skipped; what is shown as passed did approve; ended stays ended | `AuditV2`, `AuditFlow` |
| SQL workflow, web (`sql/sql_workflow.py`, `sql/utils/sql_review.py`) | the `sql_workflow` row, the timing `Schedule` row | `passed`, `cancel`, `timing_task`, `execute`, `alter_run_date` | checks and writes in separate transactions; saves of stale copies | nothing runs unapproved; one run per release; rows agree | `SqlWorkflow` |
| SQL workflow, API (`sql_api/api_workflow.py`, `serializers.py`) | the same rows | submit, `AuditWorkflow`, `ExecuteWorkflow` | no transaction around operate and status | the same | `SqlWorkflow` |
| Execution (`sql/utils/execute_sql.py`, `tasks.py`) | queue, workers, results (django-q) | `execute`, `execute_callback`, schedules | time that goes by while a task waits; duplicates, crashes, tasks that fire late, callbacks of other runs | the row lock decides; results are recorded | `SqlWorkflow` |
| Offline export (`sql/offlinedownload.py`) | the same row, a file | `execute_offline_download` | saves a stale row from the worker | the same | `SqlWorkflow` |
| Query privileges, application (`sql/query_privileges.py`) | application row, audit row, privileges | apply, review by page and API, call-back | page: one transaction; API: single statements; the call-back may run twice or not at all | nothing granted unapproved; granted once; granted at last | `QueryPrivApply` |
| Query privileges, check (`query_priv_check`, `_db_priv`, `_tb_priv`, `_priv_limit`) | the rows of `query_privileges` | check, insert, modify, delete; days go by | two loops, two queries per look-up; a limit of 0, or below | the answer is the limit asked for or one in force, and no larger than one in force for each table | `QueryPrivCheck` |
| Archive (`sql/archiver.py`) | configuration row (status, state), audit row, tasks | apply, review, switch, once, periodic | stale saves of the whole row; two columns that must both hold; rows picked first, queued later | only approved archives run periodically, and they do; nothing more is picked once switched off | `Archive` |
| Query page (`sql/query.py`, `sql/utils/tasks.py`) | connections, kill schedules, tasks | connect, schedule the kill, query, delete the schedule | the timeout meets the end of the query; the handler dies; ids are reused | nobody else is killed; what is overdue ends | `QueryKill` |
| Login (`common/auth.py`, `Users.save`) | failed-login count and time | authenticate, challenge, lock | lost updates; a lock that runs out; the cap of the counter | a lock is justified, and applied | `LoginLock` |
| Settings (`common/config.py`) | the config table, what each object remembers | get, replace | reads of one request around a replace that may fail | what is answered was in force | `Settings` |
| Instance accounts (`sql/instance_account.py`, `sql/engines/mysql.py`) | accounts of the instance, rows about them | list, create, edit, reset, delete | two systems, no transaction over both; forms posted from old pages; escaping | a saved password is a form of a real one, and is not lost | `InstanceAccount` |
| Two-factor authentication, sessions, notifications, resource groups and users, other engines, analysis tools, masking, pages, front ends | | | I/O, parsing, forms | | not modelled, see below |

How they interact. A view or API handler reads the row of its workflow (a
release, an application for privileges, an archive), builds an `AuditV2` object
(which reads the audit row), operates on it and saves the row. `execute` and
`timing_task` set the workflow's status and leave a task in the redis queue or a
row in the `Schedule` table; a django-q worker runs `execute_sql.execute`;
whatever comes of it, the monitor process calls `execute_sql.execute_callback`,
which records the result. The kill of a slow query and the periodic archives go
through the same scheduler and workers. Approved applications insert the rows
that `query_priv_check` reads.

## Modules

    AuditV2              operators on one audit row (no state of its own)
      AuditV2Proofs      lemmas on the operators, used by the proof modules
      AuditFlow          one audit row, concurrent requests; refines ApprovalChain
      SqlWorkflow        workflow row + audit row + schedule + queue + workers +
                         monitor + requests; refines ReleaseLifecycle
      QueryPrivApply     application row + audit row + privileges + requests
      Archive            configuration row + audit row + switch + tasks + requests
    QueryPrivCheck       one check against a changing table of privileges
    QueryKill            handlers + connections + kill schedules + tasks
    LoginLock            logins on one user's row
    Settings             objects that read settings, and replace
    InstanceAccount      accounts of an instance, and the table about them
    ApprovalChain        what an approval promises (abstract)
    ReleaseLifecycle     what the life of a release is meant to be (abstract)

`<module>History` adds history variables to a module (below), `MC<module>`
instantiates it, or its history, for TLC (`Settings` needs no such module), and
`<module>Proofs` holds its theorems. Two proof modules are about two components
each: `LoginSettingsProofs` about `LoginLock` and `Settings`, `InstanceProofs`
about `QueryKill` and `InstanceAccount`. So that they can be extended together,
the second of each pair has names of its own for its specification, type
invariant and variables (`SettingsSpec`, `AccountSpec`, ...). Definitions
commented `Mutant:` are the plausible slips against which each property was
tried (`PROJECT.json`, "mutants"); the specifications do not use them.

**AuditV2.** `CreateAudit`, `CanOperate`, `OperatePass`, `OperateReject`,
`OperateAbort`, `Following`, `Before` translate the methods of the same names;
`Position` is `list.index`, which finds the first occurrence, so chains that
name a group twice are modelled as they behave. `MayReview` is the permission
part of `can_operate` as it is written: the current group must have users, not
the actor be one of them. Users, groups and permissions are constants.

**AuditFlow.** `GetAuditor` reads the row into a request, `PassOne`,
`RejectOne`, `AbortOne`, `OperateNothing` check and save that copy, `Refused` is
the `AuditException`. `approved` is a history variable for the
`WorkflowAuditDetail` rows. `KeepsPromise` maps the row to `ApprovalChain`: the
groups that remain, and the verdict. Every step of overlapping requests is a
step of that chain, or a stutter, or an operation on a copy that is no longer
the row (`StaleStep`): nothing else breaks it.

**SqlWorkflow.** An action per transaction, or per statement that commits by
itself; a request's `pc` is named for the handler and the next thing it does.
`row` and `audit` in a request are the copies it holds. A `save()` without
`update_fields` writes the copy (`PassedOperate`, `CancelOperate`, `TimingSave`,
`SubmitStatus`, `CallbackSave`, `ExportSave`), one with `update_fields` changes
the present row (`ExecuteQueue`, `ExecuteManual`, `AlterSave`, `ApiPassed`,
`ApiAborted`). `ExecuteBegin` stands for the check of `can_execute`, whose lock
is gone before `ExecuteQueue` writes; `ExecuteWindow` is the later look at the
run window. The window is the row's `run_date_start` and `run_date_end`, `now`
the clock, which `Tick` moves on; `OnCorrectTimePeriod` compares the window with
`now` in `ExecuteWindow` and with the date asked for in `TimingCheck`, and
nothing compares again when the task comes to run. django-q is modelled from its
use: the scheduler enqueues a due schedule, one whose date the clock has
reached, and keeps the row (`ScheduleDue`), tasks do not differ, a popped task
is not delivered again (`TaskLost`, `WorkerDies`), and a task that raised has
its hook called too (`ExecuteRefused`). The history variables `approved`,
`runs`, `granted` and `auto` say which groups approved, how often the SQL
started, whether a release is unused and what the automatic review decided.
`KeepsLifecycle` maps status and `runs` to `ReleaseLifecycle`, liveness
included.

Left out: texts, logs, notifications; permissions other than the review's are
the set `Executors`; of the columns that a stale save can put back only status
and run window are kept; a request refused at its first read changes nothing and
is not a step; the reads inside `can_cancel`, and inside the check of
`timing_task`, are one step. A task is started at most `MaxRequests` times by
requests and once per schedule, which bounds the queue.

**QueryPrivApply.** `Apply` is the transaction of `query_priv_apply`, after which
`CallBack` and `Grant` are the two statements of
`_query_apply_audit_call_back` outside a transaction. `AuditOperate` is the
page's transaction, operation and call-back together, on the copy that
`AuditBegin` read before it; `ApiOperate` commits alone and leaves `CallBack`
and `Grant` to come. `grants` counts the batches of privileges inserted.
`ApiCancel` is the API's cancel, which ends in an `AttributeError`.

**QueryPrivCheck.** The check walks the tables of the query twice (`phase`), looks
each up by database and then by table (`type`), and asks every look-up in two
queries, `Exists` and `First`, which compare with the date of the first.
`Answered` is what follows an answer: the next look-up, the next table
(`Settled`), a refusal, or the combination of limits (`LimitFound`, `Limited`).
`Insert`, `Delete`, `Modify` and `NextDay` may come between any two queries.
Limits are any integers, those of privileges and those asked for: no form refuses
a negative one. `seen` is the history of limits in force for each table since the
check began;
`Permits` is what a privilege is for, stated apart from the filters of the code.

**Archive.** `AuditOperate` saves the whole row from the copy, `state` as it was
read included; `ApiOperate` and `ApiSave` are the API's two statements; `Switch`
writes one column whatever the status. `PickArchive` is the query of the
periodic task with its filter on both columns, `AddArchiveTask` the turn of its
loop that queues the row, which looks at neither again: `picked` counts the rows
between the two, and the worker may die there (`PickDies`). `ArchiveOnce` the
run that looks at neither, `ArchiveRun` the worker. `off` is a history variable:
switched off, and neither switched on nor passed since.

**QueryKill.** `Connect`, `AddKillConnSchedule`, `QueryReturns` and `DelSchedule` are
the handler; `SomeDue` moves what is due from the schedule to the queue,
`SomeKill` is a worker in `kill_query_conn`, which knows a connection by its
thread id only. A handler may die at any point, the instance may close an
orphaned connection or restart, after which thread ids begin anew.

**LoginLock.** `Begin` reads the user, `Look` decides on the lock and takes one off
that is over, `Challenge` is the password, `Succeed` and `Fail` save the whole
row: a success the backend's fresh copy, a failure the copy of the beginning.
`Saved` is the cap in `Users.save`.

**Settings.** `Get` answers from the object's dictionary if what it remembers is
true, else from the table; `Purge`, `BulkCreate`, `Commit` and `Rollback` are
`replace` and its transaction. `purge` swallows the error of its delete, so the
insert may meet the old rows.

**InstanceAccount.** `UserRows` and `UserList` are the page with the accounts, which
reads the table first and the instance then; `page` keeps what it showed, and
`Begin` posts a form about one of its accounts any time later. Each operation
changes the instance in one step (`Create` host by host, since MySQL commits every
`CREATE USER`) and the table in another; either may fail, and the request may die
between them. `create` saves the names and the password that it has escaped for its
statement: `RowOf` and `Escape` are the conversion, and `Found` says that reset and
delete, which escape the name again outside quotes, find no account whose name it
changes. `known` is the history of passwords an account had, or that a user
recorded with `edit`.

Histories. Several properties hold only while requests do not overlap, or while
nobody works from a stale copy. Instead of instances with one request,
`QueryPrivApplyHistory`, `ArchiveHistory`, `LoginLockHistory` and
`InstanceAccountHistory` add variables that note the first such step, and state
the property up to it: a copy used that is the row no longer (`Stale`,
`StaleSave`), a review cut in two (`CutSave`, `cut`), two requests in progress
(`overlapped`, `disturbed`), a delete by an outdated page (`disturbed`). Their
next-state relation, `WatchedNext`, is the component's with those variables
added, so that runs and theorems are about every behaviour of the component.

## Runs

| Run | Instance | What it shows |
|---|---|---|
| `audit_concurrent` | 2 requests, chain of 3 groups, the last without users | `NoGroupSkipped`, `ReviewInfoHonest` always; `KeepsPromise` (refinement of `ApprovalChain`) and `EveryPassCounts` apart from stale copies |
| `sql_races` | 2 requests, 2 workers, 5 requests in all, 1 crash, chain of 2, export, every operation and automatic outcome | `OnlyApprovedRuns` under every interleaving |
| `sql_serial` | requests one at a time (5), 2 workers, timing, clock to 1 with a window now and one later, no crash, `FairSpec` | `OneRunPerRelease`, `ReviewAgrees`, `StartsOnlyWhilePassed`, `NeverStartsEarly`, `ReleasedEnds`, `TimedRuns` |
| `sql_untimed` | requests one at a time (8), no timing, no API cancel, chain of 2 | `EndAgrees`, `NothingRunsAfterEnd`, `KeepsLifecycle` (refinement of `ReleaseLifecycle`) |
| `qpriv` | 2 requests, 6 in all, 1 crash, chain of 2, every action a page can post | `GrantedOnlyApproved` always; `FreshGrantedOnce`, `FreshStatusAgrees`, `PassedGetsPrivileges` |
| `qcheck` | 2 tables of 2 databases, up to 3 privileges, limits -1, 0 and 3, limits asked for -2, 0 and 2, 3 changes, 2 days | `LimitCovered` whatever changes; `SteadyAnswer` against the reference when nothing does |
| `archive` | 2 requests, 3 in all, 1 crash, chain of 2, switch, single and periodic runs, 2 rows picked | `PeriodicOnlyApproved` always; `UncutStatusAgrees`, `SwitchOffHolds`, `PassedIsArchived` |
| `kill` | 2 handlers, 3 connections, 1 crash, 1 restart of the instance, clock to 3 | `KillsOnlyOverdue`, `ScheduledEnds` |
| `login` | 2 logins at a time, 9 in all, threshold 2, clock to 7 | `LockJustified` always; `RefusedExactly` until two overlap |
| `settings_replace` | 2 settings, 2 objects one after the other, 2 replaces | `AnswersInForce`, `TrueStays` |
| `account` | 2 accounts and 2 passwords, one of each changed by escaping, 2 requests with their pages, 4 in all, 1 crash | `SavedWasReal`, `RecordsStay` always; `AloneSavedAgrees` until something disturbs it |
| `sql_double_click` | 2 requests, 2 workers | violates what a comment of the code says; see Findings |

Why the bounds are enough. Two requests suffice for every check-then-write and
every stale-save race of two handlers, and three to six in all let such a race
follow, or straddle, an approval by two groups. Two workers are needed for two
tasks of one workflow. The chain of three has a first, a middle and a last
group, which is every case of `operate_pass`. Two tables make both loops of the
check go on and end; three privileges give one table two rows, of which the
first counts, and the other table one. Three connections let two handlers use a
thread id, and the id of one be given again after the restart. A clock of 7 with
a lock of 2 lets three locks come and go. In the releases a clock of 1, with a
window that is open at 0 only and one at 1 only, gives a task the time to wait
from inside the window to after it, or to come due in either. Two rows picked
let the periodic task pass by a switch with a row in hand, and pick again.
Settings objects do not meet except in the table, so one at a time is enough.
The results proved below hold without these bounds. `CHECK_DEADLOCK FALSE` in
all runs but the first: a workflow ends, and the number of requests is bounded.
Symmetry is used only in runs without liveness.

Which properties need requests one at a time. `sql_serial` and `sql_untimed`
state what holds when users do not overlap. With overlapping requests the stale
saves break them, and no text of the repository promises otherwise; what
survives every interleaving is `OnlyApprovedRuns` and, proved for workflows that
are no exports, `OneRunPerRelease`. API cancel is not in these two runs because
it rewrites ended workflows.

Fairness. A handler that has begun goes on; a worker takes tasks and ends them
(the engines' timeouts are outside the model); the scheduler looks for due
schedules every half minute; the monitor takes results; the administrator's
periodic schedule calls `add_archive_task` again and again, and its loop goes on;
the clock ticks. No
fairness is assumed of users, of crashes, or of a query's return. `ReleasedEnds`
and `TimedRuns` are checked without crashes: after one, nothing in the code
restores a workflow that is `workflow_queuing` or `workflow_executing`.
`PassedGetsPrivileges` and `PassedIsArchived` allow crashes and except only the
API's request that dies between its statements; `ScheduledEnds` allows them all.

## Findings

`sql_double_click` (`NeverRunsTwice`): two `execute` requests that pass
`can_execute` together run the SQL twice, the second one setting
`workflow_queuing` over `workflow_executing` (`sql_workflow.py:305-323`, against
the comment at `execute_sql.py:21` that the current read prevents repeated
execution).

Further disagreements of the code with its own texts are kept as witness
configurations, which TLC refutes (for example
`tlc -config audit_pass_twice.cfg MCAuditFlow.tla`):

* `audit_pass_twice.cfg` (`MCAuditFlow`, `PassedNotPassedAgain`): two reviewers
  who loaded the row together both pass it; the later save puts a passed row back
  to waiting (`workflow_audit.py:389` says it cannot be passed again).
* `audit_other_group.cfg` (`MCAuditFlow`, `CurrentGroupApproves`): a reviewer may
  approve in the turn of a group he is not in (`workflow_audit.py:426-434`).
* `sql_cancel_schedule.cfg` (`MCSqlWorkflow`, `CancelDeletesSchedule`): `cancel`
  never deletes the schedule, since its guard tests the status it has just
  assigned (`sql_workflow.py:476-480`).
* `sql_cancel_refused.cfg` (`MCSqlWorkflow`, `CancelNotRefused`): a reviewer whom
  `can_cancel` admits for an approved workflow is refused by `can_operate`
  (`sql_review.py:91`, `workflow_audit.py:427`).
* `sql_api_cancel.cfg` (`MCSqlWorkflow`, `EndedStays`): the API's cancel turns a
  finished workflow into an aborted one (`api_workflow.py:239-276`).
* `qpriv_api_cancel.cfg` (`MCQueryPrivApply`, `CancelIsServed`): the API's cancel of
  an application for privileges, or of an archive, raises an `AttributeError`: it
  reads `workflow.engineer`, which only `SqlWorkflow` has (`api_workflow.py:242`,
  against the docstring at `:214`).
* `qcheck_smallest.cfg` (`MCQueryPrivCheck`, `LimitIsSmallest`): of two privileges
  for one table the older one's limit counts, not the smaller
  (`query_privileges.py:502`, against `:535`).
* `qcheck_negative.cfg` (`MCQueryPrivCheck`, `AllowedIsPositive`): a negative limit,
  asked for (`query.py:37`) or of a privilege (`query_privileges.py:207`, `:409`),
  comes out of the check as the answer, and the engine fetches all rows when the
  limit is not above 0 (`mysql.py:525`).
* `archive_switch_off.cfg` (`MCArchive`, `SwitchedOffNotQueued`): a configuration
  that is switched off between the query and the loop of `add_archive_task` is
  queued all the same (`archiver.py:305-318`, against "only valid archives" at
  `:290`).
* `sql_late_start.cfg` (`MCSqlWorkflow`, `StartsInWindow`): the SQL starts after
  `run_date_end`, the end of the time in which it may be executed (`models.py:348`),
  when its task has waited: `execute` (`execute_sql.py:19-48`) does not look again.
* `login_threshold.cfg` (`MCLoginLock`, `LocksAtThreshold`): with a threshold above
  127, where `Users.save` caps the counter, no account is ever locked
  (`models.py:79`, against `config.html:1326`).
* `account_create.cfg` (`MCInstanceAccount`, `CreateIsOneTransaction`): a create for
  several hosts that fails at one of them leaves the accounts made before it
  (`mysql.py:417-436` says one transaction).
* `account_escape.cfg` (`MCInstanceAccount`, `SavedIsPassword`): for a password with
  a quote or a backslash `create` saves the escaped form, which never was the
  account's password (`mysql.py:415`, `:430`).
* `account_old_page.cfg` (`MCInstanceAccount`, `SavedAgrees`): requests come one at a
  time, and yet a delete from a page loaded before the account had a row leaves that
  row behind (`instance_account.py:399`).

## Proofs

TLAPS proves, for all values of the constants (every chain, repeated groups
included, every assignment of users and permissions, any number of requests,
workers, crashes, tables, privileges):

| Module | Theorems (and the property of a run that they state) |
|---|---|
| `AuditFlowProofs` | `TypeCorrect`, `CopiesAlwaysFollowed`, `NeverSkipsAGroup` (`NoGroupSkipped`), `ReviewPageHonest` (`ReviewInfoHonest`); for chains without repetition `EveryPassAdvances` (`EveryPassCounts`) and `ImplementsChain` (`KeepsPromise`, the refinement of `ApprovalChain`) |
| `SqlWorkflowProofs` | `TypeCorrect`, `AlwaysBacked`, `NothingRunsUnapproved` (`OnlyApprovedRuns`); `StartsUseAReleaseUp` (`OneRunPerRelease`) for workflows that are no exports; under `Serial` `NeverStartsWithdrawn` (`StartsOnlyWhilePassed`) and `NeverStartsBeforeWindow` (`NeverStartsEarly`), with `NobodyDies` `ReviewShown` (`ReviewAgrees`); under `Untimed` `ResultIsOfTheRun` (`NothingRunsAfterEnd`), `ResultStays` (`EndedStays`), `ImplementsLifecycle` (the safety part of `KeepsLifecycle`), with `NobodyDies` `EndShown` (`EndAgrees`) |
| `QueryPrivApplyProofs` | `TypeCorrect`, `AlwaysBacked`, `NothingGrantedUnapproved` (`GrantedOnlyApproved`); of `WatchedSpec` `PrivilegesOnce` (`FreshGrantedOnce`), `ApplicationShown` (`FreshStatusAgrees`) |
| `QueryPrivCheckProofs` | `TypeCorrect`, `AlwaysCovered`, `AllowedIsCovered` (`LimitCovered`), `SteadyCheckAnswers` (`SteadyAnswer`) |
| `ArchiveProofs` | `TypeCorrect`, `AlwaysBacked`, `NothingArchivedUnapproved` (`PeriodicOnlyApproved`); of `WatchedSpec` `ConfigurationShown` (`UncutStatusAgrees`), `SwitchedOffIsNotPicked` (`SwitchOffHolds`) |
| `InstanceProofs` | `QueryKill`: `TypeCorrect`, `AlwaysBacked`, `OnlyOverdueKilled` (`KillsOnlyOverdue`); `InstanceAccount`: `AccountTypeCorrect`, `RecordsAreReal` (`SavedWasReal`), `OnlyDeleteForgets` (`RecordsStay`), of `WatchedSpec` `AloneAgrees` (`AloneSavedAgrees`) |
| `LoginSettingsProofs` | `LoginLock`: `TypeCorrect`, `LocksAreJustified` (`LockJustified`), of `WatchedSpec` `LocksExactly` (`RefusedExactly`) for a threshold within the cap; `Settings`: `SettingsTypeCorrect` (`SettingsTypeOK`), `EveryAnswerInForce` (`AnswersInForce`), `TrueAnswersStay` (`TrueStays`) |

Assumptions: the named `ASSUME`s of the modules, which TLC evaluates in the
runs. Those that say something of the system: superusers have every permission,
the chain is a non-empty sequence of groups and `"-1"` is no group
(`UsersAssumption`, `ChainAssumption`); a query has at least one table, and
`"*"` is no database (`RefAssumption`); no account is named like the escaped
form of another's name (`AccountAssumption`); the default of a setting is none
of the values that the table can hold (`SettingsAssumption`). The others give
bounds and settings their type.

Hypotheses of single theorems, where the code makes no promise without them:

* `Distinct`: no group is twice in the chain. `index` finds the first position, so a
  chain that repeats a group goes round for ever (`workflow_audit.py:488`).
* `Serial`: one request process, the API's cancel not used, no export. With two
  users at a time stale saves break the properties (`sql_double_click`), the API's
  cancel rewrites whatever it finds (`sql_api_cancel.cfg`), and an export saves its
  row whole. Any number of workers, tasks, crashes and schedules remains.
* `Untimed`: `Serial`, and `timing_task` not used. A schedule stays behind when its
  workflow is withdrawn or executed by hand (`sql_cancel_schedule.cfg`), so that a
  workflow has more than one task.
* `NobodyDies`: no process dies. The submission and the API save the two rows in two
  statements, and nothing in the code reconciles them afterwards.
* `LockCount <= MaxCount`: above the cap of the counter nobody is ever locked
  (`login_threshold.cfg`).

The instances of `sql_serial` and `sql_untimed` satisfy theirs, that of
`audit_concurrent` has a chain without repetition.

The approval. That a row says PASSED only after everybody approved is not
inductive: an operation works from a copy that may be old. The strengthening is
`ChainFollowed(a, decision, done)`: while `a` waits, it points at a group of the
chain, `next` is the group after it, and everybody before it has approved; if it
has passed, everybody has. It holds of the row and of every copy of it, and
since `done` only grows a copy that was right stays right (`FollowedGrows`). The
heart is `PassFollows`: from any such copy a PASS saves a row of this kind, with
the approval it records. These lemmas of `AuditV2Proofs` serve all four modules
with an audit row. `SqlWorkflow!Backed` adds that each copy of the row whose
status is a released one, each request past the check of a status, each task
that runs and each result being saved has the approval behind it. Before the
submission there is nothing (`NothingYet`), because `Submit` sets the automatic
decision on which the rest depends. `QueryPrivApply!Backed` adds the requests
about to insert privileges, `Archive!Backed` the status column, the rows picked
and the queue. `OneRunPerRelease` rests on `ReleaseUsed`: a status from which a
worker starts means an unused release; stale saves never write such a status,
except that of an export, which writes back what it read.

The refinement of the chain. `ImplementsChain` maps the two group columns to the
groups that remain: in a chain without repetition the groups from one on are that
one and the groups from the next on (`AuditFlowProofs`), so a PASS on a copy that is
still the row takes exactly the first away, and a REJECT or ABORT decides.

The life of a workflow, one request at a time. `SerialInv` says what a request's
copies have to do with the rows at each of its steps: what it read is still so
when it writes, except what a task or the hook has changed since, and what a
release asked for still holds when the status is set. From it follows
`StartsOnlyWhilePassed`. For `NeverStartsEarly`, `EarlyInv` adds that whatever
can lead to a start (a task in the queue, a request past its look at the window,
a schedule with its date) was allowed at a time not before `run_date_start`, and
keeps that row's window: a reviewer changes it only while the row waits, and
time only goes on. Of `run_date_end` nothing follows, because it does not stay
in the future. `ReviewInv` adds that the two rows disagree only between the two
statements that save them. `OneTask` is the invariant that makes the end final:
without timing there is at most one task of the workflow, and it is either in
the queue, with one worker, among the results or with the hook; the row's status
says which. With it every step is a step of `ReleaseLifecycle` or leaves its
variables alone. That the SQL ends, the fairness in `KeepsLifecycle`, stays with
the run.

Applications and archives, up to the first stale copy. The privileges of an
application are a token (`Pending`, `Once`): with the one request that is about to
insert them, inserted, or lost with a process, and there only once the audit row
waits no more. Its row agrees with the audit row, or lags behind it while a request
is between the two statements (`Agrees`). For an archive likewise (`RowsAgree`), and
what was switched off stays off in the row, so that it is not picked.

The check of a query. `Covered` says what is known in the middle of the second
loop: the tables before this one are covered by the limit so far, the
database's limit in hand was in force, and every limit a look-up can still find
is in the history, because the date it compares with is not before the check
began. `LimitFoundCovered` and `AnsweredCovered` carry it over the combination
of limits, which may be 0 or below. `SteadyInv` is what a check that nothing has disturbed
knows in addition: which tables have a privilege in force, and that the limit so far
is the least of what was asked for and of the first limits of the tables before
(`SoFar`, `Least`). `LimitedLeast` is the step from it, the code's two `min`s with
0 for none, to the reference's minimum of a set.

The kill. `QueryKill!Backed`: what is scheduled for a thread is due when its
connection is, and until the instance restarts a thread id belongs to one open
connection, to the schedules and the tasks for it, and to its handler.

The lock. `LockJustified` is inductive with the type: a copy's count is at most
the number of failures, and its time not after the last. Until two logins overlap
the copy in progress is the row, its count the capped number of failures since the
last success or lock, and its time that of the last of them: so the look decides as
the history would.

The settings. `Remembers`: what an open object would find in the table, and what it
remembers, was in force at some time since it was built, and what it remembers as
true is what it answered.

The accounts. `Told`: the password that a request carries to its save is already one
that its accounts had, so that the save keeps it or its escaped form (`NamesAndForms`
relates the names of rows to those of accounts). Until something disturbs it, the
one request sees the instance as it left it and its page's row as it is, and a row
differs from its account only between the two
statements of a reset or a delete (`Undisturbed`).

Model-checked only: liveness under fairness (`ReleasedEnds`, `TimedRuns`,
`PassedGetsPrivileges`, `PassedIsArchived`, `ScheduledEnds`, and the fairness of
`KeepsLifecycle`), which is out of this prover's reach. Every invariant and every
action property of the runs that hold is proved. The invariants behind the proofs
(`CopiesFollowed`, `Backed`, `Covered`, `SerialInv`, `ReviewInv`, `OneTask`,
`SteadyInv` and the others in the proof modules) were given to TLC on the instances
above before they were proved; no run lists them, since the proofs establish them.

## Not modelled

* Two-factor authentication, sessions and sign-up: `verify` compares a code with
  one kept in the cache or computed from the time, and keeps no other state.
* The log and the favourites of the query page: rows that are written once.
* The archive's run itself (`pt-archiver`, an external program) and its log.
* Grants and locks of instance accounts, which change the instance only; Mongo's
  accounts; instances and databases, which are forms.
* The other engines, and analysis tools: I/O and SQL parsing against databases.
* Data masking: a pure function over the output of a SQL parser.
* Resource groups and users: constants here. Changing a chain while a workflow is
  under way is not covered (`WorkflowAudit` keeps its own copy of the chain from
  its creation on).
* Notifications, pages, logs and front ends change none of the state above.

## Plan

1. A history variable for stale saves in `SqlWorkflow`, as the other modules have, so
   that the theorems under `Serial` and `Untimed` become theorems about every
   behaviour up to the first such save.
2. Changes of a chain and of the members of a group while workflows are under way.
3. The codes of the second factor with their expiry and the sending limit.
