----------------------------- MODULE QueryKill -----------------------------
(***************************************************************************)
(* The kill of slow queries (query of sql/query.py, add_kill_conn_schedule *)
(* and del_schedule of sql/utils/tasks.py, kill_query_conn).  The handler  *)
(* opens a connection, schedules the kill of its thread id, runs the query *)
(* on it and deletes the schedule when the query has returned.  Scheduler  *)
(* and worker are other processes; the handler may die; the instance may   *)
(* restart, and counts its thread ids from the beginning then.             *)
(*                                                                         *)
(* Abstracted: one instance; what is queried; the limit that the session   *)
(* itself sets, since a query may end at any time anyway.  Schedules have  *)
(* names of their own (query-<time>): no two within a microsecond.         *)
(***************************************************************************)
EXTENDS Integers, FiniteSets

CONSTANTS
    Requests,          \* queries in progress at the same time
    MaxExecutionTime,  \* the setting max_execution_time
    MaxNow,            \* bound: the clock
    MaxConnections,    \* bound: queries begun altogether
    MaxCrashes,        \* bound: handlers that die
    MaxRestarts        \* bound: restarts of the instance

ASSUME KillAssumption ==
    /\ MaxExecutionTime \in Nat
    /\ MaxNow \in Nat
    /\ MaxConnections \in Nat
    /\ MaxCrashes \in Nat
    /\ MaxRestarts \in Nat

VARIABLES
    now,
    open,        \* connections the instance knows
    thread,      \* thread ids given since the instance started
    schedules,   \* rows of django_q_schedule
    tasks,       \* kill_query_conn in the queue of the workers
    req,         \* the handlers
    begun, crashes, restarts

vars == <<now, open, thread, schedules, tasks, req, begun, crashes, restarts>>

\* `id' tells connections apart, and stands for the name of the schedule, too;
\* the instance knows a connection by its thread id.
Connection == [id : Nat, thread : Nat, began : Nat]

Schedule == [conn : Connection, at : Nat, due : BOOLEAN]

NoConnection == [id |-> 0, thread |-> 0, began |-> 0]

Request == [pc : {"idle", "connected", "running", "returned"}, conn : Connection]

Idle == [pc |-> "idle", conn |-> NoConnection]

TypeOK ==
    /\ now \in 0 .. MaxNow
    /\ open \subseteq Connection
    /\ thread \in Nat
    /\ schedules \subseteq Schedule
    /\ tasks \subseteq Connection
    /\ req \in [Requests -> Request]
    /\ begun \in 0 .. MaxConnections
    /\ crashes \in 0 .. MaxCrashes
    /\ restarts \in 0 .. MaxRestarts

Init ==
    /\ now = 0
    /\ open = {}
    /\ thread = 0
    /\ schedules = {}
    /\ tasks = {}
    /\ req = [r \in Requests |-> Idle]
    /\ begun = 0
    /\ crashes = 0
    /\ restarts = 0

----------------------------------------------------------------------------
(***************************************************************************)
(* The handler.                                                            *)
(***************************************************************************)
\* Mutant: the engine does not tell the thread id.
ConnectNoThread(r) ==
    /\ req[r].pc = "idle"
    /\ begun < MaxConnections
    /\ begun' = begun + 1
    /\ thread' = thread + 1
    /\ LET c == [id |-> begun', thread |-> -1, began |-> now] IN
         /\ open' = open \cup {c}
         /\ req' = [req EXCEPT ![r] = [pc |-> "connected", conn |-> c]]
    /\ UNCHANGED <<now, schedules, tasks, crashes, restarts>>

\* get_connection, which sets thread_id.
Connect(r) ==
    /\ req[r].pc = "idle"
    /\ begun < MaxConnections
    /\ begun' = begun + 1
    /\ thread' = thread + 1
    /\ LET c == [id |-> begun', thread |-> thread', began |-> now] IN
         /\ open' = open \cup {c}
         /\ req' = [req EXCEPT ![r] = [pc |-> "connected", conn |-> c]]
    /\ UNCHANGED <<now, schedules, tasks, crashes, restarts>>

\* Mutant: run_date is the time at which the query begins.
AddKillConnScheduleNow(r) ==
    /\ req[r].pc = "connected"
    /\ schedules' = schedules \cup {[conn |-> req[r].conn, at |-> now, due |-> FALSE]}
    /\ req' = [req EXCEPT ![r].pc = "running"]
    /\ UNCHANGED <<now, open, thread, tasks, begun, crashes, restarts>>

\* Bound: not when the clock would stop before the kill is due.
AddKillConnSchedule(r) ==
    /\ req[r].pc = "connected"
    /\ now + MaxExecutionTime <= MaxNow
    /\ schedules' = schedules \cup
         {[conn |-> req[r].conn, at |-> now + MaxExecutionTime, due |-> FALSE]}
    /\ req' = [req EXCEPT ![r].pc = "running"]
    /\ UNCHANGED <<now, open, thread, tasks, begun, crashes, restarts>>

\* The query returns rows or an error and closes its connection.
QueryReturns(r) ==
    /\ req[r].pc = "running"
    /\ open' = open \ {req[r].conn}
    /\ req' = [req EXCEPT ![r].pc = "returned"]
    /\ UNCHANGED <<now, thread, schedules, tasks, begun, crashes, restarts>>

\* Mutant: the schedule is deleted while the query is running.
DelScheduleEarly(r) ==
    /\ req[r].pc \in {"running", "returned"}
    /\ schedules' = {s \in schedules : s.conn # req[r].conn}
    /\ req' = [req EXCEPT ![r] = Idle]
    /\ UNCHANGED <<now, open, thread, tasks, begun, crashes, restarts>>

DelSchedule(r) ==
    /\ req[r].pc = "returned"
    /\ schedules' = {s \in schedules : s.conn # req[r].conn}
    /\ req' = [req EXCEPT ![r] = Idle]
    /\ UNCHANGED <<now, open, thread, tasks, begun, crashes, restarts>>

\* The handler's process dies; the instance need not notice.
HandlerDies(r) ==
    /\ req[r].pc # "idle"
    /\ crashes < MaxCrashes
    /\ crashes' = crashes + 1
    /\ req' = [req EXCEPT ![r] = Idle]
    /\ UNCHANGED <<now, open, thread, schedules, tasks, begun, restarts>>

----------------------------------------------------------------------------
(***************************************************************************)
(* The scheduler, the workers and the instance.                            *)
(***************************************************************************)
\* A schedule that is due is queued once, and its row stays.
Due(s) ==
    /\ s.at <= now
    /\ ~s.due
    /\ schedules' = (schedules \ {s}) \cup {[s EXCEPT !.due = TRUE]}
    /\ tasks' = tasks \cup {s.conn}
    /\ UNCHANGED <<now, open, thread, req, begun, crashes, restarts>>

\* "kill <thread id>": whose ever the id is now; an unknown id is an error that
\* engine.query swallows.
KillQueryConn(c) ==
    /\ tasks' = tasks \ {c}
    /\ open' = {d \in open : d.thread # c.thread}
    /\ UNCHANGED <<now, thread, schedules, req, begun, crashes, restarts>>

\* The instance notices that the client of a connection is gone.
OrphanEnds(c) ==
    /\ \A r \in Requests : req[r].conn # c
    /\ open' = open \ {c}
    /\ UNCHANGED <<now, thread, schedules, tasks, req, begun, crashes, restarts>>

Restart ==
    /\ restarts < MaxRestarts
    /\ restarts' = restarts + 1
    /\ open' = {}
    /\ thread' = 0
    /\ UNCHANGED <<now, schedules, tasks, req, begun, crashes>>

Tick ==
    /\ now < MaxNow
    /\ now' = now + 1
    /\ UNCHANGED <<open, thread, schedules, tasks, req, begun, crashes, restarts>>

----------------------------------------------------------------------------
SomeDue == \E s \in schedules : Due(s)

SomeKill == \E c \in tasks : KillQueryConn(c)

Next ==
    \/ \E r \in Requests :
         \/ Connect(r) \/ AddKillConnSchedule(r)
         \/ QueryReturns(r) \/ DelSchedule(r) \/ HandlerDies(r)
    \/ SomeDue
    \/ SomeKill
    \/ \E c \in open : OrphanEnds(c)
    \/ Restart
    \/ Tick

Spec == Init /\ [][Next]_vars

\* Time passes, the scheduler looks at what is due, and workers take what is
\* queued.  A query need never return.
FairSpec == Spec /\ WF_vars(Tick) /\ WF_vars(SomeDue) /\ WF_vars(SomeKill)

----------------------------------------------------------------------------
(***************************************************************************)
(* Properties.                                                             *)
(***************************************************************************)
Overdue(c) == now >= c.began + MaxExecutionTime

\* Until the instance has restarted, a kill ends no connection before its
\* time: not that of a query which got through between the schedule's and the
\* worker's turn, nor that of another user, whoever dies or is late.
KillsOnlyOverdue ==
    [][restarts = 0 /\ tasks' # tasks =>
         \A c \in open \ open' : Overdue(c)]_vars

\* No open connection but c has the thread id of c.
OwnThread(c) ==
    /\ c.thread \in 1 .. thread
    /\ \A d \in open : d.thread = c.thread => d = c

\* What makes it hold: what is scheduled for a thread is due when its connection
\* is, and until the instance has restarted a thread id is given once.
Backed ==
    /\ \A r \in Requests : req[r].conn.began <= now
    /\ \A s \in schedules : s.at >= s.conn.began + MaxExecutionTime
    /\ \A c \in tasks : Overdue(c)
    /\ restarts = 0 =>
         /\ \A c \in open : OwnThread(c)
         /\ \A s \in schedules : OwnThread(s.conn)
         /\ \A c \in tasks : OwnThread(c)
         /\ \A r \in Requests : req[r].pc # "idle" => OwnThread(req[r].conn)

\* A connection whose kill has been scheduled does not stay open, though its
\* query never returns and its handler dies.
ScheduledEnds ==
    \A id \in 1 .. MaxConnections :
        (\E s \in schedules : s.conn.id = id /\ s.conn \in open)
            ~> (\A c \in open : c.id # id)

=============================================================================
