--------------------------- MODULE InstanceProofs ---------------------------
(***************************************************************************)
(* Proofs about the two modules that act on a database instance: QueryKill,*)
(* for any number of queries, crashes and restarts of the instance; and    *)
(* InstanceAccount, for any accounts and passwords and any number of       *)
(* overlapping requests.                                                   *)
(***************************************************************************)
EXTENDS QueryKill, InstanceAccountHistory, TLAPS

IInv == TypeOK /\ Backed

\* OwnThread and Overdue, of connections, an instance and a time by name.
Owns(c, o, t) == c.thread \in 1 .. t /\ \A d \in o : d.thread = c.thread => d = c

Late(c, t) == t >= c.began + MaxExecutionTime

\* The invariant with its names expanded.
LEMMA Now ==
    ASSUME IInv
    PROVE  /\ now \in 0 .. MaxNow /\ now \in Nat /\ thread \in Nat
           /\ open \subseteq Connection /\ schedules \subseteq Schedule
           /\ tasks \subseteq Connection /\ req \in [Requests -> Request]
           /\ begun \in 0 .. MaxConnections /\ begun \in Nat
           /\ crashes \in 0 .. MaxCrashes /\ restarts \in 0 .. MaxRestarts
           /\ \A r \in Requests :
                req[r] \in Request /\ req[r].conn \in Connection /\ req[r].conn.began <= now
           /\ \A s \in schedules :
                /\ s.conn \in Connection /\ s.at \in Nat
                /\ s.at >= s.conn.began + MaxExecutionTime
           /\ \A c \in tasks : Late(c, now)
           /\ \A c \in Connection : c.id \in Nat /\ c.thread \in Nat /\ c.began \in Nat
BY KillAssumption DEF IInv, TypeOK, Backed, Request, Schedule, Connection, Overdue, Late

LEMMA OwnNow ==
    ASSUME IInv, restarts = 0
    PROVE  /\ \A c \in open : Owns(c, open, thread)
           /\ \A s \in schedules : Owns(s.conn, open, thread)
           /\ \A c \in tasks : Owns(c, open, thread)
           /\ \A r \in Requests : req[r].pc # "idle" => Owns(req[r].conn, open, thread)
BY DEF IInv, Backed, OwnThread, Owns

LEMMA IdleType == Idle \in Request /\ Idle.pc = "idle" /\ Idle.conn.began = 0
BY DEF Idle, Request, NoConnection, Connection

LEMMA InitIInv == Init => IInv
<1> SUFFICES ASSUME Init PROVE IInv
  OBVIOUS
<1>1. TypeOK
  BY IdleType, KillAssumption DEF Init, TypeOK
<1>2. Backed
  BY IdleType DEF Init, Backed
<1> QED BY <1>1, <1>2 DEF IInv

\* A thread stays its connection's when connections close.
LEMMA OwnThreadCloses ==
    ASSUME NEW c, Owns(c, open, thread), thread' = thread, open' \subseteq open
    PROVE  Owns(c, open', thread')
BY DEF Owns

LEMMA OverdueStays ==
    ASSUME NEW c \in Connection, Late(c, now), now \in Nat, now' \in Nat, now <= now'
    PROVE  Late(c, now')
<1>1. c.began \in Nat
  BY DEF Connection
<1> QED BY <1>1, KillAssumption DEF Late

----------------------------------------------------------------------------
\* A step that opens no connection: schedules are old ones or those of a request
\* that has begun, tasks are old ones or what was due.
LEMMA StepIInv ==
    ASSUME IInv, TypeOK',
           now' \in Nat, now <= now', thread' = thread, restarts' = restarts,
           open' \subseteq open,
           \A r \in Requests : req'[r].conn = req[r].conn \/ req'[r].conn.began = 0,
           \A r \in Requests : req'[r].pc # "idle" => req'[r].conn = req[r].conn /\ req[r].pc # "idle",
           \A s \in schedules' :
               /\ s.at >= s.conn.began + MaxExecutionTime
               /\ \/ \E t \in schedules : t.conn = s.conn
                  \/ \E r \in Requests : req[r].pc # "idle" /\ s.conn = req[r].conn,
           \A c \in tasks' : c \in tasks \/ (\E s \in schedules : s.conn = c /\ s.at <= now)
    PROVE  IInv'
<1>1. \A r \in Requests : req'[r].conn.began <= now'
  <2> SUFFICES ASSUME NEW r \in Requests PROVE req'[r].conn.began <= now'
    OBVIOUS
  <2>1. req[r].conn.began \in Nat /\ req[r].conn.began <= now /\ now \in Nat
    BY Now
  <2> QED BY <2>1
<1>2. \A c \in tasks' : Late(c, now')
  <2> SUFFICES ASSUME NEW c \in tasks' PROVE Late(c, now')
    OBVIOUS
  <2>1. c \in Connection /\ Late(c, now)
    <3>1. CASE c \in tasks
      BY <3>1, Now
    <3>2. CASE c \notin tasks
      <4>1. PICK s \in schedules : s.conn = c /\ s.at <= now
        BY <3>2
      <4>2. /\ c \in Connection /\ c.began \in Nat /\ s.at \in Nat /\ now \in Nat
            /\ s.at >= c.began + MaxExecutionTime
        BY <4>1, Now
      <4> QED BY <4>1, <4>2, KillAssumption DEF Late
    <3> QED BY <3>1, <3>2
  <2> QED BY <2>1, Now, OverdueStays
<1>3. ASSUME restarts' = 0
      PROVE  /\ \A c \in open' : Owns(c, open', thread')
             /\ \A s \in schedules' : Owns(s.conn, open', thread')
             /\ \A c \in tasks' : Owns(c, open', thread')
             /\ \A r \in Requests : req'[r].pc # "idle" => Owns(req'[r].conn, open', thread')
  <2>1. \A c : Owns(c, open, thread) => Owns(c, open', thread')
    BY OwnThreadCloses
  <2>2. \A s \in schedules' : Owns(s.conn, open, thread)
    BY <1>3, OwnNow
  <2>3. \A c \in tasks' : Owns(c, open, thread)
    BY <1>3, OwnNow
  <2> QED BY <1>3, <2>1, <2>2, <2>3, OwnNow
<1> QED BY <1>1, <1>2, <1>3 DEF IInv, Backed, OwnThread, Overdue, Owns, Late

LEMMA NextIInv == IInv /\ [Next]_vars => IInv'
<1> SUFFICES ASSUME IInv, [Next]_vars PROVE IInv'
  OBVIOUS
<1>1. ASSUME NEW r \in Requests, Connect(r) PROVE IInv'
  <2> DEFINE c == [id |-> begun + 1, thread |-> thread + 1, began |-> now]
             q == [pc |-> "connected", conn |-> c]
  <2>1. /\ begun < MaxConnections /\ begun' = begun + 1 /\ thread' = thread + 1
        /\ open' = open \cup {c} /\ req' = [req EXCEPT ![r] = q]
        /\ UNCHANGED <<now, schedules, tasks, crashes, restarts>>
    BY <1>1 DEF Connect
  <2>2. c \in Connection /\ c.thread = thread + 1 /\ c.began = now
    BY Now DEF Connection
  <2> HIDE DEF c
  <2>3. q \in Request /\ q.conn = c
    BY <2>2 DEF Request
  <2> HIDE DEF q
  <2>4. TypeOK'
    BY <2>1, <2>2, <2>3, Now, KillAssumption DEF TypeOK
  <2>5. \A p \in Requests : req'[p].conn.began <= now'
    BY <2>1, <2>2, <2>3, Now
  <2>6. ASSUME NEW d \in Connection, Owns(d, open, thread) PROVE Owns(d, open', thread')
    <3>1. d.thread # c.thread /\ d.thread \in 1 .. thread'
      BY <2>1, <2>2, <2>6, Now DEF Owns
    <3> QED BY <2>1, <2>6, <3>1 DEF Owns
  <2>7. ASSUME restarts = 0 PROVE Owns(c, open', thread')
    <3>1. \A d \in open : d.thread # c.thread
      BY <2>2, <2>7, OwnNow, Now DEF Owns
    <3>2. c.thread \in 1 .. thread'
      BY <2>1, <2>2, Now
    <3> QED BY <2>1, <3>1, <3>2 DEF Owns
  <2>8. ASSUME restarts = 0
        PROVE  /\ \A d \in open' : Owns(d, open', thread')
               /\ \A s \in schedules' : Owns(s.conn, open', thread')
               /\ \A d \in tasks' : Owns(d, open', thread')
               /\ \A p \in Requests : req'[p].pc # "idle" => Owns(req'[p].conn, open', thread')
    <3>1. /\ \A d \in open' : Owns(d, open', thread')
          /\ \A s \in schedules' : Owns(s.conn, open', thread')
          /\ \A d \in tasks' : Owns(d, open', thread')
      BY <2>1, <2>6, <2>7, <2>8, OwnNow, Now
    <3>2. ASSUME NEW p \in Requests, req'[p].pc # "idle" PROVE Owns(req'[p].conn, open', thread')
      <4>1. CASE p = r
        <5>1. req'[p].conn = c
          BY <2>1, <2>3, <4>1, Now
        <5> QED BY <5>1, <2>7, <2>8
      <4>2. CASE p # r
        <5>1. req'[p] = req[p]
          BY <2>1, <4>2, Now
        <5>2. Owns(req[p].conn, open, thread) /\ req[p].conn \in Connection
          BY <2>8, <3>2, <5>1, OwnNow, Now
        <5>3. Owns(req[p].conn, open', thread')
          BY <5>2, <2>6
        <5> QED BY <5>1, <5>3 DEF Owns
      <4> QED BY <4>1, <4>2
    <3> QED BY <3>1, <3>2
  <2>9. \A d \in tasks' : Late(d, now')
    BY <2>1, Now DEF Late
  <2> QED BY <2>1, <2>4, <2>5, <2>8, <2>9 DEF IInv, Backed, OwnThread, Overdue, Owns, Late
<1>2. ASSUME NEW r \in Requests, AddKillConnSchedule(r) PROVE IInv'
  <2> DEFINE s == [conn |-> req[r].conn, at |-> now + MaxExecutionTime, due |-> FALSE]
  <2>1. /\ req[r].pc = "connected"
        /\ schedules' = schedules \cup {s} /\ req' = [req EXCEPT ![r].pc = "running"]
        /\ UNCHANGED <<now, open, thread, tasks, begun, crashes, restarts>>
    BY <1>2 DEF AddKillConnSchedule
  <2>2. s \in Schedule /\ s.conn = req[r].conn /\ s.at = now + MaxExecutionTime
    BY Now, KillAssumption DEF Schedule
  <2> HIDE DEF s
  <2>3. \A p \in Requests : req'[p].conn = req[p].conn /\ (req'[p].pc # "idle" => req[p].pc # "idle")
    BY <2>1, Now DEF Request
  <2>4. req' \in [Requests -> Request]
    BY <2>1, Now DEF Request
  <2>5. TypeOK'
    BY <2>1, <2>2, <2>4, Now DEF TypeOK
  <2>6. s.at >= s.conn.began + MaxExecutionTime
    BY <2>2, Now, KillAssumption
  <2>7. \A t \in schedules' :
           /\ t.at >= t.conn.began + MaxExecutionTime
           /\ \/ \E u \in schedules : u.conn = t.conn
              \/ \E p \in Requests : req[p].pc # "idle" /\ t.conn = req[p].conn
    BY <2>1, <2>2, <2>6, Now
  <2> QED BY <2>1, <2>3, <2>5, <2>7, Now, StepIInv
<1>3. ASSUME NEW r \in Requests, QueryReturns(r) PROVE IInv'
  <2>1. /\ req[r].pc = "running" /\ open' \subseteq open
        /\ req' = [req EXCEPT ![r].pc = "returned"]
        /\ UNCHANGED <<now, thread, schedules, tasks, begun, crashes, restarts>>
    BY <1>3 DEF QueryReturns
  <2>2. \A p \in Requests : req'[p].conn = req[p].conn /\ (req'[p].pc # "idle" => req[p].pc # "idle")
    BY <2>1, Now DEF Request
  <2>3. req' \in [Requests -> Request]
    BY <2>1, Now DEF Request
  <2>4. TypeOK'
    BY <2>1, <2>3, Now DEF TypeOK
  <2> QED BY <2>1, <2>2, <2>4, Now, StepIInv
<1>4. ASSUME NEW r \in Requests, DelSchedule(r) \/ HandlerDies(r) PROVE IInv'
  <2>1. /\ req' = [req EXCEPT ![r] = Idle] /\ schedules' \subseteq schedules
        /\ crashes' \in 0 .. MaxCrashes
        /\ UNCHANGED <<now, open, thread, tasks, begun, restarts>>
    BY <1>4, Now, KillAssumption DEF DelSchedule, HandlerDies
  <2>2. \A p \in Requests :
          \/ req'[p] = req[p]
          \/ req'[p].pc = "idle" /\ req'[p].conn.began = 0
    BY <2>1, IdleType, Now
  <2>3. TypeOK'
    BY <2>1, IdleType, Now DEF TypeOK
  <2> QED BY <2>1, <2>2, <2>3, Now, StepIInv
<1>5. ASSUME NEW s \in schedules, Due(s) PROVE IInv'
  <2> DEFINE t == [s EXCEPT !.due = TRUE]
  <2>1. /\ s.at <= now /\ schedules' = (schedules \ {s}) \cup {t}
        /\ tasks' = tasks \cup {s.conn}
        /\ UNCHANGED <<now, open, thread, req, begun, crashes, restarts>>
    BY <1>5 DEF Due
  <2>2. t \in Schedule /\ t.conn = s.conn /\ t.at = s.at
    BY Now DEF Schedule
  <2> HIDE DEF t
  <2>3. TypeOK'
    BY <2>1, <2>2, Now DEF TypeOK
  <2> QED BY <2>1, <2>2, <2>3, Now, StepIInv
<1>6. ASSUME NEW c \in tasks, KillQueryConn(c) PROVE IInv'
  <2>1. /\ tasks' \subseteq tasks /\ open' \subseteq open
        /\ UNCHANGED <<now, thread, schedules, req, begun, crashes, restarts>>
    BY <1>6 DEF KillQueryConn
  <2>2. TypeOK'
    BY <2>1, Now DEF TypeOK
  <2> QED BY <2>1, <2>2, Now, StepIInv
<1>7. ASSUME NEW c \in open, OrphanEnds(c) PROVE IInv'
  <2>1. /\ open' \subseteq open
        /\ UNCHANGED <<now, thread, schedules, tasks, req, begun, crashes, restarts>>
    BY <1>7 DEF OrphanEnds
  <2>2. TypeOK'
    BY <2>1, Now DEF TypeOK
  <2> QED BY <2>1, <2>2, Now, StepIInv
<1>8. ASSUME Restart PROVE IInv'
  <2>1. /\ restarts' \in 0 .. MaxRestarts /\ restarts' # 0 /\ open' = {} /\ thread' = 0
        /\ UNCHANGED <<now, schedules, tasks, req, begun, crashes>>
    BY <1>8, Now, KillAssumption DEF Restart
  <2>2. TypeOK'
    BY <2>1, Now DEF TypeOK
  <2> QED BY <2>1, <2>2, Now DEF IInv, Backed, Overdue
<1>9. ASSUME Tick PROVE IInv'
  <2>1. /\ now' \in 0 .. MaxNow /\ now' \in Nat /\ now <= now'
        /\ UNCHANGED <<open, thread, schedules, tasks, req, begun, crashes, restarts>>
    BY <1>9, Now, KillAssumption DEF Tick
  <2>2. TypeOK'
    BY <2>1, Now DEF TypeOK
  <2> QED BY <2>1, <2>2, Now, StepIInv
<1>10. CASE UNCHANGED vars
  BY <1>10 DEF vars, IInv, TypeOK, Backed, OwnThread, Overdue
<1> QED BY <1>1, <1>2, <1>3, <1>4, <1>5, <1>6, <1>7, <1>8, <1>9, <1>10
        DEF Next, SomeDue, SomeKill

----------------------------------------------------------------------------
\* A step that changes the queue and closes a connection is a kill of that
\* connection, which is overdue.
LEMMA KillOverdue ==
    ASSUME IInv, [Next]_vars, restarts = 0, tasks' # tasks,
           NEW d \in open \ open'
    PROVE  Late(d, now)
<1>1. ASSUME NEW c \in tasks, KillQueryConn(c) PROVE Late(d, now)
  <2>1. d.thread = c.thread
    BY <1>1 DEF KillQueryConn
  <2>2. d = c
    BY <2>1, OwnNow DEF Owns
  <2> QED BY <2>2, Now
<1>2. ASSUME NEW s \in schedules, Due(s) PROVE FALSE
  BY <1>2 DEF Due
<1>3. ASSUME NEW r \in Requests, Connect(r) PROVE FALSE
  BY <1>3 DEF Connect
<1>4. ASSUME NEW r \in Requests,
             AddKillConnSchedule(r) \/ QueryReturns(r) \/ DelSchedule(r) \/ HandlerDies(r)
      PROVE  FALSE
  BY <1>4 DEF AddKillConnSchedule, QueryReturns, DelSchedule, HandlerDies
<1>5. ASSUME NEW c \in open, OrphanEnds(c) PROVE FALSE
  BY <1>5 DEF OrphanEnds
<1>6. ~Restart /\ ~Tick /\ ~UNCHANGED vars
  BY DEF Restart, Tick, vars
<1> QED BY <1>1, <1>2, <1>3, <1>4, <1>5, <1>6 DEF Next, SomeDue, SomeKill

\* The types of the tables, the queue and the handlers.
THEOREM TypeCorrect == Spec => []TypeOK
<1>1. IInv => TypeOK
  BY DEF IInv
<1> QED BY <1>1, InitIInv, NextIInv, PTL DEF Spec

\* What is scheduled or queued is for a connection that is due then, and known
\* by a thread id of its own.
THEOREM AlwaysBacked == Spec => []Backed
<1>1. IInv => Backed
  BY DEF IInv
<1> QED BY <1>1, InitIInv, NextIInv, PTL DEF Spec

\* Until the instance restarts, only an overdue connection is killed.
THEOREM OnlyOverdueKilled == Spec => KillsOnlyOverdue
<1>1. IInv /\ [Next]_vars =>
        [restarts = 0 /\ tasks' # tasks => \A c \in open \ open' : Overdue(c)]_vars
  BY KillOverdue DEF Overdue, Late
<1> QED BY <1>1, InitIInv, NextIInv, PTL DEF Spec, KillsOnlyOverdue

----------------------------------------------------------------------------
(***************************************************************************)
(* InstanceAccount.  A request knows of every account it is to save that   *)
(* its password is known; and the history grows only.                      *)
(***************************************************************************)
ForOne == {"reset", "resetSave", "delete", "deleteSave", "edit"}

Told(x, k) ==
    /\ x.pc \in ForOne => \E a \in Accounts : x.accounts = {a}
    /\ x.pc \in {"create", "createSave", "reset", "resetSave"} => x.password \in Passwords
    /\ x.pc = "create" => \A a \in x.accounts : a \in x.todo \/ x.password \in k[a]
    /\ x.pc \in {"createSave", "resetSave"} => \A a \in x.accounts : x.password \in k[a]

AccountInv ==
    /\ AccountTypeOK
    /\ SavedWasReal
    /\ \A r \in Posts : Told(post[r], known)

LEMMA AccountTypes ==
    ASSUME AccountInv
    PROVE  /\ instance \in [Accounts -> Passwords \cup {None}]
           /\ saved \in [Names -> Kept \cup {Blank, None}]
           /\ page \in [Posts -> Page]
           /\ post \in [Posts -> Post]
           /\ posted \in 0 .. MaxPosts /\ deaths \in 0 .. MaxDeaths
           /\ known \in [Accounts -> SUBSET (Passwords \cup {Blank})]
           /\ \A n \in Names : saved[n] # None => Real(n)
           /\ \A r \in Posts : Told(post[r], known)
BY DEF AccountInv, AccountTypeOK, SavedWasReal

\* Escaping: every account and every name it has in the table is a name.
LEMMA NamesAndForms ==
    /\ \A a \in Accounts : a \in Names /\ RowOf[a] \in Names
    /\ \A p \in Passwords : p \in Kept /\ Escape[p] \in Kept /\ Escape[p] \in Forms(p)
    /\ \A p : p \in Forms(p)
    /\ Passwords \subseteq Kept /\ Blank \notin Kept /\ None \notin Kept /\ None # Blank
BY AccountAssumption DEF Names, Kept, Forms

LEMMA NoPostTold ==
    ASSUME NEW k
    PROVE  NoPost \in Post /\ NoPost.pc = "idle" /\ Told(NoPost, k)
BY DEF NoPost, Post, Pcs, Told, ForOne

LEMMA InitAccountInv == AccountInit => AccountInv
<1> SUFFICES ASSUME AccountInit PROVE AccountInv
  OBVIOUS
<1>0. NoPage \in Page /\ MaxPosts \in Nat /\ MaxDeaths \in Nat
  BY AccountAssumption DEF NoPage, Page
<1>1. AccountTypeOK
  BY <1>0, NoPostTold DEF AccountInit, AccountTypeOK
<1>2. SavedWasReal /\ \A r \in Posts : Told(post[r], known)
  BY NoPostTold DEF AccountInit, SavedWasReal
<1> QED BY <1>1, <1>2 DEF AccountInv

\* More is known: what a request was told stays true.
LEMMA ToldGrows ==
    ASSUME NEW x \in Post, NEW k, NEW l, \A a \in Accounts : k[a] \subseteq l[a], Told(x, k)
    PROVE  Told(x, l)
BY DEF Told, Post

\* A step of a request: it goes on with what it is told, and rows are known.
LEMMA AccountStep ==
    ASSUME AccountInv, NEW r \in Posts, NEW x \in Post, post' = [post EXCEPT ![r] = x],
           Told(x, known'),
           instance' \in [Accounts -> Passwords \cup {None}],
           page' \in [Posts -> Page],
           saved' \in [Names -> Kept \cup {Blank, None}],
           posted' \in 0 .. MaxPosts, deaths' \in 0 .. MaxDeaths,
           known' \in [Accounts -> SUBSET (Passwords \cup {Blank})],
           \A a \in Accounts : known[a] \subseteq known'[a],
           \A n \in Names : saved'[n] \in {saved[n], None} \/ Real(n)'
    PROVE  AccountInv'
<1>1. AccountTypeOK'
  BY AccountTypes DEF AccountTypeOK
<1>2. SavedWasReal'
  <2> SUFFICES ASSUME NEW n \in Names, saved'[n] # None PROVE Real(n)'
    BY DEF SavedWasReal
  <2>1. CASE saved'[n] = saved[n]
    <3>1. PICK a \in Accounts :
            n \in {a, RowOf[a]} /\ \E p \in known[a] : saved[n] \in Forms(p)
      BY <2>1, AccountTypes DEF Real
    <3>2. known[a] \subseteq known'[a]
      OBVIOUS
    <3> QED BY <2>1, <3>1, <3>2 DEF Real
  <2> QED BY <2>1
<1>3. ASSUME NEW q \in Posts PROVE Told(post'[q], known')
  <2>1. CASE q = r
    BY <2>1, AccountTypes
  <2>2. CASE q # r
    <3>1. post'[q] = post[q] /\ post[q] \in Post /\ Told(post[q], known)
      BY <2>2, AccountTypes
    <3> QED BY <3>1, ToldGrows
  <2> QED BY <2>1, <2>2
<1> QED BY <1>1, <1>2, <1>3 DEF AccountInv

\* A request that leaves instance and table alone.
LEMMA AccountQuiet ==
    ASSUME AccountInv, NEW r \in Posts, NEW x \in Post, post' = [post EXCEPT ![r] = x],
           Told(x, known),
           posted' \in 0 .. MaxPosts, deaths' \in 0 .. MaxDeaths,
           page' \in [Posts -> Page],
           UNCHANGED <<instance, saved, known>>
    PROVE  AccountInv'
BY AccountTypes, AccountStep

\* What SetPassword does to the instance and the history.
LEMMA PasswordSet ==
    ASSUME AccountInv, NEW a \in Accounts, NEW p \in Passwords, SetPassword(a, p)
    PROVE  /\ instance' \in [Accounts -> Passwords \cup {None}]
           /\ instance'[a] = p /\ \A b \in Accounts : b # a => instance'[b] = instance[b]
           /\ known' \in [Accounts -> SUBSET (Passwords \cup {Blank})]
           /\ p \in known'[a] /\ \A b \in Accounts : known[b] \subseteq known'[b]
BY AccountTypes DEF SetPassword

\* The request's record after Goto and Finish.
LEMMA PostMoves ==
    ASSUME AccountInv, NEW r \in Posts, NEW pc \in Pcs
    PROVE  LET x == [post[r] EXCEPT !.pc = pc] IN
             /\ x \in Post /\ x.pc = pc /\ x.accounts = post[r].accounts
             /\ x.todo = post[r].todo /\ x.password = post[r].password
             /\ x.shown = post[r].shown
             /\ Goto(r, pc) => post' = [post EXCEPT ![r] = x]
             /\ pc \in Resting \cup {"error"} => Told(x, known)
<1>1. post[r] \in Post
  BY AccountTypes
<1> QED BY <1>1 DEF Goto, Post, Told, ForOne, Resting

LEMMA NextAccountInv == AccountInv /\ [AccountNext]_accountVars => AccountInv'
<1> SUFFICES ASSUME AccountInv, [AccountNext]_accountVars PROVE AccountInv'
  OBVIOUS
<1>t. /\ instance \in [Accounts -> Passwords \cup {None}]
      /\ saved \in [Names -> Kept \cup {Blank, None}]
      /\ page \in [Posts -> Page]
      /\ post \in [Posts -> Post]
      /\ posted \in 0 .. MaxPosts /\ deaths \in 0 .. MaxDeaths
      /\ known \in [Accounts -> SUBSET (Passwords \cup {Blank})]
      /\ \A n \in Names : saved[n] # None => Real(n)
      /\ MaxPosts \in Nat /\ MaxDeaths \in Nat
      /\ "error" \in Pcs /\ "list" \in Pcs /\ "idle" \in Pcs
  BY AccountTypes, AccountAssumption DEF Pcs
<1>p. \A r \in Posts : post[r] \in Post /\ Told(post[r], known) /\ post[r].accounts \subseteq Accounts
  BY AccountTypes DEF Post
<1>e. ASSUME NEW r \in Posts, Goto(r, "error"), UNCHANGED <<instance, saved, page, posted, deaths, known>>
      PROVE  AccountInv'
  <2> DEFINE x == [post[r] EXCEPT !.pc = "error"]
  <2>1. x \in Post /\ Told(x, known) /\ post' = [post EXCEPT ![r] = x]
    BY <1>e, <1>t, PostMoves
  <2> HIDE DEF x
  <2> QED BY <1>e, <1>t, <2>1, AccountQuiet
<1>f. ASSUME NEW r \in Posts, Finish(r), deaths' \in 0 .. MaxDeaths,
             UNCHANGED <<instance, saved, page, posted, known>>
      PROVE  AccountInv'
  BY <1>f, <1>t, NoPostTold, AccountQuiet DEF Finish
<1>1. ASSUME NEW r \in Posts, Begin(r) PROVE AccountInv'
  <2>1. posted' \in 0 .. MaxPosts /\ UNCHANGED <<instance, saved, page, deaths, known>>
    BY <1>1, <1>t DEF Begin
  <2>2. PICK x \in Post : post' = [post EXCEPT ![r] = x] /\ Told(x, known)
    <3>1. ASSUME NEW hosts \in SUBSET Accounts \ {{}}, NEW p \in Passwords
          PROVE  LET x == [pc |-> "create", accounts |-> hosts, todo |-> hosts, password |-> p,
                           shown |-> FALSE]
                 IN  x \in Post /\ Told(x, known)
      BY DEF Post, Pcs, Told, ForOne
    <3>2. ASSUME NEW op \in Ops \ {"create"}, NEW a \in page[r].listed, NEW p \in Passwords \cup {Blank},
                 Complete(op, p)
          PROVE  LET x == [pc |-> op, accounts |-> {a}, todo |-> {}, password |-> p,
                           shown |-> a \in page[r].rows]
                 IN  x \in Post /\ Told(x, known)
      <4>1. op \in {"reset", "delete", "edit"} /\ (op = "reset" => p \in Passwords)
        BY <3>2, AccountAssumption DEF Operations, Complete
      <4>2. a \in Accounts
        BY <1>t DEF Page
      <4> QED BY <4>1, <4>2 DEF Post, Pcs, Told, ForOne
    <3> QED BY <1>1, <3>1, <3>2 DEF Begin
  <2> QED BY <1>t, <2>1, <2>2, AccountQuiet
<1>2. ASSUME NEW r \in Posts, Create(r) PROVE AccountInv'
  <2>1. post[r].pc = "create" /\ UNCHANGED <<saved, page, posted, deaths>>
    BY <1>2 DEF Create
  <2>2. /\ post[r].password \in Passwords
        /\ \A a \in post[r].accounts : a \in post[r].todo \/ post[r].password \in known[a]
        /\ post[r].todo \subseteq Accounts
    BY <1>p, <2>1 DEF Told, Post
  <2>3. ASSUME NEW a \in post[r].todo,
               SetPassword(a, post[r].password),
               post' = [post EXCEPT ![r] =
                 [post[r] EXCEPT !.todo = post[r].todo \ {a},
                    !.pc = IF post[r].todo = {a} THEN "createSave" ELSE "create"]]
        PROVE  AccountInv'
    <3> DEFINE x == [post[r] EXCEPT !.todo = post[r].todo \ {a},
                      !.pc = IF post[r].todo = {a} THEN "createSave" ELSE "create"]
    <3>0. a \in Accounts
      BY <2>2
    <3>1. /\ instance' \in [Accounts -> Passwords \cup {None}]
          /\ known' \in [Accounts -> SUBSET (Passwords \cup {Blank})]
          /\ post[r].password \in known'[a]
          /\ \A b \in Accounts : known[b] \subseteq known'[b]
      BY <2>2, <2>3, <3>0, PasswordSet
    <3>2. post' = [post EXCEPT ![r] = x]
      BY <2>3
    <3>3. /\ x \in Post /\ x.accounts = post[r].accounts /\ x.todo = post[r].todo \ {a}
          /\ x.password = post[r].password
          /\ x.pc = IF post[r].todo = {a} THEN "createSave" ELSE "create"
      <4> DEFINE next == IF post[r].todo = {a} THEN "createSave" ELSE "create"
      <4>1. next \in Pcs /\ post[r] \in Post
        BY <1>p DEF Pcs
      <4> HIDE DEF next
      <4>2. LET y == [post[r] EXCEPT !.todo = post[r].todo \ {a}, !.pc = next]
            IN  /\ y \in Post /\ y.accounts = post[r].accounts
                /\ y.todo = post[r].todo \ {a} /\ y.password = post[r].password
                /\ y.pc = next
        BY <4>1 DEF Post
      <4> QED BY <4>2 DEF next
    <3> HIDE DEF x
    <3>4. Told(x, known')
      BY <1>p, <2>2, <3>1, <3>3 DEF Told, ForOne
    <3> QED BY <1>t, <2>1, <3>1, <3>2, <3>3, <3>4, AccountStep
  <2>4. CASE Goto(r, "error") /\ UNCHANGED <<instance, known>>
    BY <1>e, <2>1, <2>4
  <2> QED BY <1>2, <2>3, <2>4, Zenon DEF Create
<1>3. ASSUME NEW r \in Posts, CreateSave(r) PROVE AccountInv'
  <2>1. post[r].pc = "createSave" /\ UNCHANGED <<instance, page, posted, deaths, known>>
    BY <1>3 DEF CreateSave
  <2>2. /\ post[r].password \in Passwords
        /\ \A a \in post[r].accounts : post[r].password \in known[a]
    BY <1>p, <2>1 DEF Told
  <2> DEFINE rows == {RowOf[a] : a \in post[r].accounts}
  <2>3. CASE /\ saved' = [n \in Names |->
                            IF n \in rows THEN Escape[post[r].password] ELSE saved[n]]
             /\ Finish(r)
    <3>1. saved' \in [Names -> Kept \cup {Blank, None}]
      BY <1>t, <2>2, <2>3, NamesAndForms
    <3>2. ASSUME NEW n \in Names PROVE saved'[n] = saved[n] \/ Real(n)'
      <4>1. CASE n \in rows
        <5>1. PICK a \in post[r].accounts : n = RowOf[a]
          BY <4>1
        <5>2. saved'[n] = Escape[post[r].password]
          BY <2>3, <4>1
        <5>3. saved'[n] \in Forms(post[r].password)
          BY <2>2, <5>2, NamesAndForms
        <5>4. a \in Accounts /\ post[r].password \in known'[a]
          BY <1>p, <2>1, <2>2
        <5> QED BY <5>1, <5>3, <5>4 DEF Real
      <4> QED BY <2>3, <4>1
    <3> HIDE DEF rows
    <3> QED BY <3>2, <1>t, <2>1, <2>3, <3>1, NoPostTold, AccountStep DEF Finish
  <2>4. CASE Goto(r, "error") /\ UNCHANGED saved
    BY <1>e, <2>1, <2>4
  <2>5. \/ /\ saved' = [n \in Names |->
                            IF n \in rows THEN Escape[post[r].password] ELSE saved[n]]
           /\ Finish(r)
        \/ Goto(r, "error") /\ UNCHANGED saved
    BY <1>3 DEF CreateSave
  <2> QED BY <2>3, <2>4, <2>5
<1>4. ASSUME NEW r \in Posts, Reset(r) PROVE AccountInv'
  <2>1. post[r].pc = "reset" /\ UNCHANGED <<saved, page, posted, deaths>>
    BY <1>4 DEF Reset
  <2>2. PICK a \in Accounts : post[r].accounts = {a}
    BY <1>p, <2>1 DEF Told, ForOne
  <2>3. CASE SetPassword(a, post[r].password) /\ Goto(r, "resetSave")
    <3> DEFINE x == [post[r] EXCEPT !.pc = "resetSave"]
    <3>1. post[r].password \in Passwords
      BY <1>p, <2>1 DEF Told
    <3>2. /\ instance' \in [Accounts -> Passwords \cup {None}]
          /\ known' \in [Accounts -> SUBSET (Passwords \cup {Blank})]
          /\ post[r].password \in known'[a]
          /\ \A b \in Accounts : known[b] \subseteq known'[b]
      BY <2>3, <3>1, PasswordSet
    <3>3. /\ x \in Post /\ x.pc = "resetSave" /\ x.accounts = {a}
          /\ x.password = post[r].password /\ post' = [post EXCEPT ![r] = x]
      BY <2>2, <2>3, PostMoves DEF Pcs
    <3> HIDE DEF x
    <3>4. Told(x, known')
      BY <3>1, <3>2, <3>3 DEF Told, ForOne
    <3> QED BY <1>t, <2>1, <3>2, <3>3, <3>4, AccountStep
  <2>4. CASE Goto(r, "error") /\ UNCHANGED <<instance, known>>
    BY <1>e, <2>1, <2>4
  <2> QED BY <1>4, <2>2, <2>3, <2>4 DEF Reset
<1>5. ASSUME NEW r \in Posts, ResetSave(r) PROVE AccountInv'
  <2>1. /\ post[r].pc = "resetSave" /\ Finish(r)
        /\ UNCHANGED <<instance, page, posted, deaths, known>>
    BY <1>5 DEF ResetSave
  <2>2. PICK a \in post[r].accounts : saved' = [saved EXCEPT ![a] = post[r].password]
    BY <1>5 DEF ResetSave
  <2>3. a \in Accounts /\ post[r].password \in Passwords /\ post[r].password \in known[a]
    BY <1>p, <2>1 DEF Told
  <2>4. /\ saved' \in [Names -> Kept \cup {Blank, None}]
        /\ \A n \in Names : n # a => saved'[n] = saved[n]
        /\ saved'[a] = post[r].password
    BY <1>t, <2>2, <2>3, NamesAndForms
  <2>5. Real(a)'
    BY <2>1, <2>3, <2>4, NamesAndForms DEF Real
  <2> QED BY <1>t, <2>1, <2>4, <2>5, NoPostTold, AccountStep DEF Finish
<1>6. ASSUME NEW r \in Posts, Delete(r) PROVE AccountInv'
  <2>1. post[r].pc = "delete" /\ UNCHANGED <<saved, page, posted, deaths, known>>
    BY <1>6 DEF Delete
  <2>2. PICK a \in Accounts : post[r].accounts = {a}
    BY <1>p, <2>1 DEF Told, ForOne
  <2>3. CASE instance' = [instance EXCEPT ![a] = None] /\ Goto(r, "deleteSave")
    <3> DEFINE x == [post[r] EXCEPT !.pc = "deleteSave"]
    <3>1. /\ x \in Post /\ x.pc = "deleteSave" /\ x.accounts = {a}
          /\ post' = [post EXCEPT ![r] = x]
      BY <2>2, <2>3, PostMoves DEF Pcs
    <3> HIDE DEF x
    <3>2. Told(x, known')
      BY <3>1 DEF Told, ForOne
    <3>3. instance' \in [Accounts -> Passwords \cup {None}]
      BY <1>t, <2>3
    <3> QED BY <1>t, <2>1, <3>1, <3>2, <3>3, AccountStep
  <2>4. CASE Goto(r, "error") /\ UNCHANGED instance
    BY <1>e, <2>1, <2>4
  <2> QED BY <1>6, <2>2, <2>3, <2>4 DEF Delete
<1>7. ASSUME NEW r \in Posts, DeleteSave(r) PROVE AccountInv'
  <2>1. Finish(r) /\ UNCHANGED <<instance, page, posted, deaths, known>>
    BY <1>7 DEF DeleteSave
  <2>2. PICK a \in Accounts :
          saved' = IF post[r].shown THEN [saved EXCEPT ![a] = None] ELSE saved
    BY <1>7, <1>p DEF DeleteSave
  <2>3. /\ saved' \in [Names -> Kept \cup {Blank, None}]
        /\ \A n \in Names : saved'[n] \in {saved[n], None}
    BY <1>t, <2>2
  <2> QED BY <1>t, <2>1, <2>3, NoPostTold, AccountStep DEF Finish
<1>8. ASSUME NEW r \in Posts, Edit(r) PROVE AccountInv'
  <2>1. Finish(r) /\ UNCHANGED <<instance, page, posted, deaths>>
    BY <1>8 DEF Edit
  <2>2. PICK a \in post[r].accounts :
          \/ /\ saved' = [saved EXCEPT ![a] = post[r].password]
             /\ known' = [known EXCEPT ![a] = @ \cup {post[r].password}]
          \/ UNCHANGED <<saved, known>>
    BY <1>8 DEF Edit
  <2>3. a \in Accounts /\ a \in Names /\ post[r].password \in Passwords \cup {Blank}
    BY <1>p, NamesAndForms DEF Post
  <2>4. CASE UNCHANGED <<saved, known>>
    BY <1>t, <2>1, <2>4, NoPostTold, AccountStep DEF Finish
  <2>5. CASE /\ saved' = [saved EXCEPT ![a] = post[r].password]
             /\ known' = [known EXCEPT ![a] = @ \cup {post[r].password}]
    <3>1. /\ saved' \in [Names -> Kept \cup {Blank, None}]
          /\ known' \in [Accounts -> SUBSET (Passwords \cup {Blank})]
          /\ \A b \in Accounts : known[b] \subseteq known'[b]
          /\ \A n \in Names : n # a => saved'[n] = saved[n]
          /\ saved'[a] = post[r].password /\ post[r].password \in known'[a]
      BY <1>t, <2>3, <2>5, NamesAndForms
    <3>2. Real(a)'
      BY <2>3, <3>1, NamesAndForms DEF Real
    <3> QED BY <1>t, <2>1, <3>1, <3>2, NoPostTold, AccountStep DEF Finish
  <2> QED BY <2>2, <2>4, <2>5
<1>9. ASSUME NEW r \in Posts, Error(r) \/ PostDies(r) PROVE AccountInv'
  <2>1. /\ Finish(r) /\ UNCHANGED <<instance, saved, page, posted, known>>
        /\ deaths' \in 0 .. MaxDeaths
    BY <1>9, <1>t DEF Error, PostDies
  <2> QED BY <1>f, <2>1
<1>10. CASE UNCHANGED accountVars
  BY <1>10 DEF accountVars, AccountInv, AccountTypeOK, SavedWasReal, Real
\* A list that loads.
<1>11. ASSUME NEW r \in Posts, NEW pc \in Resting, Goto(r, pc), page' \in [Posts -> Page],
              UNCHANGED <<instance, saved, posted, deaths, known>>
       PROVE  AccountInv'
  <2> DEFINE x == [post[r] EXCEPT !.pc = pc]
  <2>1. x \in Post /\ Told(x, known) /\ post' = [post EXCEPT ![r] = x]
    BY <1>11, <1>t, PostMoves DEF Resting
  <2> HIDE DEF x
  <2> QED BY <1>11, <1>t, <2>1, AccountQuiet
<1>12. ASSUME NEW r \in Posts, UserRows(r) PROVE AccountInv'
  <2>1. page' \in [Posts -> Page]
    BY <1>12, <1>t DEF UserRows, Page
  <2> QED BY <1>11, <1>12, <2>1 DEF UserRows, Resting
<1>13. ASSUME NEW r \in Posts, UserList(r) PROVE AccountInv'
  <2>1. page' \in [Posts -> Page]
    BY <1>13, <1>t DEF UserList, Page
  <2> QED BY <1>11, <1>13, <2>1 DEF UserList, Resting
<1> QED BY <1>1, <1>2, <1>3, <1>4, <1>5, <1>6, <1>7, <1>8, <1>9, <1>10, <1>12, <1>13
    DEF AccountNext

\* The types of the instance's accounts, of their rows and of the requests.
THEOREM AccountTypeCorrect == AccountSpec => []AccountTypeOK
<1>1. AccountInv => AccountTypeOK
  BY DEF AccountInv
<1> QED BY <1>1, InitAccountInv, NextAccountInv, PTL DEF AccountSpec

\* However requests overlap and wherever one dies, every password kept is, escaped
\* or not, one that the account had or that a user recorded.
THEOREM RecordsAreReal == AccountSpec => []SavedWasReal
<1>1. AccountInv => SavedWasReal
  BY DEF AccountInv
<1> QED BY <1>1, InitAccountInv, NextAccountInv, PTL DEF AccountSpec

\* A recorded password goes away by a delete of its account only.
THEOREM OnlyDeleteForgets == AccountSpec => RecordsStay
<1> DEFINE Stay == \A n \in Names :
                     saved[n] \in Kept /\ saved'[n] \notin Kept =>
                       \E r \in Posts : post[r].pc = "deleteSave" /\ n \in post[r].accounts
<1>1. AccountInv /\ [AccountNext]_accountVars => [Stay]_accountVars
  <2> SUFFICES ASSUME AccountInv, AccountNext, NEW n \in Names,
                      saved[n] \in Kept, saved'[n] \notin Kept
               PROVE  \E r \in Posts : post[r].pc = "deleteSave" /\ n \in post[r].accounts
    OBVIOUS
  <2>1. /\ saved \in [Names -> Kept \cup {Blank, None}]
        /\ None \notin Kept /\ Passwords \subseteq Kept
        /\ \A p \in Passwords : Escape[p] \in Kept
        /\ \A r \in Posts : /\ post[r] \in Post
                            /\ post[r].accounts \subseteq Accounts
                            /\ post[r].password \in Passwords \cup {Blank}
                            /\ post[r].pc \in {"createSave", "resetSave"} =>
                                 post[r].password \in Passwords
    BY AccountTypes, NamesAndForms DEF Told, Post
  <2>2. CASE UNCHANGED saved
    BY <2>2
  <2>3. ASSUME NEW r \in Posts, CreateSave(r) PROVE FALSE
    BY <2>1, <2>3 DEF CreateSave
  <2>4. ASSUME NEW r \in Posts, ResetSave(r) PROVE FALSE
    BY <2>1, <2>4 DEF ResetSave
  <2>5. ASSUME NEW r \in Posts, Edit(r) PROVE FALSE
    BY <2>1, <2>5 DEF Edit
  <2>6. ASSUME NEW r \in Posts, DeleteSave(r)
        PROVE  post[r].pc = "deleteSave" /\ n \in post[r].accounts
    BY <2>1, <2>6 DEF DeleteSave
  <2> QED BY <2>2, <2>3, <2>4, <2>5, <2>6
          DEF AccountNext, UserRows, UserList, Begin, Create, Reset, Delete, Error, PostDies
<1> QED BY <1>1, InitAccountInv, NextAccountInv, PTL DEF AccountSpec, RecordsStay

(***************************************************************************)
(* The history.  Until something disturbs it, one request at a time sees   *)
(* the instance as it left it, a delete knows whether there is a row, and  *)
(* a row differs from its account only between the two statements of a     *)
(* reset or a delete.                                                      *)
(***************************************************************************)
Between(x, i, s) ==
    /\ x.pc # "edit"
    /\ x.pc = "create" => \A a \in x.accounts : a \in x.todo \/ i[a] = x.password
    /\ x.pc \in {"createSave", "resetSave"} => \A a \in x.accounts : i[a] = x.password
    /\ x.pc \in {"delete", "deleteSave"} /\ ~x.shown => \A a \in x.accounts : s[a] = None

Undisturbed ==
    /\ \A r, s \in Posts : post[r].pc \notin Resting /\ post[s].pc \notin Resting => r = s
    /\ \A r \in Posts : Between(post[r], instance, saved)
    /\ \A a \in Accounts :
         \/ Agrees(a)
         \/ \E r \in Posts : post[r].pc \in {"resetSave", "deleteSave"} /\ a \in post[r].accounts

HistoryInv == ~disturbed => Undisturbed

LEMMA InitHistory == WatchedInit => HistoryInv
BY NamesAndForms
   DEF WatchedInit, AccountInit, HistoryInv, Undisturbed, Between, NoPost, Resting, Agrees

\* A step of a request, undisturbed: before and after it is the only one.
LEMMA WatchedStep ==
    ASSUME AccountInv, HistoryInv, WatchedNext, ~disturbed',
           NEW r \in Posts, NEW x, post' = [post EXCEPT ![r] = x],
           post[r].pc \notin Resting \/ UNCHANGED <<instance, saved>>,
           x.pc # "edit" => Between(x, instance', saved'),
           \A a \in Accounts :
             \/ Agrees(a)'
             \/ post[r].pc \in Resting /\ ~Agrees(a)
             \/ x.pc \in {"resetSave", "deleteSave"} /\ a \in x.accounts
    PROVE  Undisturbed'
<1>1. /\ Undisturbed
      /\ \A q, s \in Posts :
           post'[q].pc \notin Resting /\ post'[s].pc \notin Resting => q = s
      /\ \A q \in Posts : post'[q].pc # "edit"
  BY DEF WatchedNext, HistoryInv
<1>2. post'[r] = x /\ \A q \in Posts : q # r => post'[q] = post[q]
  BY AccountTypes
<1>3. ASSUME NEW q \in Posts PROVE Between(post'[q], instance', saved')
  <2>1. CASE q = r
    BY <1>1, <1>2, <2>1
  <2>2. CASE q # r /\ post[r].pc \notin Resting
    <3>1. post'[q].pc \in Resting
      BY <1>1, <1>2, <2>2 DEF Undisturbed
    <3> QED BY <3>1 DEF Between, Resting
  <2>3. CASE q # r /\ UNCHANGED <<instance, saved>>
    BY <1>1, <1>2, <2>3 DEF Undisturbed
  <2> QED BY <2>1, <2>2, <2>3
<1>4. ASSUME NEW a \in Accounts
      PROVE  \/ Agrees(a)'
             \/ \E q \in Posts : post'[q].pc \in {"resetSave", "deleteSave"} /\ a \in post'[q].accounts
  <2>1. CASE post[r].pc \in Resting /\ ~Agrees(a)
    <3>1. PICK q \in Posts : post[q].pc \in {"resetSave", "deleteSave"} /\ a \in post[q].accounts
      BY <1>1, <2>1 DEF Undisturbed
    <3>2. q # r
      BY <2>1, <3>1 DEF Resting
    <3> QED BY <1>2, <3>1, <3>2
  <2>2. CASE x.pc \in {"resetSave", "deleteSave"} /\ a \in x.accounts
    BY <1>2, <2>2
  <2> QED BY <2>1, <2>2
<1> QED BY <1>1, <1>3, <1>4 DEF Undisturbed

LEMMA NextHistory ==
    AccountInv /\ HistoryInv /\ [WatchedNext]_watched => HistoryInv'
<1> SUFFICES ASSUME AccountInv, HistoryInv, [WatchedNext]_watched, ~disturbed' PROVE Undisturbed'
  BY DEF HistoryInv
<1>0. CASE UNCHANGED watched
  BY <1>0 DEF watched, accountVars, HistoryInv, Undisturbed, Agrees
<1> SUFFICES ASSUME WatchedNext PROVE Undisturbed'
  BY <1>0
<1>u. Undisturbed
  BY DEF WatchedNext, HistoryInv
<1>t. /\ instance \in [Accounts -> Passwords \cup {None}]
      /\ saved \in [Names -> Kept \cup {Blank, None}]
      /\ \A r \in Posts :
           /\ post[r] \in Post /\ Told(post[r], known) /\ Between(post[r], instance, saved)
           /\ post[r].accounts \subseteq Accounts /\ post[r].todo \subseteq Accounts
           /\ post[r].password \in Passwords \cup {Blank}
      /\ NoPost.pc = "idle" /\ \A i, s : Between(NoPost, i, s)
  BY <1>u, AccountTypes DEF Undisturbed, Post, NoPost, Between
\* A delete begins with a page that shows the row as it is.
<1>d. \A r \in Posts : post'[r].pc = "delete" =>
        \A a \in post'[r].accounts : post'[r].shown = (saved[a] # None)
  BY DEF WatchedNext
\* The one request finds every other row in order.
<1>o. ASSUME NEW r \in Posts, post[r].pc \notin Resting, NEW a \in Accounts
      PROVE  \/ Agrees(a)
             \/ post[r].pc \in {"resetSave", "deleteSave"} /\ a \in post[r].accounts
  <2>1. \A q \in Posts : post[q].pc \notin Resting => q = r
    BY <1>o, <1>u DEF Undisturbed
  <2> QED BY <1>u, <2>1 DEF Undisturbed, Resting
<1>e. ASSUME NEW r \in Posts, post[r].pc \notin Resting,
             post[r].pc \notin {"resetSave", "deleteSave"},
             Goto(r, "error"), UNCHANGED <<instance, saved>>
      PROVE  Undisturbed'
  <2> DEFINE x == [post[r] EXCEPT !.pc = "error"]
  <2>1. x.pc = "error" /\ post' = [post EXCEPT ![r] = x]
    BY <1>e, PostMoves DEF Pcs
  <2> HIDE DEF x
  <2>2. Between(x, instance', saved')
    BY <2>1 DEF Between
  <2>3. \A a \in Accounts : Agrees(a)'
    BY <1>e, <1>o DEF Agrees
  <2> QED BY <1>e, <2>1, <2>2, <2>3, WatchedStep
<1>f. ASSUME NEW r \in Posts, Finish(r), post[r].pc \notin Resting,
             \A a \in Accounts : Agrees(a)'
      PROVE  Undisturbed'
  BY <1>f, <1>t, WatchedStep DEF Finish
<1>1. ASSUME NEW r \in Posts, Begin(r) PROVE Undisturbed'
  <2>1. post[r].pc \in Resting /\ UNCHANGED <<instance, saved>>
    BY <1>1 DEF Begin, Resting
  <2>2. PICK x : /\ post' = [post EXCEPT ![r] = x]
                 /\ x.pc \notin {"edit", "delete"} => Between(x, instance, saved)
                 /\ x.pc \in {"create", "reset", "edit", "delete"}
    <3>1. ASSUME NEW hosts, NEW p
          PROVE  LET x == [pc |-> "create", accounts |-> hosts, todo |-> hosts, password |-> p,
                           shown |-> FALSE]
                 IN  x.pc = "create" /\ Between(x, instance, saved)
      BY DEF Between
    <3>2. ASSUME NEW op \in Ops \ {"create"}, NEW a, NEW p
          PROVE  LET x == [pc |-> op, accounts |-> {a}, todo |-> {}, password |-> p,
                           shown |-> a \in page[r].rows]
                 IN  /\ x.pc \notin {"edit", "delete"} => Between(x, instance, saved)
                     /\ x.pc \in {"reset", "edit", "delete"}
      BY AccountAssumption DEF Between, Operations
    <3>3. CASE \E hosts \in SUBSET Accounts \ {{}}, p \in Passwords :
                 post' = [post EXCEPT ![r] =
                   [pc |-> "create", accounts |-> hosts, todo |-> hosts, password |-> p,
                    shown |-> FALSE]]
      BY <3>1, <3>3
    <3>4. CASE \E op \in Ops \ {"create"}, a \in page[r].listed, p \in Passwords \cup {Blank} :
                 post' = [post EXCEPT ![r] =
                   [pc |-> op, accounts |-> {a}, todo |-> {}, password |-> p,
                    shown |-> a \in page[r].rows]]
      <4>1. PICK op \in Ops \ {"create"}, a \in page[r].listed, p \in Passwords \cup {Blank} :
              post' = [post EXCEPT ![r] =
                [pc |-> op, accounts |-> {a}, todo |-> {}, password |-> p,
                 shown |-> a \in page[r].rows]]
        BY <3>4, Zenon
      <4> DEFINE y == [pc |-> op, accounts |-> {a}, todo |-> {}, password |-> p,
                       shown |-> a \in page[r].rows]
      <4>2. /\ y.pc \notin {"edit", "delete"} => Between(y, instance, saved)
            /\ y.pc \in {"reset", "edit", "delete"}
        BY <3>2
      <4>3. post' = [post EXCEPT ![r] = y]
        BY <4>1
      <4> HIDE DEF y
      <4> QED BY <4>2, <4>3
    <3> QED BY <1>1, <3>3, <3>4, Zenon DEF Begin
  <2>3. post'[r] = x
    BY <2>2, AccountTypes
  <2>4. x.pc = "delete" => Between(x, instance, saved)
    BY <1>d, <2>3 DEF Between
  <2>5. x.pc # "edit" => Between(x, instance', saved')
    BY <2>1, <2>2, <2>4
  <2>6. \A a \in Accounts : Agrees(a)' = Agrees(a)
    BY <2>1 DEF Agrees
  <2> QED BY <2>1, <2>2, <2>5, <2>6, WatchedStep
<1>2. ASSUME NEW r \in Posts, Create(r) PROVE Undisturbed'
  <2>1. post[r].pc = "create" /\ UNCHANGED saved
    BY <1>2 DEF Create
  <2>2. /\ post[r].password \in Passwords
        /\ \A a \in post[r].accounts : a \in post[r].todo \/ instance[a] = post[r].password
        /\ \A a \in Accounts : Agrees(a)
    BY <1>t, <1>o, <2>1 DEF Told, Between, Resting
  <2>3. ASSUME NEW a \in post[r].todo, instance[a] = None,
               SetPassword(a, post[r].password),
               post' = [post EXCEPT ![r] =
                 [post[r] EXCEPT !.todo = post[r].todo \ {a},
                    !.pc = IF post[r].todo = {a} THEN "createSave" ELSE "create"]]
        PROVE  Undisturbed'
    <3> DEFINE x == [post[r] EXCEPT !.todo = post[r].todo \ {a},
                      !.pc = IF post[r].todo = {a} THEN "createSave" ELSE "create"]
    <3>0. a \in Accounts
      BY <1>t
    <3>1. /\ instance'[a] = post[r].password
          /\ \A b \in Accounts : b # a => instance'[b] = instance[b]
      BY <2>2, <2>3, <3>0, PasswordSet
    <3>2. post' = [post EXCEPT ![r] = x]
      BY <1>t, <2>3 DEF Post
    <3>3. /\ x.accounts = post[r].accounts /\ x.todo = post[r].todo \ {a}
          /\ x.password = post[r].password
          /\ x.pc = IF post[r].todo = {a} THEN "createSave" ELSE "create"
      BY <1>t DEF Post
    <3> HIDE DEF x
    <3>4. Between(x, instance', saved')
      BY <1>t, <2>2, <3>0, <3>1, <3>3 DEF Between
    <3>5. \A b \in Accounts : Agrees(b)'
      BY <2>1, <2>2, <2>3, <3>0, <3>1 DEF Agrees
    <3> QED BY <2>1, <3>2, <3>4, <3>5, WatchedStep DEF Resting
  <2>4. CASE Goto(r, "error") /\ UNCHANGED <<instance, known>>
    BY <1>e, <2>1, <2>4 DEF Resting
  <2> QED BY <1>2, <2>3, <2>4, Zenon DEF Create
<1>3. ASSUME NEW r \in Posts, CreateSave(r) PROVE Undisturbed'
  <2>1. /\ post[r].pc = "createSave" /\ UNCHANGED instance
        /\ \A a \in post[r].accounts : instance[a] = post[r].password
        /\ \A a \in Accounts : Agrees(a)
    BY <1>3, <1>t, <1>o DEF CreateSave, Between, Resting
  <2> DEFINE rows == {RowOf[a] : a \in post[r].accounts}
  <2>2. CASE /\ saved' = [n \in Names |->
                            IF n \in rows THEN Escape[post[r].password] ELSE saved[n]]
             /\ Finish(r)
    <3>1. ASSUME NEW a \in Accounts PROVE Agrees(a)'
      <4>1. CASE a \in rows
        <5>1. PICK b \in post[r].accounts : a = RowOf[b]
          BY <4>1
        <5>2. a = b
          BY <1>t, <5>1, AccountAssumption
        <5>3. post[r].password \in Passwords
          BY <1>t, <2>1 DEF Told
        <5>4. instance'[a] = post[r].password /\ saved'[a] = Escape[post[r].password]
          BY <2>1, <2>2, <4>1, <5>2, NamesAndForms
        <5> QED BY <5>3, <5>4, NamesAndForms DEF Agrees
      <4>2. CASE a \notin rows
        <5>1. saved'[a] = saved[a]
          BY <2>2, <4>2, NamesAndForms
        <5> QED BY <2>1, <5>1 DEF Agrees
      <4> QED BY <4>1, <4>2
    <3> QED BY <1>f, <2>1, <2>2, <3>1 DEF Resting
  <2>3. CASE Goto(r, "error") /\ UNCHANGED saved
    BY <1>e, <2>1, <2>3 DEF Resting
  <2>4. \/ /\ saved' = [n \in Names |->
                            IF n \in rows THEN Escape[post[r].password] ELSE saved[n]]
           /\ Finish(r)
        \/ Goto(r, "error") /\ UNCHANGED saved
    BY <1>3 DEF CreateSave
  <2> QED BY <2>2, <2>3, <2>4
<1>4. ASSUME NEW r \in Posts, Reset(r) PROVE Undisturbed'
  <2>1. /\ post[r].pc = "reset" /\ UNCHANGED saved
        /\ \A b \in Accounts : Agrees(b)
    BY <1>4, <1>o DEF Reset, Resting
  <2>2. PICK a \in Accounts : post[r].accounts = {a}
    BY <1>t, <2>1 DEF Told, ForOne
  <2>3. CASE SetPassword(a, post[r].password) /\ Goto(r, "resetSave")
    <3> DEFINE x == [post[r] EXCEPT !.pc = "resetSave"]
    <3>1. post[r].password \in Passwords
      BY <1>t, <2>1 DEF Told
    <3>2. /\ instance'[a] = post[r].password
          /\ \A b \in Accounts : b # a => instance'[b] = instance[b]
      BY <2>3, <3>1, PasswordSet
    <3>3. /\ x.pc = "resetSave" /\ x.accounts = {a}
          /\ x.password = post[r].password /\ post' = [post EXCEPT ![r] = x]
      BY <2>2, <2>3, PostMoves DEF Pcs
    <3> HIDE DEF x
    <3>4. Between(x, instance', saved')
      BY <3>2, <3>3 DEF Between
    <3>5. \A b \in Accounts : Agrees(b)' \/ b \in x.accounts
      BY <2>1, <3>2, <3>3 DEF Agrees
    <3> QED BY <2>1, <3>3, <3>4, <3>5, WatchedStep DEF Resting
  <2>4. CASE Goto(r, "error") /\ UNCHANGED <<instance, known>>
    BY <1>e, <2>1, <2>4 DEF Resting
  <2> QED BY <1>4, <2>2, <2>3, <2>4 DEF Reset
<1>5. ASSUME NEW r \in Posts, ResetSave(r) PROVE Undisturbed'
  <2>1. post[r].pc = "resetSave" /\ Finish(r) /\ UNCHANGED instance
    BY <1>5 DEF ResetSave
  <2>2. PICK a \in Accounts : post[r].accounts = {a}
    BY <1>t, <2>1 DEF Told, ForOne
  <2>3. saved' = [saved EXCEPT ![a] = post[r].password] /\ instance[a] = post[r].password
    BY <1>5, <1>t, <2>1, <2>2 DEF ResetSave, Between
  <2>4. \A b \in Accounts : b = a \/ Agrees(b)
    BY <1>o, <2>1, <2>2 DEF Resting
  <2>5. post[r].password \in Passwords
    BY <1>t, <2>1 DEF Told
  <2>6. \A b \in Accounts : Agrees(b)'
    BY <1>t, <2>1, <2>3, <2>4, <2>5, NamesAndForms DEF Agrees
  <2> QED BY <1>f, <2>1, <2>6 DEF Resting
<1>6. ASSUME NEW r \in Posts, Delete(r) PROVE Undisturbed'
  <2>1. /\ post[r].pc = "delete" /\ UNCHANGED saved
        /\ \A b \in Accounts : Agrees(b)
    BY <1>6, <1>o DEF Delete, Resting
  <2>2. PICK a \in Accounts : post[r].accounts = {a}
    BY <1>t, <2>1 DEF Told, ForOne
  <2>3. CASE instance' = [instance EXCEPT ![a] = None] /\ Goto(r, "deleteSave")
    <3> DEFINE x == [post[r] EXCEPT !.pc = "deleteSave"]
    <3>1. /\ x.pc = "deleteSave" /\ x.accounts = {a} /\ x.shown = post[r].shown
          /\ post' = [post EXCEPT ![r] = x]
      BY <2>2, <2>3, PostMoves DEF Pcs
    <3> HIDE DEF x
    <3>2. Between(x, instance', saved')
      BY <1>t, <2>1, <2>2, <3>1 DEF Between
    <3>3. \A b \in Accounts : Agrees(b)' \/ b \in x.accounts
      BY <1>t, <2>1, <2>3, <3>1 DEF Agrees
    <3> QED BY <2>1, <3>1, <3>2, <3>3, WatchedStep DEF Resting
  <2>4. CASE Goto(r, "error") /\ UNCHANGED instance
    BY <1>e, <2>1, <2>4 DEF Resting
  <2> QED BY <1>6, <2>2, <2>3, <2>4 DEF Delete
<1>7. ASSUME NEW r \in Posts, DeleteSave(r) PROVE Undisturbed'
  <2>1. post[r].pc = "deleteSave" /\ Finish(r) /\ UNCHANGED instance
    BY <1>7 DEF DeleteSave
  <2>2. PICK a \in Accounts : post[r].accounts = {a}
    BY <1>t, <2>1 DEF Told, ForOne
  <2>3. /\ saved' = IF post[r].shown THEN [saved EXCEPT ![a] = None] ELSE saved
        /\ ~post[r].shown => saved[a] = None
    BY <1>7, <1>t, <2>1, <2>2 DEF DeleteSave, Between
  <2>4. \A b \in Accounts : b = a \/ Agrees(b)
    BY <1>o, <2>1, <2>2 DEF Resting
  <2>5. \A b \in Accounts : Agrees(b)'
    BY <1>t, <2>1, <2>3, <2>4, NamesAndForms DEF Agrees
  <2> QED BY <1>f, <2>1, <2>5 DEF Resting
<1>8. ASSUME NEW r \in Posts, Error(r) PROVE Undisturbed'
  <2>1. /\ post[r].pc = "error" /\ Finish(r) /\ UNCHANGED <<instance, saved>>
        /\ \A b \in Accounts : Agrees(b)
    BY <1>8, <1>o DEF Error, Resting
  <2>2. \A b \in Accounts : Agrees(b)'
    BY <2>1 DEF Agrees
  <2> QED BY <1>f, <2>1, <2>2 DEF Resting
\* A list that loads.
<1>9. ASSUME NEW r \in Posts, NEW pc \in Resting, post[r].pc \in Resting, Goto(r, pc),
             UNCHANGED <<instance, saved>>
      PROVE  Undisturbed'
  <2> DEFINE x == [post[r] EXCEPT !.pc = pc]
  <2>0. pc \in Pcs
    BY DEF Pcs, Resting
  <2>1. x.pc = pc /\ post' = [post EXCEPT ![r] = x]
    BY <1>9, <2>0, PostMoves
  <2> HIDE DEF x
  <2>2. Between(x, instance', saved')
    BY <2>1 DEF Between, Resting
  <2>3. \A a \in Accounts : Agrees(a)' = Agrees(a)
    BY <1>9 DEF Agrees
  <2> QED BY <1>9, <2>1, <2>2, <2>3, WatchedStep
<1>10. ASSUME NEW r \in Posts, UserRows(r) \/ UserList(r) PROVE Undisturbed'
  BY <1>9, <1>10 DEF UserRows, UserList, Resting
\* These two disturb: a recorded password, and a death.
<1>11. ASSUME NEW r \in Posts, Edit(r) \/ PostDies(r) PROVE FALSE
  <2>1. deaths \in Nat
    BY AccountTypes, AccountAssumption
  <2> QED BY <1>11, <1>t, <2>1 DEF Edit, PostDies, WatchedNext, Between
<1> QED BY <1>1, <1>2, <1>3, <1>4, <1>5, <1>6, <1>7, <1>8, <1>10, <1>11
        DEF WatchedNext, AccountNext

\* As long as nothing disturbs it, the rows under the names of accounts are those of
\* accounts of the instance, with their passwords: each failing statement leaves
\* them in agreement.
THEOREM AloneAgrees == WatchedSpec => []AloneSavedAgrees
<1>1. AccountInv /\ HistoryInv => AloneSavedAgrees
  BY DEF HistoryInv, Undisturbed, AloneSavedAgrees, SavedAgrees, Quiet, Resting
<1>2. WatchedInit => AccountInv /\ HistoryInv
  BY InitAccountInv, InitHistory DEF WatchedInit
<1>3. AccountInv /\ HistoryInv /\ [WatchedNext]_watched => AccountInv' /\ HistoryInv'
  <2>1. [WatchedNext]_watched => [AccountNext]_accountVars
    BY DEF WatchedNext, watched
  <2> QED BY <2>1, NextAccountInv, NextHistory
<1> QED BY <1>1, <1>2, <1>3, PTL DEF WatchedSpec

=============================================================================
