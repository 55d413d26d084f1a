--------------------------- MODULE QueryPrivCheck ---------------------------
(***************************************************************************)
(* query_priv_check of sql/query_privileges.py: may a user run a query     *)
(* over some tables, and how many rows may it return.  It asks             *)
(* query_privileges again and again, twice for every look-up (exists, then *)
(* first), outside a transaction, while approvals insert rows, an          *)
(* administrator changes or deletes them and days go by.                   *)
(*                                                                         *)
(* Abstracted: user and instance are fixed; a table of the query is a      *)
(* database and a name, and NoTable as its name makes it a database of an  *)
(* engine for which only databases are checked.  Users whose permissions   *)
(* skip the check, explain statements and queries without a table are left *)
(* out: for them nothing of this is asked.                                 *)
(***************************************************************************)
EXTENDS Integers, Sequences, FiniteSetsExt

CONSTANTS
    Dbs, Names,      \* names of databases and of tables
    AnyDb,           \* the "*" of a privilege on every database
    NoTable,         \* the table_name of a database privilege
    TableRef,        \* the tables of the query, in the order of _table_ref
    Limits,          \* values of limit_num in privileges, any integers
    Asked,           \* values of limit_num in requests, any integers; 0 is none
    MaxDay,          \* bound: days that go by
    MaxPrivileges,   \* bound: rows inserted
    MaxChanges       \* bound: changes of the table, and of the date

ASSUME RefAssumption ==
    /\ TableRef \in Seq([db : Dbs, name : Names \cup {NoTable}])
    /\ TableRef # << >>
    /\ AnyDb \notin Dbs
    /\ NoTable \notin Names

ASSUME NumberAssumption ==
    /\ Limits \subseteq Int
    /\ Asked \subseteq Int
    /\ MaxDay \in Nat
    /\ MaxPrivileges \in Nat
    /\ MaxChanges \in Nat

VARIABLES
    privileges,   \* the rows of the user on the instance, by privilege_id
    today,
    changes,
    check,        \* the check in progress
    seen          \* history: limits in force for each table since the check began

vars == <<privileges, today, changes, check, seen>>

Refs == DOMAIN TableRef

Days == 0 .. MaxDay

Privilege == [type : {"db", "table"}, db : Dbs \cup {AnyDb}, name : Names \cup {NoTable},
              valid : Days, limit : Limits, deleted : BOOLEAN]

\* What is being looked up, and what has been found out so far: `db' is the limit
\* that _db_priv returned, `limit' is limit_num, 0 stands for False.
Check == [pc      : {"idle", "exists", "first", "allowed", "refused", "error"},
          phase   : {"priv", "limit"},
          ref     : Refs,
          type    : {"db", "table"},
          since   : Days,
          db      : Int,
          limit   : Int,
          asked   : Int,
          began   : Days,
          steady  : BOOLEAN]

TypeOK ==
    /\ privileges \in Seq(Privilege)
    /\ today \in Days
    /\ changes \in 0 .. MaxChanges
    /\ check \in Check
    /\ seen \in [Refs -> SUBSET Limits]

Init ==
    /\ privileges = << >>
    /\ today = 0
    /\ changes = 0
    /\ check = [pc |-> "idle", phase |-> "priv", ref |-> 1, type |-> "db", since |-> 0,
                db |-> 0, limit |-> 0, asked |-> 0, began |-> 0, steady |-> FALSE]
    /\ seen = [i \in Refs |-> {}]

----------------------------------------------------------------------------
(***************************************************************************)
(* The filters of _db_priv and _tb_priv over a table of rows.              *)
(***************************************************************************)
Matches(p, ref, type) ==
    /\ p.type = type
    /\ \/ type = "db" /\ p.db \in {ref.db, AnyDb}
       \/ type = "table" /\ p.db = ref.db /\ p.name = ref.name

\* Mutant: an expired privilege is found, too.
UserPrivilegesExpired(rows, ref, type, since) ==
    {k \in DOMAIN rows : Matches(rows[k], ref, type) /\ ~rows[k].deleted}

UserPrivileges(rows, ref, type, since) ==
    {k \in DOMAIN rows : /\ Matches(rows[k], ref, type)
                         /\ rows[k].valid >= since
                         /\ ~rows[k].deleted}

IsFirstOf(k, found) == k \in found /\ \A j \in found : k <= j

\* first() of an unordered query set: the lowest primary key.
FirstOf(found) == CHOOSE k \in found : IsFirstOf(k, found)

\* What a privilege is for, apart from those filters: it lets its user query the
\* table on that day, as one of its database, of every database, or itself.
Permits(p, ref, day) ==
    /\ p.valid >= day /\ ~p.deleted
    /\ \/ p.type = "db" /\ p.db \in {ref.db, AnyDb}
       \/ p.type = "table" /\ p.db = ref.db /\ p.name = ref.name

InForce(rows, ref, day) ==
    {rows[k].limit : k \in {j \in DOMAIN rows : Permits(rows[j], ref, day)}}

----------------------------------------------------------------------------
Pick(a, b) == IF a <= b THEN a ELSE b

\* limit_num = min(priv_limit, limit_num) if limit_num else priv_limit, and the
\* two limits of _priv_limit are combined in the same way.
Limited(limit, found) == IF limit # 0 THEN Pick(found, limit) ELSE found

LookUp(c, phase, ref, type) ==
    [c EXCEPT !.pc = "exists", !.phase = phase, !.ref = ref, !.type = type]

\* Mutant: one table too many.
SettledPastEnd(c) ==
    IF c.ref <= Len(TableRef)
    THEN LookUp(c, c.phase, c.ref + 1, "db")
    ELSE IF c.phase = "priv"
    THEN LookUp(c, "limit", 1, "db")
    ELSE [c EXCEPT !.pc = "allowed"]

\* The table is settled: the next one, the second loop, or the result.
Settled(c) ==
    IF c.ref < Len(TableRef)
    THEN LookUp(c, c.phase, c.ref + 1, "db")
    ELSE IF c.phase = "priv"
    THEN LookUp(c, "limit", 1, "db")
    ELSE [c EXCEPT !.pc = "allowed"]

\* Mutant: a database privilege hides the table's limit.
LimitFoundDbOnly(c, found) ==
    LET both == IF c.db # 0 THEN c.db ELSE found IN
      IF both = 0
      THEN [c EXCEPT !.pc = "error"]
      ELSE Settled([c EXCEPT !.limit = Limited(c.limit, both)])

\* _priv_limit, when both look-ups are done: `found' is the table's limit.
LimitFound(c, found) ==
    LET both == IF found # 0 THEN Limited(c.db, found) ELSE c.db IN
      IF both = 0
      THEN [c EXCEPT !.pc = "error"]
      ELSE Settled([c EXCEPT !.limit = Limited(c.limit, both)])

\* The look-up in progress returned `found'.
Answered(c, found) ==
    LET byTable == TableRef[c.ref].name # NoTable IN
      CASE c.phase = "priv" /\ found # 0 -> Settled(c)
        [] c.phase = "priv" /\ found = 0 /\ c.type = "db" /\ byTable ->
             LookUp(c, "priv", c.ref, "table")
        [] c.phase = "priv" /\ found = 0 /\ ~(c.type = "db" /\ byTable) ->
             [c EXCEPT !.pc = "refused"]
        [] c.phase = "limit" /\ c.type = "db" /\ byTable ->
             LookUp([c EXCEPT !.db = found], "limit", c.ref, "table")
        [] c.phase = "limit" /\ c.type = "db" /\ ~byTable ->
             LimitFound([c EXCEPT !.db = found], 0)
        [] c.phase = "limit" /\ c.type = "table" ->
             LimitFound(c, found)

----------------------------------------------------------------------------
\* query_priv_check is called; the limit starts from what the user asked for.
Start ==
    /\ check.pc = "idle"
    /\ \E asked \in Asked :
         check' = [LookUp(check, "priv", 1, "db") EXCEPT
                     !.limit = asked, !.asked = asked, !.began = today, !.steady = TRUE]
    /\ seen' = [i \in Refs |-> InForce(privileges, TableRef[i], today)]
    /\ UNCHANGED <<privileges, today, changes>>

\* exists(), and the date that both queries of the look-up compare with.
Exists ==
    /\ check.pc = "exists"
    /\ LET c == [check EXCEPT !.since = today] IN
         check' = IF UserPrivileges(privileges, TableRef[c.ref], c.type, today) = {}
                  THEN Answered(c, 0)
                  ELSE [c EXCEPT !.pc = "first"]
    /\ UNCHANGED <<privileges, today, changes, seen>>

\* first().limit_num: when the row has gone since, first() is None.
First ==
    /\ check.pc = "first"
    /\ LET found == UserPrivileges(privileges, TableRef[check.ref], check.type, check.since) IN
         check' = IF found = {}
                  THEN [check EXCEPT !.pc = "error"]
                  ELSE Answered(check, privileges[FirstOf(found)].limit)
    /\ UNCHANGED <<privileges, today, changes, seen>>

----------------------------------------------------------------------------
\* What others do to the table, and what the history takes down of it.
Change ==
    /\ changes < MaxChanges
    /\ changes' = changes + 1
    /\ check.pc \in {"idle", "exists", "first"}
    /\ check' = [check EXCEPT !.steady = FALSE]
    /\ seen' = [i \in Refs |-> seen[i] \cup InForce(privileges', TableRef[i], check.began)]

\* The call-back of an approved application.
Insert ==
    /\ Len(privileges) < MaxPrivileges
    /\ \E ref \in Range(TableRef), db \in BOOLEAN, any \in BOOLEAN, valid \in Days, limit \in Limits :
         /\ db \/ (ref.name # NoTable /\ ~any)
         /\ privileges' = Append(privileges,
                [type    |-> IF db THEN "db" ELSE "table",
                 db      |-> IF any THEN AnyDb ELSE ref.db,
                 name    |-> IF db THEN NoTable ELSE ref.name,
                 valid   |-> valid, limit |-> limit, deleted |-> FALSE])
    /\ Change
    /\ UNCHANGED today

\* query_priv_modify, type 1.
Delete ==
    /\ \E k \in DOMAIN privileges :
         /\ ~privileges[k].deleted
         /\ privileges' = [privileges EXCEPT ![k].deleted = TRUE]
    /\ Change
    /\ UNCHANGED today

\* query_priv_modify, type 2; it does not look at is_deleted.
Modify ==
    /\ \E k \in DOMAIN privileges, valid \in Days, limit \in Limits :
         privileges' = [privileges EXCEPT ![k].valid = valid, ![k].limit = limit]
    /\ Change
    /\ UNCHANGED today

NextDay ==
    /\ today < MaxDay
    /\ today' = today + 1
    /\ UNCHANGED privileges
    /\ Change

Next == Start \/ Exists \/ First \/ Insert \/ Delete \/ Modify \/ NextDay

Spec == Init /\ [][Next]_vars

----------------------------------------------------------------------------
(***************************************************************************)
(* Properties.                                                             *)
(***************************************************************************)
Allowed == check.pc = "allowed"

AskedLimit == IF check.asked = 0 THEN {} ELSE {check.asked}

\* Whatever happens to the privileges during the check, the limit of an allowed
\* query is the one asked for or one that was in force for a table since the check
\* began, is no larger than what was asked for, and for each table of the query
\* there was a privilege in force with a limit at least as large.  (The engines
\* take a limit below 0 for none: nothing here says that limits are positive.)
LimitCovered ==
    Allowed =>
        /\ check.limit # 0
        /\ check.limit \in AskedLimit \cup UNION {seen[i] : i \in Refs}
        /\ check.asked # 0 => check.limit <= check.asked
        /\ \A i \in Refs : \E l \in seen[i] : check.limit <= l

CoveredUpTo(c, s, n) == \A i \in 1 .. n : c.limit # 0 /\ \E l \in s[i] : c.limit <= l

WithinAsked(c, s) ==
    /\ c.asked # 0 => c.limit # 0 /\ c.limit <= c.asked
    /\ c.limit \in {c.asked} \cup UNION {s[i] : i \in Refs}

CheckCovered(c, s) ==
    /\ WithinAsked(c, s)
    /\ c.phase = "limit" /\ c.pc \in {"exists", "first"} =>
         /\ CoveredUpTo(c, s, c.ref - 1)
         /\ c.type = "table" /\ c.db # 0 => c.db \in s[c.ref]
    /\ c.pc = "allowed" => CoveredUpTo(c, s, Len(TableRef))

\* What makes it inductive: what has been settled in the second loop is covered,
\* the database's limit in hand was in force, and the history has every limit
\* that a look-up may find, whose date is not before the check began.
Covered ==
    /\ CheckCovered(check, seen)
    /\ check.pc # "idle" => check.began <= today
    /\ check.pc = "first" => check.began <= check.since
    /\ check.pc \in {"exists", "first"} =>
         \A i \in Refs : InForce(privileges, TableRef[i], check.began) \subseteq seen[i]

----------------------------------------------------------------------------
(***************************************************************************)
(* The reference: what the check is to answer when nothing changes during  *)
(* it.  FirstLimits(i) are the limits of the first database privilege and  *)
(* of the first table privilege of the table; a limit of 0 is taken for    *)
(* no privilege.                                                           *)
(***************************************************************************)
Held(i) == InForce(privileges, TableRef[i], today)

FirstLimits(i) ==
    {privileges[FirstOf(found)].limit :
        found \in {UserPrivileges(privileges, TableRef[i], type, today) : type \in {"db", "table"}} \ {{}}}
    \ {0}

EveryLimited == \A k \in DOMAIN privileges : privileges[k].limit # 0

\* A steady check never fails, refuses exactly when a table has no first limit (no
\* privilege in force at all, unless a limit is 0), and limits by the smallest of
\* the first limits and of what was asked for.
SteadyAnswer ==
    check.steady /\ check.pc \in {"allowed", "refused", "error"} =>
        /\ check.pc # "error"
        /\ check.pc = "refused" <=> \E i \in Refs : FirstLimits(i) = {}
        /\ EveryLimited => (check.pc = "refused" <=> \E i \in Refs : Held(i) = {})
        /\ Allowed => check.limit = Min(AskedLimit \cup UNION {FirstLimits(i) : i \in Refs})

\* _priv_limit's docstring: the smallest limit of the privileges the user has.
LimitIsSmallest ==
    check.steady /\ Allowed => \A i \in Refs : \A l \in Held(i) : check.limit <= l

=============================================================================
