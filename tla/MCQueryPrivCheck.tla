-------------------------- MODULE MCQueryPrivCheck --------------------------
(***************************************************************************)
(* Instances of QueryPrivCheck: a MySQL query over two tables of two       *)
(* databases, or one on another engine over two databases.                 *)
(***************************************************************************)
EXTENDS QueryPrivCheck

CONSTANTS d1, d2, t1, t2

TwoTables == <<[db |-> d1, name |-> t1], [db |-> d2, name |-> t2]>>

OneTable == <<[db |-> d1, name |-> t1]>>

TwoDatabases == <<[db |-> d1, name |-> NoTable], [db |-> d2, name |-> NoTable]>>

\* Limits are whatever integers were typed in: none, below 0, and above.
SomeLimits == {-1, 0, 3}

SomeAsked == {-2, 0, 2}

FewLimits == {-1, 2}

OnlyNone == {0}

\* What an answer that limits the query would need: mysql.py:525 fetches all rows
\* when the limit is not above 0.
AllowedIsPositive == Allowed => check.limit > 0

=============================================================================
