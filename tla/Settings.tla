------------------------------ MODULE Settings ------------------------------
(***************************************************************************)
(* The system settings (SysConfig of common/config.py).  Requests and      *)
(* tasks build an object each, which asks the table for a setting when it  *)
(* is first needed and remembers the answer.  A superuser replaces the     *)
(* whole table: one transaction deletes every row and inserts those he     *)
(* posted; it fails as a whole, for an item posted twice for example.      *)
(*                                                                         *)
(* Abstracted: of a value, whether it is true or a text (Yes and Other),   *)
(* false (No), or blank.  set() and a purge() outside replace() are called *)
(* by the tests only and left out, as is get_all_config(), whose result no *)
(* object asks for again.                                                  *)
(***************************************************************************)
EXTENDS Integers

CONSTANTS
    Keys,        \* settings
    Default,     \* the caller's default_value: get() found nothing
    Readers,     \* objects of requests and tasks at the same time
    MaxReplaces, \* bound: transactions of replace
    MaxOpened    \* bound: objects altogether

\* A default is told apart from what a row may answer.
ASSUME SettingsAssumption ==
    /\ MaxReplaces \in Nat
    /\ MaxOpened \in Nat
    /\ Default \notin {"yes", "other", "no"}

Absent == "absent"

Truthy == {"yes", "other"}

Entries == Truthy \cup {"no", "blank", Absent}

Answers == Truthy \cup {"no", Default}

VARIABLES
    config,    \* the committed rows of sql_config
    tx,        \* the transaction of replace in progress, with its own view
    replaces,
    cache,     \* sys_config of each object; Absent: not in the dictionary
    open, opened,
    answer,    \* the last answer each object gave for each setting
    seen       \* history: what was in force since the object was built

settingsVars == <<config, tx, replaces, cache, open, opened, answer, seen>>

NoTx == [pc |-> "none", rows |-> [k \in Keys |-> Absent]]

NoAnswer == "unasked"

SettingsTypeOK ==
    /\ config \in [Keys -> Entries]
    /\ tx \in [pc : {"none", "purged", "created"}, rows : [Keys -> Entries]]
    /\ replaces \in 0 .. MaxReplaces
    /\ cache \in [Readers -> [Keys -> Truthy \cup {"no", Absent}]]
    /\ open \subseteq Readers
    /\ opened \in 0 .. MaxOpened
    /\ answer \in [Readers -> [Keys -> Answers \cup {NoAnswer}]]
    /\ seen \in [Readers -> [Keys -> SUBSET Answers]]

EachReader(f) == [r \in Readers |-> [k \in Keys |-> f]]

SettingsInit ==
    /\ config \in [Keys -> {"yes", "no"}]
    /\ tx = NoTx
    /\ replaces = 0
    /\ cache = EachReader(Absent)
    /\ open = {}
    /\ opened = 0
    /\ answer = EachReader(NoAnswer)
    /\ seen = EachReader({})

----------------------------------------------------------------------------
InForce(entry) == IF entry \in {"blank", Absent} THEN Default ELSE entry

\* SysConfig(): a new object, with an empty dictionary.
Open(r) ==
    /\ r \notin open
    /\ opened < MaxOpened
    /\ open' = open \cup {r}
    /\ opened' = opened + 1
    /\ cache' = [cache EXCEPT ![r] = [k \in Keys |-> Absent]]
    /\ answer' = [answer EXCEPT ![r] = [k \in Keys |-> NoAnswer]]
    /\ seen' = [seen EXCEPT ![r] = [k \in Keys |-> {InForce(config[k])}]]
    /\ UNCHANGED <<config, tx, replaces>>

Close(r) ==
    /\ r \in open
    /\ open' = open \ {r}
    /\ UNCHANGED <<config, tx, replaces, cache, opened, answer, seen>>

\* The value get() goes on with: the row's, or else the remembered one.
Found(r, k) == IF config[k] # Absent THEN config[k] ELSE cache[r][k]

\* Mutant: blank settings are not replaced by the default.
GetBlank(r, k) ==
    LET value == IF cache[r][k] \in Truthy THEN cache[r][k] ELSE Found(r, k) IN
      /\ r \in open
      /\ cache' = [cache EXCEPT ![r][k] = value]
      /\ answer' = [answer EXCEPT ![r][k] = value]
      /\ UNCHANGED <<config, tx, replaces, open, opened, seen>>

\* Mutant: what the object remembers is not looked at.
GetUncached(r, k) ==
    /\ r \in open
    /\ answer' = [answer EXCEPT ![r][k] = InForce(config[k])]
    /\ UNCHANGED <<config, tx, replaces, cache, open, opened, seen>>

\* get: a remembered value is returned only if it is true; false ones are asked
\* for again.
Get(r, k) ==
    /\ r \in open
    /\ \/ /\ cache[r][k] \in Truthy
          /\ answer' = [answer EXCEPT ![r][k] = cache[r][k]]
          /\ UNCHANGED cache
       \/ /\ cache[r][k] \notin Truthy
          /\ Found(r, k) \in {"blank", Absent}
          /\ answer' = [answer EXCEPT ![r][k] = Default]
          /\ UNCHANGED cache
       \/ /\ cache[r][k] \notin Truthy
          /\ Found(r, k) \notin {"blank", Absent}
          /\ answer' = [answer EXCEPT ![r][k] = Found(r, k)]
          /\ cache' = [cache EXCEPT ![r][k] = Found(r, k)]
    /\ UNCHANGED <<config, tx, replaces, open, opened, seen>>

\* Mutant: the rows are deleted before the transaction.
PurgeOutside ==
    /\ tx.pc = "none"
    /\ replaces < MaxReplaces
    /\ replaces' = replaces + 1
    /\ tx' = [tx EXCEPT !.pc = "purged"]
    /\ config' = NoTx.rows
    /\ UNCHANGED <<cache, open, opened, answer, seen>>

\* replace: the rows are deleted; the locks on them make a second replace wait.
\* purge swallows an error, and its savepoint leaves the rows as they were.
Purge ==
    /\ tx.pc = "none"
    /\ replaces < MaxReplaces
    /\ replaces' = replaces + 1
    /\ \E rows \in {NoTx.rows, config} : tx' = [pc |-> "purged", rows |-> rows]
    /\ UNCHANGED <<config, cache, open, opened, answer, seen>>

\* The rows posted are inserted, stripped of blanks around them; an item that is
\* there already fails the insert.
BulkCreate ==
    /\ tx.pc = "purged"
    /\ \E posted \in [Keys -> Entries] :
         /\ \A k \in Keys : Absent \in {posted[k], tx.rows[k]}
         /\ tx' = [pc |-> "created",
                   rows |-> [k \in Keys |-> IF posted[k] = Absent THEN tx.rows[k] ELSE posted[k]]]
    /\ UNCHANGED <<config, replaces, cache, open, opened, answer, seen>>

Commit ==
    /\ tx.pc = "created"
    /\ config' = tx.rows
    /\ tx' = NoTx
    /\ seen' = [r \in Readers |-> [k \in Keys |-> seen[r][k] \cup {InForce(tx.rows[k])}]]
    /\ UNCHANGED <<replaces, cache, open, opened, answer>>

\* The posted text is no JSON, an item occurs twice, the database fails, or the
\* process ends.
Rollback ==
    /\ tx.pc # "none"
    /\ tx' = NoTx
    /\ UNCHANGED <<config, replaces, cache, open, opened, answer, seen>>

SettingsNext ==
    \/ \E r \in Readers : Open(r) \/ Close(r) \/ \E k \in Keys : Get(r, k)
    \/ Purge \/ BulkCreate \/ Commit \/ Rollback

SettingsSpec == SettingsInit /\ [][SettingsNext]_settingsVars

----------------------------------------------------------------------------
(***************************************************************************)
(* Properties.                                                             *)
(***************************************************************************)
\* Whatever a replace does meanwhile, and whether it fails: an object answers with
\* what was in force, after a successful replace, at some time since it was built;
\* never with a default because the rows were just deleted.
AnswersInForce ==
    \A r \in Readers, k \in Keys : answer[r][k] \in seen[r][k] \cup {NoAnswer}

\* A code path that asks twice cannot be told yes and then no: a true value stays
\* for the life of the object that answered it.
TrueStays ==
    [][\A r \in open, k \in Keys :
         answer[r][k] \in Truthy => answer'[r][k] = answer[r][k]]_settingsVars

=============================================================================
