-------------------------- MODULE InstanceAccount --------------------------
(***************************************************************************)
(* The accounts of a MySQL instance and the rows Archery keeps about them  *)
(* (sql/instance_account.py, with create_instance_user,                    *)
(* reset_instance_user_pwd, drop_instance_user and execute of the MySQL    *)
(* engine).  Every operation first changes the instance and then, in a     *)
(* statement of its own, the table instance_account; nothing joins the two.*)
(*                                                                         *)
(* The forms of reset, edit and delete post the row of a page that was     *)
(* loaded any time before.  create escapes user, host and password, and    *)
(* returns the escaped ones as the rows to save; reset and delete name     *)
(* the account, in backquotes, by its escaped user and host.               *)
(*                                                                         *)
(* Abstracted: an account is a user at a host; RowOf[a] is the name that   *)
(* escaping makes of it, Escape[p] what it makes of a password.  Left out: *)
(* an account named like the escaped form of another's name, grants and    *)
(* locks, which change the instance only, and Mongo, where create makes    *)
(* one account.                                                            *)
(***************************************************************************)
EXTENDS Integers

CONSTANTS
    Accounts,
    RowOf,        \* an account's escaped name: the account itself, if nothing is escaped
    Passwords,
    Escape,       \* a password's escaped form
    Blank,        \* the password of a row that edit made without one
    None,         \* no such account, no such row
    Posts,        \* requests in progress at the same time, which post a form each
    Ops,          \* the operations users call
    MaxPosts,     \* bound: requests begun altogether
    MaxDeaths     \* bound: requests killed in the middle

Operations == {"create", "reset", "delete", "edit"}

\* What the table may hold: names of accounts, and passwords, escaped or not.
Names == Accounts \cup {RowOf[a] : a \in Accounts}
Kept == Passwords \cup {Escape[p] : p \in Passwords}

ASSUME AccountAssumption ==
    /\ \A a \in Accounts : RowOf[a] \in Accounts => RowOf[a] = a
    /\ Ops \subseteq Operations
    /\ MaxPosts \in Nat
    /\ MaxDeaths \in Nat
    /\ Blank \notin Kept
    /\ None \notin Kept \cup {Blank}

VARIABLES
    instance,  \* the password of every account of the MySQL instance
    saved,     \* the password in the row of every name in instance_account
    page,      \* the list of accounts a user looks at
    post, posted, deaths,
    known      \* history: passwords the account had, or that edit recorded

accountVars == <<instance, saved, page, post, posted, deaths, known>>

Pcs == {"idle", "list", "create", "createSave", "reset", "resetSave", "delete", "deleteSave",
        "edit", "error"}

\* The accounts listed, and the names that had a row.
Page == [listed : SUBSET Accounts, rows : SUBSET Names]

NoPage == [listed |-> {}, rows |-> {}]

\* todo: the hosts whose statement create has not executed; shown: the page showed
\* a row.
Post == [pc : Pcs, accounts : SUBSET Accounts, todo : SUBSET Accounts,
         password : Passwords \cup {Blank}, shown : BOOLEAN]

NoPost == [pc |-> "idle", accounts |-> {}, todo |-> {}, password |-> Blank,
           shown |-> FALSE]

AccountTypeOK ==
    /\ instance \in [Accounts -> Passwords \cup {None}]
    /\ saved \in [Names -> Kept \cup {Blank, None}]
    /\ page \in [Posts -> Page]
    /\ post \in [Posts -> Post]
    /\ posted \in 0 .. MaxPosts
    /\ deaths \in 0 .. MaxDeaths
    /\ known \in [Accounts -> SUBSET (Passwords \cup {Blank})]

AccountInit ==
    /\ instance = [a \in Accounts |-> None]
    /\ saved = [n \in Names |-> None]
    /\ page = [r \in Posts |-> NoPage]
    /\ post = [r \in Posts |-> NoPost]
    /\ posted = 0
    /\ deaths = 0
    /\ known = [a \in Accounts |-> {}]

----------------------------------------------------------------------------
Goto(r, pc) == post' = [post EXCEPT ![r].pc = pc]

Finish(r) == post' = [post EXCEPT ![r] = NoPost]

\* users reads the rows first, and then the accounts of the instance.
UserRows(r) ==
    /\ post[r].pc = "idle"
    /\ page' = [page EXCEPT ![r] = [listed |-> {}, rows |-> {n \in Names : saved[n] # None}]]
    /\ Goto(r, "list")
    /\ UNCHANGED <<instance, saved, posted, deaths, known>>

UserList(r) ==
    /\ post[r].pc = "list"
    /\ page' = [page EXCEPT ![r].listed = {a \in Accounts : instance[a] # None}]
    /\ Goto(r, "idle")
    /\ UNCHANGED <<instance, saved, posted, deaths, known>>

\* The form is complete: reset_pwd needs a password, edit does not, delete has none.
Complete(op, p) == (op = "reset" => p # Blank) /\ (op = "delete" => p = Blank)

Begin(r) ==
    /\ post[r].pc = "idle"
    /\ posted < MaxPosts
    /\ posted' = posted + 1
    /\ \/ \E hosts \in SUBSET Accounts \ {{}}, p \in Passwords :
            /\ "create" \in Ops
            /\ post' = [post EXCEPT ![r] =
                 [pc |-> "create", accounts |-> hosts, todo |-> hosts, password |-> p,
                  shown |-> FALSE]]
       \/ \E op \in Ops \ {"create"}, a \in page[r].listed, p \in Passwords \cup {Blank} :
            /\ Complete(op, p)
            /\ post' = [post EXCEPT ![r] =
                 [pc |-> op, accounts |-> {a}, todo |-> {}, password |-> p,
                  shown |-> a \in page[r].rows]]
    /\ UNCHANGED <<instance, saved, page, deaths, known>>

SetPassword(a, p) ==
    /\ instance' = [instance EXCEPT ![a] = p]
    /\ known' = [known EXCEPT ![a] = @ \cup {p}]

\* One statement of create_instance_user: MySQL commits every CREATE USER, and the
\* first that fails ends the request.
Create(r) ==
    /\ post[r].pc = "create"
    /\ \E a \in post[r].todo :
         \/ /\ instance[a] = None
            /\ SetPassword(a, post[r].password)
            /\ post' = [post EXCEPT ![r] =
                 [post[r] EXCEPT !.todo = post[r].todo \ {a},
                    !.pc = IF post[r].todo = {a} THEN "createSave" ELSE "create"]]
         \/ /\ instance[a] # None
            /\ Goto(r, "error")
            /\ UNCHANGED <<instance, known>>
    /\ UNCHANGED <<saved, page, posted, deaths>>

\* bulk_create: all the rows, of escaped names with the escaped password, or, when
\* one of them exists, none.
CreateSave(r) ==
    /\ post[r].pc = "createSave"
    /\ LET rows == {RowOf[a] : a \in post[r].accounts}
       IN  \/ /\ \A n \in rows : saved[n] = None
              /\ saved' = [n \in Names |->
                             IF n \in rows THEN Escape[post[r].password] ELSE saved[n]]
              /\ Finish(r)
           \/ /\ \E n \in rows : saved[n] # None
              /\ Goto(r, "error")
              /\ UNCHANGED saved
    /\ UNCHANGED <<instance, page, posted, deaths, known>>

\* The account a statement of reset or delete means is there: the name is not
\* changed by escaping.
Found(a) == instance[a] # None /\ RowOf[a] = a

\* Mutant: the new password is saved although ALTER USER failed.
ResetUnchecked(r) ==
    /\ post[r].pc = "reset"
    /\ \E a \in post[r].accounts :
         \/ /\ Found(a)
            /\ SetPassword(a, post[r].password)
         \/ /\ ~Found(a)
            /\ UNCHANGED <<instance, known>>
    /\ Goto(r, "resetSave")
    /\ UNCHANGED <<saved, page, posted, deaths>>

\* ALTER USER, which fails for an account that is gone.
Reset(r) ==
    /\ post[r].pc = "reset"
    /\ \E a \in post[r].accounts :
         \/ /\ Found(a)
            /\ SetPassword(a, post[r].password)
            /\ Goto(r, "resetSave")
         \/ /\ ~Found(a)
            /\ Goto(r, "error")
            /\ UNCHANGED <<instance, known>>
    /\ UNCHANGED <<saved, page, posted, deaths>>

ResetSave(r) ==
    /\ post[r].pc = "resetSave"
    /\ \E a \in post[r].accounts : saved' = [saved EXCEPT ![a] = post[r].password]
    /\ Finish(r)
    /\ UNCHANGED <<instance, page, posted, deaths, known>>

\* DROP USER, which fails for an account that is gone.
Delete(r) ==
    /\ post[r].pc = "delete"
    /\ \E a \in post[r].accounts :
         \/ /\ Found(a)
            /\ instance' = [instance EXCEPT ![a] = None]
            /\ Goto(r, "deleteSave")
         \/ /\ ~Found(a)
            /\ Goto(r, "error")
            /\ UNCHANGED instance
    /\ UNCHANGED <<saved, page, posted, deaths, known>>

\* Mutant: the row stays.
DeleteSaveNothing(r) ==
    /\ post[r].pc = "deleteSave"
    /\ Finish(r)
    /\ UNCHANGED <<instance, saved, page, posted, deaths, known>>

\* The row is looked up by the db_name of the row the page showed: without one the
\* request has none, and finds no row.
DeleteSave(r) ==
    /\ post[r].pc = "deleteSave"
    /\ \E a \in post[r].accounts :
         saved' = IF post[r].shown THEN [saved EXCEPT ![a] = None] ELSE saved
    /\ Finish(r)
    /\ UNCHANGED <<instance, page, posted, deaths, known>>

\* Mutant: without a password the row's is emptied.
EditBlanks(r) ==
    /\ post[r].pc = "edit"
    /\ \E a \in post[r].accounts :
         /\ saved' = [saved EXCEPT ![a] = post[r].password]
         /\ known' = [known EXCEPT ![a] = @ \cup {post[r].password}]
    /\ Finish(r)
    /\ UNCHANGED <<instance, page, posted, deaths>>

\* edit records a password, or only the remark, whatever the instance says.
Edit(r) ==
    /\ post[r].pc = "edit"
    /\ \E a \in post[r].accounts :
         \/ /\ post[r].password # Blank \/ saved[a] = None
            /\ saved' = [saved EXCEPT ![a] = post[r].password]
            /\ known' = [known EXCEPT ![a] = @ \cup {post[r].password}]
         \/ /\ post[r].password = Blank /\ saved[a] # None
            /\ UNCHANGED <<saved, known>>
    /\ Finish(r)
    /\ UNCHANGED <<instance, page, posted, deaths>>

\* The error is reported.
Error(r) ==
    /\ post[r].pc = "error"
    /\ Finish(r)
    /\ UNCHANGED <<instance, saved, page, posted, deaths, known>>

PostDies(r) ==
    /\ post[r].pc # "idle"
    /\ deaths < MaxDeaths
    /\ deaths' = deaths + 1
    /\ Finish(r)
    /\ UNCHANGED <<instance, saved, page, posted, known>>

AccountNext ==
    \E r \in Posts :
      \/ UserRows(r) \/ UserList(r) \/ Begin(r) \/ Create(r) \/ CreateSave(r)
      \/ Reset(r) \/ ResetSave(r) \/ Delete(r) \/ DeleteSave(r) \/ Edit(r) \/ Error(r) \/ PostDies(r)

AccountSpec == AccountInit /\ [][AccountNext]_accountVars

----------------------------------------------------------------------------
(***************************************************************************)
(* Properties.                                                             *)
(***************************************************************************)
\* The forms in which a password that a user gave may be kept.
Forms(p) == {p} \cup {Escape[q] : q \in Passwords \cap {p}}

\* However requests overlap, and wherever one dies: what Archery keeps for an
\* account is, escaped or not, a password the account had at some time, or one a
\* user recorded for it.
Real(n) ==
    \E a \in Accounts : n \in {a, RowOf[a]} /\ \E p \in known[a] : saved[n] \in Forms(p)

SavedWasReal == \A n \in Names : saved[n] # None => Real(n)

\* No request is in progress; a list that loads changes nothing.
Resting == {"idle", "list"}

Quiet == \A r \in Posts : post[r].pc \in Resting

\* Between requests a row under the name of an account is that of an account of the
\* instance, with its password, escaped or not.
Agrees(a) == saved[a] = None \/ (instance[a] # None /\ saved[a] \in Forms(instance[a]))

SavedAgrees == Quiet => \A a \in Accounts : Agrees(a)

\* What the field 密码 (password) of a row holds is a password as a user gave it.
SavedIsPassword ==
    \A n \in Names : saved[n] \in Passwords \cup {Blank, None}

\* Only a delete takes a recorded password away: no edit of the remark, failed
\* create or failed reset loses one.
RecordsStay ==
    [][\A n \in Names :
         saved[n] \in Kept /\ saved'[n] \notin Kept =>
           \E r \in Posts : post[r].pc = "deleteSave" /\ n \in post[r].accounts]_accountVars

\* mysql.py's comment: the accounts of one create are made in one transaction.
CreateIsOneTransaction ==
    \A r \in Posts :
      post[r].pc = "error" /\ post[r].todo # {} => post[r].todo = post[r].accounts

=============================================================================
