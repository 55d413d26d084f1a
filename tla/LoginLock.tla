----------------------------- MODULE LoginLock -----------------------------
(***************************************************************************)
(* The lock of an account after failed logins (ArcheryAuth of              *)
(* common/auth.py and Users.save of sql/models.py).  A login reads the     *)
(* user's row, looks at the lock, has the password checked, and saves the  *)
(* whole row: the copy it read when the login failed, and the copy that    *)
(* the authentication backend read when it succeeded.                      *)
(*                                                                         *)
(* Abstracted: one existing user; of the row, the two columns of the lock; *)
(* two-factor authentication, which comes after this.                      *)
(***************************************************************************)
EXTENDS Integers

CONSTANTS
    Requests,    \* logins in progress at the same time
    LockCount,   \* the setting lock_cnt_threshold
    LockTime,    \* the setting lock_time_threshold
    MaxCount,    \* what Users.save caps failed_login_count to (127)
    Never,       \* last_login_failed_at of a user who never failed
    MaxNow,      \* bound: the clock
    MaxLogins    \* bound: logins altogether

ASSUME LoginAssumption ==
    /\ LockCount \in Nat \ {0}
    /\ LockTime \in Nat
    /\ MaxCount \in Nat
    /\ MaxNow \in Nat
    /\ MaxLogins \in Nat
    /\ Never \notin Int

VARIABLES
    now,
    user,      \* the row of the user
    req,
    begun,
    failures,  \* history: failed logins
    streak,    \* history: those since the last success, or the end of a lock
    last       \* history: the time of the last failed login

vars == <<now, user, req, begun, failures, streak, last>>

Users == [count : 0 .. MaxCount, failedAt : Nat \cup {Never}]

Fresh == [count |-> 0, failedAt |-> Never]

Pcs == {"idle", "look", "challenge", "succeeded", "failed", "refused"}

TypeOK ==
    /\ now \in 0 .. MaxNow
    /\ user \in Users
    /\ req \in [Requests -> [pc : Pcs, user : Users]]
    /\ begun \in 0 .. MaxLogins
    /\ failures \in Nat
    /\ streak \in Nat
    /\ last \in Nat \cup {Never}

Init ==
    /\ now = 0
    /\ user = Fresh
    /\ req = [r \in Requests |-> [pc |-> "idle", user |-> Fresh]]
    /\ begun = 0
    /\ failures = 0
    /\ streak = 0
    /\ last = Never

----------------------------------------------------------------------------
Goto(r, pc, copy) == req' = [req EXCEPT ![r] = [pc |-> pc, user |-> copy]]

\* Users.save
Saved(copy) == [copy EXCEPT !.count = IF @ <= MaxCount THEN @ ELSE MaxCount]

\* Users.objects.get
Begin(r) ==
    /\ req[r].pc = "idle"
    /\ begun < MaxLogins
    /\ begun' = begun + 1
    /\ Goto(r, "look", user)
    /\ UNCHANGED <<now, user, failures, streak, last>>

\* Mutant: one failure more is let through.
CountReachedLate(copy) == copy.failedAt # Never /\ copy.count > LockCount

CountReached(copy) == copy.failedAt # Never /\ copy.count >= LockCount

StillLocked(copy) == CountReached(copy) /\ copy.failedAt + LockTime > now

\* Is the account locked?  A lock that is over is taken off the row.
Look(r) ==
    LET copy == req[r].user IN
      /\ req[r].pc = "look"
      /\ \/ /\ StillLocked(copy)
            /\ Goto(r, "refused", copy)
            /\ UNCHANGED <<user, streak>>
         \/ /\ CountReached(copy)
            /\ ~StillLocked(copy)
            /\ user' = [copy EXCEPT !.count = 0]
            /\ streak' = 0
            /\ Goto(r, "challenge", user')
         \/ /\ ~CountReached(copy)
            /\ Goto(r, "challenge", copy)
            /\ UNCHANGED <<user, streak>>
      /\ UNCHANGED <<now, begun, failures, last>>

\* authenticate(): the backend reads the row again, and the password is right
\* or wrong.
Challenge(r) ==
    /\ req[r].pc = "challenge"
    /\ \/ Goto(r, "succeeded", user)
       \/ Goto(r, "failed", req[r].user)
    /\ UNCHANGED <<now, user, begun, failures, streak, last>>

Succeed(r) ==
    /\ req[r].pc = "succeeded"
    /\ user' = [req[r].user EXCEPT !.count = 0]
    /\ streak' = 0
    /\ Goto(r, "idle", Fresh)
    /\ UNCHANGED <<now, begun, failures, last>>

\* Mutant: the failure counts twice.
FailTwice(r) ==
    /\ req[r].pc = "failed"
    /\ user' = Saved([count |-> req[r].user.count + 2, failedAt |-> now])
    /\ failures' = failures + 1
    /\ streak' = streak + 1
    /\ last' = now
    /\ Goto(r, "idle", Fresh)
    /\ UNCHANGED <<now, begun>>

Fail(r) ==
    /\ req[r].pc = "failed"
    /\ user' = Saved([count |-> req[r].user.count + 1, failedAt |-> now])
    /\ failures' = failures + 1
    /\ streak' = streak + 1
    /\ last' = now
    /\ Goto(r, "idle", Fresh)
    /\ UNCHANGED <<now, begun>>

Refused(r) ==
    /\ req[r].pc = "refused"
    /\ Goto(r, "idle", Fresh)
    /\ UNCHANGED <<now, user, begun, failures, streak, last>>

Tick ==
    /\ now < MaxNow
    /\ now' = now + 1
    /\ UNCHANGED <<user, req, begun, failures, streak, last>>

Next ==
    \/ \E r \in Requests :
         Begin(r) \/ Look(r) \/ Challenge(r) \/ Succeed(r) \/ Fail(r) \/ Refused(r)
    \/ Tick

Spec == Init /\ [][Next]_vars

----------------------------------------------------------------------------
(***************************************************************************)
(* Properties.                                                             *)
(***************************************************************************)
Justified(copy) ==
    /\ copy.count <= failures
    /\ copy.failedAt # Never => last # Never /\ copy.failedAt <= last

\* However logins overlap, and whichever copy is saved last: an account is locked
\* only when the user failed as often as it takes, and for no longer than
\* LockTime from the last failure.
LockJustified == Justified(user) /\ \A r \in Requests : Justified(req[r].user)

Locking == streak >= LockCount /\ last + LockTime > now

\* config.html's placeholder: after so many failed logins the account is locked.
LocksAtThreshold ==
    [][\A r \in Requests :
         req[r].pc = "look" /\ req'[r].pc # "look" /\ Locking =>
           req'[r].pc = "refused"]_vars

=============================================================================
