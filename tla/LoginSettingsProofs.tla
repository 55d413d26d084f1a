------------------------ MODULE LoginSettingsProofs ------------------------
(***************************************************************************)
(* Proofs about LoginLock, for any threshold, any cap and any number of    *)
(* overlapping logins; and about Settings, where its threshold comes from, *)
(* for any settings, any number of objects that read them and any number   *)
(* of transactions that replace them.                                      *)
(***************************************************************************)
EXTENDS LoginLockHistory, Settings, TLAPS

IInv ==
    /\ TypeOK
    /\ LockJustified
    /\ last # Never => last <= now

\* A row, or a copy of one, is justified by a number of failures and the time of
\* the last.
By(copy, n, t) ==
    /\ copy.count <= n
    /\ copy.failedAt # Never => t # Never /\ copy.failedAt <= t

LEMMA ByJustified == \A copy : Justified(copy) <=> By(copy, failures, last)
BY DEF Justified, By

\* The invariant with its names expanded.
LEMMA Now ==
    ASSUME IInv
    PROVE  /\ now \in 0 .. MaxNow /\ now \in Nat
           /\ user \in Users /\ By(user, failures, last)
           /\ \A r \in Requests :
                /\ req[r] \in [pc : Pcs, user : Users]
                /\ req[r].user \in Users /\ By(req[r].user, failures, last)
           /\ req \in [Requests -> [pc : Pcs, user : Users]]
           /\ begun \in 0 .. MaxLogins /\ failures \in Nat /\ streak \in Nat
           /\ last \in Nat \cup {Never} /\ (last # Never => last \in Nat /\ last <= now)
BY ByJustified, LoginAssumption DEF IInv, TypeOK, LockJustified

LEMMA FreshBy ==
    ASSUME NEW n \in Nat, NEW t
    PROVE  Fresh \in Users /\ By(Fresh, n, t)
BY LoginAssumption DEF Fresh, Users, By

LEMMA InitIInv == Init => IInv
<1> SUFFICES ASSUME Init PROVE IInv
  OBVIOUS
<1>1. Fresh \in Users /\ Justified(Fresh)
  BY FreshBy, ByJustified DEF Init
<1>2. TypeOK
  BY <1>1, LoginAssumption DEF Init, TypeOK, Pcs
<1>3. LockJustified
  BY <1>1 DEF Init, LockJustified
<1> QED BY <1>2, <1>3 DEF Init, IInv

\* What is justified stays so when there are more and later failures.
LEMMA ByGrows ==
    ASSUME NEW copy \in Users, NEW n \in Nat, NEW m \in Nat, n <= m,
           NEW t \in Nat \cup {Never}, NEW u \in Nat \cup {Never},
           t # Never => u # Never /\ t <= u,
           By(copy, n, t)
    PROVE  By(copy, m, u)
BY LoginAssumption DEF By, Users

\* A login's step: its state is replaced, and the row is as justified as it.
LEMMA StepIInv ==
    ASSUME IInv,
           NEW r \in Requests, NEW pc \in Pcs, NEW copy \in Users,
           Goto(r, pc, copy),
           now' = now, user' \in Users, begun' \in 0 .. MaxLogins, streak' \in Nat,
           failures' \in Nat, failures <= failures',
           \/ UNCHANGED last
           \/ last' = now,
           By(user', failures', last'), By(copy, failures', last')
    PROVE  IInv'
<1>1. /\ last' \in Nat \cup {Never} /\ (last' # Never => last' <= now')
      /\ (last # Never => last' # Never /\ last <= last')
  BY Now, LoginAssumption
<1>2. TypeOK'
  BY <1>1, Now DEF TypeOK, Goto
<1>3. ASSUME NEW q \in Requests PROVE By(req'[q].user, failures', last')
  <2>1. CASE q = r
    BY <2>1, Now DEF Goto
  <2>2. CASE q # r
    <3>1. req'[q] = req[q]
      BY <2>2, Now DEF Goto
    <3> QED BY <3>1, <1>1, Now, ByGrows
  <2> QED BY <2>1, <2>2
<1>4. LockJustified'
  BY <1>3 DEF LockJustified, Justified, By
<1> QED BY <1>1, <1>2, <1>4 DEF IInv

LEMMA NextIInv == IInv /\ [Next]_vars => IInv'
<1> SUFFICES ASSUME IInv, [Next]_vars PROVE IInv'
  OBVIOUS
<1>1. ASSUME NEW r \in Requests, Begin(r) PROVE IInv'
  <2>1. Goto(r, "look", user) /\ begun' \in 0 .. MaxLogins
        /\ UNCHANGED <<now, user, failures, streak, last>>
    BY <1>1, Now, LoginAssumption DEF Begin
  <2> QED BY <2>1, Now, StepIInv DEF Pcs
<1>2. ASSUME NEW r \in Requests, Look(r) PROVE IInv'
  <2> DEFINE copy == req[r].user
             free == [copy EXCEPT !.count = 0]
  <2>1. copy \in Users /\ By(copy, failures, last)
    BY Now
  <2>2. free \in Users /\ By(free, failures, last)
    BY <2>1, Now, LoginAssumption DEF Users, By
  <2>3. UNCHANGED <<now, begun, failures, last>>
    BY <1>2 DEF Look
  <2>4. \/ \E pc \in Pcs : Goto(r, pc, copy) /\ UNCHANGED <<user, streak>>
        \/ Goto(r, "challenge", free) /\ user' = free /\ streak' = 0
    BY <1>2 DEF Look, Pcs
  <2> HIDE DEF copy, free
  <2>5. CASE \E pc \in Pcs : Goto(r, pc, copy) /\ UNCHANGED <<user, streak>>
    BY <2>1, <2>3, <2>5, Now, StepIInv
  <2>6. CASE Goto(r, "challenge", free) /\ user' = free /\ streak' = 0
    BY <2>2, <2>3, <2>6, Now, StepIInv DEF Pcs
  <2> QED BY <2>4, <2>5, <2>6
<1>3. ASSUME NEW r \in Requests, Challenge(r) PROVE IInv'
  <2>1. /\ Goto(r, "succeeded", user) \/ Goto(r, "failed", req[r].user)
        /\ UNCHANGED <<now, user, begun, failures, streak, last>>
    BY <1>3 DEF Challenge
  <2> QED BY <2>1, Now, StepIInv DEF Pcs
<1>4. ASSUME NEW r \in Requests, Succeed(r) PROVE IInv'
  <2> DEFINE free == [req[r].user EXCEPT !.count = 0]
  <2>1. free \in Users /\ By(free, failures, last)
    BY Now, LoginAssumption DEF Users, By
  <2>2. /\ user' = free /\ streak' = 0 /\ Goto(r, "idle", Fresh)
        /\ UNCHANGED <<now, begun, failures, last>>
    BY <1>4 DEF Succeed
  <2> HIDE DEF free
  <2> QED BY <2>1, <2>2, Now, FreshBy, StepIInv DEF Pcs
<1>5. ASSUME NEW r \in Requests, Fail(r) PROVE IInv'
  <2> DEFINE new == Saved([count |-> req[r].user.count + 1, failedAt |-> now])
  <2>1. /\ user' = new /\ failures' = failures + 1 /\ streak' = streak + 1
        /\ last' = now /\ Goto(r, "idle", Fresh) /\ UNCHANGED <<now, begun>>
    BY <1>5 DEF Fail
  <2>2. req[r].user.count \in 0 .. MaxCount /\ req[r].user.count <= failures
    BY Now DEF Users, By
  <2>3. now \in Nat /\ now # Never
    BY Now, LoginAssumption
  <2>4. new \in Users /\ By(new, failures + 1, now)
    BY <2>2, <2>3, Now, LoginAssumption DEF Saved, Users, By
  <2> HIDE DEF new
  <2> QED BY <2>1, <2>4, Now, FreshBy, StepIInv DEF Pcs
<1>6. ASSUME NEW r \in Requests, Refused(r) PROVE IInv'
  <2>1. Goto(r, "idle", Fresh) /\ UNCHANGED <<now, user, begun, failures, streak, last>>
    BY <1>6 DEF Refused
  <2> QED BY <2>1, Now, FreshBy, StepIInv DEF Pcs
<1>7. ASSUME Tick PROVE IInv'
  <2>1. now' \in 0 .. MaxNow /\ now <= now' /\ now' \in Nat
        /\ UNCHANGED <<user, req, begun, failures, streak, last>>
    BY <1>7, Now, LoginAssumption DEF Tick
  <2>2. last' # Never => last' <= now'
    BY <2>1, Now
  <2> QED BY <2>1, <2>2 DEF IInv, TypeOK, LockJustified, Justified
<1>8. CASE UNCHANGED vars
  BY <1>8 DEF vars, IInv, TypeOK, LockJustified, Justified
<1> QED BY <1>1, <1>2, <1>3, <1>4, <1>5, <1>6, <1>7, <1>8 DEF Next

----------------------------------------------------------------------------
\* The types of the row, the logins and the history; failed_login_count stays
\* within its cap.
THEOREM TypeCorrect == Spec => []TypeOK
<1>1. IInv => TypeOK
  BY DEF IInv
<1> QED BY <1>1, InitIInv, NextIInv, PTL DEF Spec

\* No stale save locks an account that has not failed often enough, or for longer
\* than its last failure justifies.
THEOREM LocksAreJustified == Spec => []LockJustified
<1>1. IInv => LockJustified
  BY DEF IInv
<1> QED BY <1>1, InitIInv, NextIInv, PTL DEF Spec

----------------------------------------------------------------------------
(***************************************************************************)
(* The history.  Until two logins overlap, the one in progress holds the   *)
(* row as it is, and the row counts the streak, up to the cap.             *)
(***************************************************************************)
Capped(n) == IF n <= MaxCount THEN n ELSE MaxCount

Alone ==
    /\ \A r, s \in Requests : req[r].pc # "idle" /\ req[s].pc # "idle" => r = s
    /\ \A r \in Requests : req[r].pc # "idle" => req[r].user = user
    /\ user = [count |-> Capped(streak), failedAt |-> last]
    /\ streak > 0 => last # Never

HistoryInv == ~overlapped => Alone

LEMMA InitHistory == WatchedInit => HistoryInv
<1> SUFFICES ASSUME WatchedInit PROVE Alone
  BY DEF HistoryInv
<1>1. Capped(0) = 0
  BY LoginAssumption DEF Capped
<1> QED BY <1>1 DEF WatchedInit, Init, Alone, Fresh

\* A row is its two columns.
LEMMA Columns ==
    ASSUME NEW copy \in Users
    PROVE  copy = [count |-> copy.count, failedAt |-> copy.failedAt]
BY DEF Users

\* A login's step: afterwards it is the only one, if no two overlap.
LEMMA WatchedStep ==
    ASSUME IInv, HistoryInv, WatchedNext, ~overlapped',
           NEW r \in Requests, NEW pc, NEW copy, Goto(r, pc, copy),
           pc # "idle" => copy = user',
           req[r].pc # "idle" \/ UNCHANGED user,
           user' = [count |-> Capped(streak'), failedAt |-> last'],
           streak' > 0 => last' # Never
    PROVE  Alone'
<1>1. /\ ~overlapped /\ Alone
      /\ \A q, s \in Requests : req'[q].pc # "idle" /\ req'[s].pc # "idle" => q = s
  BY DEF WatchedNext, HistoryInv
<1>2. /\ req'[r].pc = pc /\ req'[r].user = copy
      /\ \A q \in Requests : q # r => req'[q] = req[q]
  BY DEF IInv, TypeOK, Goto
<1>3. \A q \in Requests : req'[q].pc # "idle" => req'[q].user = user'
  BY <1>1, <1>2 DEF Alone
<1> QED BY <1>1, <1>3 DEF Alone

LEMMA NextHistory == IInv /\ HistoryInv /\ [WatchedNext]_watched => HistoryInv'
<1> SUFFICES ASSUME IInv, HistoryInv, [WatchedNext]_watched, ~overlapped' PROVE Alone'
  BY DEF HistoryInv
<1>0. CASE UNCHANGED watched
  BY <1>0 DEF watched, vars, HistoryInv, Alone
<1> SUFFICES ASSUME WatchedNext PROVE Alone'
  BY <1>0
<1>a. Alone
  BY DEF WatchedNext, HistoryInv
<1>b. Capped(0) = 0
  BY LoginAssumption DEF Capped
<1>1. ASSUME NEW r \in Requests, Begin(r) \/ Challenge(r) \/ Refused(r) PROVE Alone'
  <2>1. UNCHANGED <<user, streak, last>>
    BY <1>1 DEF Begin, Challenge, Refused
  <2>2. PICK pc, copy : Goto(r, pc, copy) /\ (pc # "idle" => copy = user)
    BY <1>1, <1>a DEF Begin, Challenge, Refused, Alone
  <2> QED BY <1>a, <2>1, <2>2, WatchedStep DEF Alone
<1>2. ASSUME NEW r \in Requests, Look(r) PROVE Alone'
  <2>1. req[r].user = user /\ req[r].pc # "idle" /\ UNCHANGED last
    BY <1>2, <1>a DEF Look, Alone
  <2>2. CASE UNCHANGED <<user, streak>>
    <3>1. PICK pc : Goto(r, pc, user)
      BY <1>2, <2>1, <2>2 DEF Look
    <3> QED BY <1>a, <2>1, <2>2, <3>1, WatchedStep DEF Alone
  <2>3. CASE user' = [req[r].user EXCEPT !.count = 0] /\ streak' = 0 /\ Goto(r, "challenge", user')
    <3>1. user' = [count |-> Capped(streak'), failedAt |-> last']
      BY <1>a, <1>b, <2>1, <2>3 DEF Alone
    <3>2. ~(streak' > 0)
      BY <2>3
    <3> QED BY <2>1, <2>3, <3>1, <3>2, WatchedStep
  <2> QED BY <1>2, <2>2, <2>3 DEF Look
<1>3. ASSUME NEW r \in Requests, Succeed(r) PROVE Alone'
  <2>1. /\ req[r].user = user /\ req[r].pc # "idle" /\ UNCHANGED last
        /\ user' = [req[r].user EXCEPT !.count = 0] /\ streak' = 0 /\ Goto(r, "idle", Fresh)
    BY <1>3, <1>a DEF Succeed, Alone
  <2>2. user' = [count |-> Capped(streak'), failedAt |-> last']
    BY <1>a, <1>b, <2>1 DEF Alone
  <2>3. ~(streak' > 0)
    BY <2>1
  <2> QED BY <2>1, <2>2, <2>3, WatchedStep
<1>4. ASSUME NEW r \in Requests, Fail(r) PROVE Alone'
  <2>1. /\ req[r].user = user /\ req[r].pc # "idle" /\ last' = now
        /\ user' = Saved([count |-> req[r].user.count + 1, failedAt |-> now])
        /\ streak' = streak + 1 /\ Goto(r, "idle", Fresh)
    BY <1>4, <1>a DEF Fail, Alone
  <2>2. user.count = Capped(streak) /\ streak \in Nat /\ now # Never
    BY <1>a, Now, LoginAssumption DEF Alone
  <2>3. Capped(Capped(streak) + 1) = Capped(streak + 1)
    BY <2>2, LoginAssumption DEF Capped
  <2>4. user' = [count |-> Capped(streak'), failedAt |-> last']
    BY <2>1, <2>2, <2>3 DEF Saved, Capped
  <2> QED BY <2>1, <2>2, <2>4, WatchedStep
<1>5. CASE Tick
  BY <1>5, <1>a DEF Tick, Alone
<1> QED BY <1>1, <1>2, <1>3, <1>4, <1>5 DEF WatchedNext, Next

LEMMA WatchedInduction ==
    /\ WatchedInit => IInv /\ HistoryInv
    /\ IInv /\ HistoryInv /\ [WatchedNext]_watched => IInv' /\ HistoryInv'
<1>1. [WatchedNext]_watched => [Next]_vars
  BY DEF WatchedNext, watched
<1> QED BY <1>1, InitIInv, NextIInv, InitHistory, NextHistory DEF WatchedInit

\* The row says locked exactly when the last logins say so, if the count can
\* reach the threshold at all.
LEMMA LockedExactly ==
    ASSUME LockCount <= MaxCount, IInv, Alone
    PROVE  StillLocked(user) <=> Locking
<1>1. /\ user.count = Capped(streak) /\ user.failedAt = last
      /\ streak \in Nat
      /\ last # Never => last \in Nat
      /\ streak > 0 => last # Never
  BY Now DEF Alone
<1>2. Capped(streak) >= LockCount <=> streak >= LockCount
  BY <1>1, LoginAssumption DEF Capped
<1>3. streak >= LockCount => last # Never
  BY <1>1, LoginAssumption
<1> QED BY <1>1, <1>2, <1>3 DEF StillLocked, CountReached, Locking

\* Without overlapping logins an account is locked exactly when it should be, for
\* every threshold that the capped count can reach (the runs show that a larger
\* one never locks).
THEOREM LocksExactly ==
    ASSUME LockCount <= MaxCount
    PROVE  WatchedSpec => RefusedExactly
<1> DEFINE Exact == \A r \in Requests :
                      ~overlapped /\ req[r].pc = "look" /\ req'[r].pc # "look" =>
                        (req'[r].pc = "refused" <=> Locking)
<1>1. IInv /\ HistoryInv /\ [WatchedNext]_watched => [Exact]_vars
  <2> SUFFICES ASSUME IInv, HistoryInv, WatchedNext, NEW r \in Requests,
                      ~overlapped, req[r].pc = "look", req'[r].pc # "look"
               PROVE  req'[r].pc = "refused" <=> Locking
    BY DEF watched
  <2>1. Alone /\ req[r].user = user
    BY DEF HistoryInv, Alone
  <2>2. ASSUME NEW q \in Requests, NEW pc, NEW copy, Goto(q, pc, copy), q # r
        PROVE  FALSE
    BY <2>2, Now DEF Goto
  <2>3. Look(r)
    BY <2>2 DEF WatchedNext, Next, Begin, Look, Challenge, Succeed, Fail, Refused, Tick
  <2>4. \A pc, copy : Goto(r, pc, copy) => req'[r].pc = pc
    BY Now DEF Goto
  <2>5. req'[r].pc = "refused" <=> StillLocked(user)
    <3>1. \/ StillLocked(user) /\ Goto(r, "refused", user)
          \/ ~StillLocked(user) /\ \E copy : Goto(r, "challenge", copy)
      BY <2>1, <2>3 DEF Look, StillLocked
    <3> QED BY <2>4, <3>1
  <2> QED BY <2>1, <2>5, LockedExactly
<1> QED BY <1>1, WatchedInduction, PTL DEF WatchedSpec, RefusedExactly

----------------------------------------------------------------------------
(***************************************************************************)
(* Settings.  What an object may answer next is in force now or remembered *)
(* from when it was, and what it remembers as true is what it answered.    *)
(***************************************************************************)
Remembers(r, k) ==
    /\ InForce(config[k]) \in seen[r][k]
    /\ cache[r][k] # Absent => cache[r][k] \in seen[r][k]
    /\ answer[r][k] \in Truthy => cache[r][k] = answer[r][k]

SettingsInv ==
    /\ SettingsTypeOK
    /\ AnswersInForce
    /\ \A r \in open, k \in Keys : Remembers(r, k)

LEMMA EachReaderType ==
    ASSUME NEW S, NEW v \in S
    PROVE  /\ EachReader(v) \in [Readers -> [Keys -> S]]
           /\ \A r \in Readers, k \in Keys : EachReader(v)[r][k] = v
BY DEF EachReader

LEMMA InForceType ==
    ASSUME NEW entry \in Entries
    PROVE  InForce(entry) \in Answers
BY DEF InForce, Entries, Answers, Truthy

\* One answer, or one remembered value, is replaced.
LEMMA ReplacedAt ==
    ASSUME NEW S, NEW f \in [Readers -> [Keys -> S]],
           NEW r \in Readers, NEW k \in Keys, NEW v \in S
    PROVE  /\ [f EXCEPT ![r][k] = v] \in [Readers -> [Keys -> S]]
           /\ [f EXCEPT ![r][k] = v][r][k] = v
           /\ \A q \in Readers, j \in Keys :
                q # r \/ j # k => [f EXCEPT ![r][k] = v][q][j] = f[q][j]
OBVIOUS

\* An object is new: everything of it is replaced.
LEMMA ReplacedFor ==
    ASSUME NEW S, NEW f \in [Readers -> [Keys -> S]],
           NEW r \in Readers, NEW g \in [Keys -> S]
    PROVE  /\ [f EXCEPT ![r] = g] \in [Readers -> [Keys -> S]]
           /\ \A k \in Keys : [f EXCEPT ![r] = g][r][k] = g[k]
           /\ \A q \in Readers, j \in Keys : q # r => [f EXCEPT ![r] = g][q][j] = f[q][j]
OBVIOUS

LEMMA InitSettingsInv == SettingsInit => SettingsInv
<1> SUFFICES ASSUME SettingsInit PROVE SettingsInv
  OBVIOUS
<1>1. cache \in [Readers -> [Keys -> Truthy \cup {"no", Absent}]]
  BY EachReaderType DEF SettingsInit
<1>2. /\ answer \in [Readers -> [Keys -> Answers \cup {NoAnswer}]]
      /\ \A r \in Readers, k \in Keys : answer[r][k] = NoAnswer
  BY EachReaderType DEF SettingsInit
<1>3. seen \in [Readers -> [Keys -> SUBSET Answers]]
  BY EachReaderType DEF SettingsInit
<1>4. config \in [Keys -> Entries] /\ NoTx.rows \in [Keys -> Entries] /\ NoTx.pc = "none"
  BY DEF SettingsInit, Entries, Truthy, NoTx, Absent
<1>5. SettingsTypeOK
  BY <1>1, <1>2, <1>3, <1>4, SettingsAssumption DEF SettingsInit, SettingsTypeOK, NoTx
<1> QED BY <1>2, <1>5 DEF SettingsInit, SettingsInv, AnswersInForce

\* The committed rows stay, and so does what objects remember and have seen.
LEMMA QuietStep ==
    ASSUME SettingsInv, SettingsTypeOK',
           open' \subseteq open, UNCHANGED <<config, cache, answer, seen>>
    PROVE  SettingsInv'
BY DEF SettingsInv, AnswersInForce, Remembers

LEMMA NextSettingsInv == SettingsInv /\ [SettingsNext]_settingsVars => SettingsInv'
<1> SUFFICES ASSUME SettingsInv, [SettingsNext]_settingsVars PROVE SettingsInv'
  OBVIOUS
<1>t. /\ config \in [Keys -> Entries]
      /\ tx \in [pc : {"none", "purged", "created"}, rows : [Keys -> Entries]]
      /\ tx.rows \in [Keys -> Entries]
      /\ NoTx \in [pc : {"none", "purged", "created"}, rows : [Keys -> Entries]]
      /\ replaces \in 0 .. MaxReplaces
      /\ cache \in [Readers -> [Keys -> Truthy \cup {"no", Absent}]]
      /\ open \subseteq Readers
      /\ opened \in 0 .. MaxOpened
      /\ answer \in [Readers -> [Keys -> Answers \cup {NoAnswer}]]
      /\ seen \in [Readers -> [Keys -> SUBSET Answers]]
      /\ MaxReplaces \in Nat /\ MaxOpened \in Nat
  BY SettingsAssumption DEF SettingsInv, SettingsTypeOK, NoTx, Entries
<1>s. /\ \A r \in Readers, k \in Keys : answer[r][k] \in seen[r][k] \cup {NoAnswer}
      /\ \A r \in open, k \in Keys : Remembers(r, k)
  BY DEF SettingsInv, AnswersInForce
<1>1. ASSUME NEW r \in Readers, Open(r) PROVE SettingsInv'
  <2> DEFINE none == [k \in Keys |-> Absent]
             asked == [k \in Keys |-> NoAnswer]
             now0 == [k \in Keys |-> {InForce(config[k])}]
  <2>1. /\ open' = open \cup {r} /\ opened' \in 0 .. MaxOpened
        /\ cache' = [cache EXCEPT ![r] = none]
        /\ answer' = [answer EXCEPT ![r] = asked]
        /\ seen' = [seen EXCEPT ![r] = now0]
        /\ UNCHANGED <<config, tx, replaces>>
    BY <1>1, <1>t DEF Open
  <2>2. none \in [Keys -> Truthy \cup {"no", Absent}] /\ \A k \in Keys : none[k] = Absent
    OBVIOUS
  <2>3. asked \in [Keys -> Answers \cup {NoAnswer}] /\ \A k \in Keys : asked[k] = NoAnswer
    OBVIOUS
  <2>4. now0 \in [Keys -> SUBSET Answers] /\ \A k \in Keys : now0[k] = {InForce(config[k])}
    BY <1>t, InForceType
  <2> HIDE DEF none, asked, now0
  <2>5. /\ cache' \in [Readers -> [Keys -> Truthy \cup {"no", Absent}]]
        /\ \A k \in Keys : cache'[r][k] = Absent
        /\ \A q \in Readers, k \in Keys : q # r => cache'[q][k] = cache[q][k]
    BY <1>t, <2>1, <2>2, ReplacedFor
  <2>6. /\ answer' \in [Readers -> [Keys -> Answers \cup {NoAnswer}]]
        /\ \A k \in Keys : answer'[r][k] = NoAnswer
        /\ \A q \in Readers, k \in Keys : q # r => answer'[q][k] = answer[q][k]
    BY <1>t, <2>1, <2>3, ReplacedFor
  <2>7. /\ seen' \in [Readers -> [Keys -> SUBSET Answers]]
        /\ \A k \in Keys : seen'[r][k] = {InForce(config[k])}
        /\ \A q \in Readers, k \in Keys : q # r => seen'[q][k] = seen[q][k]
    BY <1>t, <2>1, <2>4, ReplacedFor
  <2>8. SettingsTypeOK'
    BY <1>t, <2>1, <2>5, <2>6, <2>7 DEF SettingsTypeOK
  <2>9. AnswersInForce'
    BY <1>s, <2>6, <2>7 DEF AnswersInForce
  <2>10. ASSUME NEW q \in open', NEW k \in Keys PROVE Remembers(q, k)'
    <3>1. CASE q = r
      BY <2>1, <2>5, <2>6, <2>7, <3>1 DEF Remembers, NoAnswer, Truthy
    <3>2. CASE q # r
      BY <1>s, <1>t, <2>1, <2>5, <2>6, <2>7, <3>2 DEF Remembers
    <3> QED BY <3>1, <3>2
  <2> QED BY <2>8, <2>9, <2>10 DEF SettingsInv
<1>2. ASSUME NEW r \in Readers, Close(r) PROVE SettingsInv'
  <2>1. /\ open' \subseteq open
        /\ UNCHANGED <<config, tx, replaces, cache, opened, answer, seen>>
    BY <1>2 DEF Close
  <2> QED BY <1>t, <2>1, QuietStep DEF SettingsTypeOK
<1>3. ASSUME NEW r \in Readers, NEW k \in Keys, Get(r, k) PROVE SettingsInv'
  <2>1. r \in open /\ UNCHANGED <<config, tx, replaces, open, opened, seen>>
    BY <1>3 DEF Get
  <2>2. /\ Remembers(r, k)
        /\ cache[r][k] \in Truthy \cup {"no", Absent} /\ config[k] \in Entries
    BY <1>s, <1>t, <2>1
  \* What it answers is in force or was; if it is true, it is remembered.
  <2>3. PICK v \in Answers, w \in Truthy \cup {"no", Absent} :
          /\ answer' = [answer EXCEPT ![r][k] = v]
          /\ cache' = [cache EXCEPT ![r][k] = w]
          /\ v \in seen[r][k]
          /\ w # Absent => w \in seen[r][k]
          /\ v \in Truthy => w = v
    <3>0. cache = [cache EXCEPT ![r][k] = cache[r][k]]
      BY <1>t
    <3>1. CASE cache[r][k] \in Truthy /\ answer' = [answer EXCEPT ![r][k] = cache[r][k]] /\ UNCHANGED cache
      BY <2>2, <3>0, <3>1 DEF Remembers, Answers, Absent, Truthy
    <3>2. CASE /\ cache[r][k] \notin Truthy
               /\ Found(r, k) \in {"blank", Absent}
               /\ answer' = [answer EXCEPT ![r][k] = Default]
               /\ UNCHANGED cache
      <4>1. InForce(config[k]) = Default
        BY <2>2, <3>2 DEF Found, InForce, Truthy, Absent
      <4>2. Default \in Answers /\ Default \notin Truthy
        BY SettingsAssumption DEF Answers, Truthy
      <4> QED BY <2>2, <3>0, <3>2, <4>1, <4>2 DEF Remembers
    <3>3. CASE /\ cache[r][k] \notin Truthy
               /\ Found(r, k) \notin {"blank", Absent}
               /\ answer' = [answer EXCEPT ![r][k] = Found(r, k)]
               /\ cache' = [cache EXCEPT ![r][k] = Found(r, k)]
      <4>1. Found(r, k) \in Truthy \cup {"no"}
        BY <2>2, <3>3 DEF Found, Entries, Truthy, Absent
      <4>2. Found(r, k) \in seen[r][k]
        BY <2>2, <3>3 DEF Found, Remembers, InForce
      <4> QED BY <3>3, <4>1, <4>2 DEF Answers
    <3> QED BY <1>3, <3>1, <3>2, <3>3 DEF Get
  <2>4. /\ cache' \in [Readers -> [Keys -> Truthy \cup {"no", Absent}]]
        /\ cache'[r][k] = w
        /\ \A q \in Readers, j \in Keys : q # r \/ j # k => cache'[q][j] = cache[q][j]
    BY <1>t, <2>3, ReplacedAt
  <2>5. /\ answer' \in [Readers -> [Keys -> Answers \cup {NoAnswer}]]
        /\ answer'[r][k] = v
        /\ \A q \in Readers, j \in Keys : q # r \/ j # k => answer'[q][j] = answer[q][j]
    <3>1. v \in Answers \cup {NoAnswer}
      OBVIOUS
    <3> QED BY <1>t, <2>3, <3>1, ReplacedAt
  <2>6. SettingsTypeOK'
    BY <1>t, <2>1, <2>4, <2>5 DEF SettingsTypeOK
  <2>7. AnswersInForce'
    BY <1>s, <2>1, <2>3, <2>5 DEF AnswersInForce
  <2>8. \A q \in open', j \in Keys : Remembers(q, j)'
    BY <1>s, <1>t, <2>1, <2>3, <2>4, <2>5 DEF Remembers
  <2> QED BY <2>6, <2>7, <2>8 DEF SettingsInv
<1>4. CASE Purge
  <2>1. /\ replaces' \in 0 .. MaxReplaces
        /\ \E rows \in {NoTx.rows, config} : tx' = [pc |-> "purged", rows |-> rows]
        /\ UNCHANGED <<config, cache, open, opened, answer, seen>>
    BY <1>4, <1>t DEF Purge
  <2>2. SettingsTypeOK'
    BY <1>t, <2>1 DEF SettingsTypeOK
  <2> QED BY <2>1, <2>2, QuietStep
<1>5. CASE BulkCreate
  <2>1. /\ \E posted \in [Keys -> Entries] :
             tx' = [pc |-> "created",
                    rows |-> [k \in Keys |-> IF posted[k] = Absent THEN tx.rows[k] ELSE posted[k]]]
        /\ UNCHANGED <<config, replaces, cache, open, opened, answer, seen>>
    BY <1>5 DEF BulkCreate
  <2>2. SettingsTypeOK'
    BY <1>t, <2>1 DEF SettingsTypeOK
  <2> QED BY <2>1, <2>2, QuietStep
<1>6. CASE Rollback
  <2>1. tx' = NoTx /\ UNCHANGED <<config, replaces, cache, open, opened, answer, seen>>
    BY <1>6 DEF Rollback
  <2>2. SettingsTypeOK'
    BY <1>t, <2>1 DEF SettingsTypeOK
  <2> QED BY <2>1, <2>2, QuietStep
<1>7. CASE Commit
  <2>1. /\ config' = tx.rows /\ tx' = NoTx
        /\ seen' = [r \in Readers |-> [k \in Keys |-> seen[r][k] \cup {InForce(tx.rows[k])}]]
        /\ UNCHANGED <<replaces, cache, open, opened, answer>>
    BY <1>7 DEF Commit
  <2>2. \A k \in Keys : config'[k] \in Entries /\ InForce(config'[k]) \in Answers
    BY <1>t, <2>1, InForceType
  <2>3. /\ seen' \in [Readers -> [Keys -> SUBSET Answers]]
        /\ \A r \in Readers, k \in Keys : seen'[r][k] = seen[r][k] \cup {InForce(config'[k])}
    BY <1>t, <2>1, <2>2
  <2>4. SettingsTypeOK'
    BY <1>t, <2>1, <2>3 DEF SettingsTypeOK
  <2>5. AnswersInForce'
    BY <1>s, <2>1, <2>3 DEF AnswersInForce
  <2>6. \A r \in open', k \in Keys : Remembers(r, k)'
    BY <1>s, <1>t, <2>1, <2>3 DEF Remembers
  <2> QED BY <2>4, <2>5, <2>6 DEF SettingsInv
<1>8. CASE UNCHANGED settingsVars
  BY <1>8 DEF settingsVars, SettingsInv, SettingsTypeOK, AnswersInForce, Remembers
<1> QED BY <1>1, <1>2, <1>3, <1>4, <1>5, <1>6, <1>7, <1>8 DEF SettingsNext

\* The types of the table, the transaction and the objects; a blank value never
\* gets into the dictionary of an object.
THEOREM SettingsTypeCorrect == SettingsSpec => []SettingsTypeOK
<1>1. SettingsInv => SettingsTypeOK
  BY DEF SettingsInv
<1> QED BY <1>1, InitSettingsInv, NextSettingsInv, PTL DEF SettingsSpec

\* No object answers with a value of a replace that failed, or with a default
\* because the rows had just been deleted.
THEOREM EveryAnswerInForce == SettingsSpec => []AnswersInForce
<1>1. SettingsInv => AnswersInForce
  BY DEF SettingsInv
<1> QED BY <1>1, InitSettingsInv, NextSettingsInv, PTL DEF SettingsSpec

\* Nobody who asks the same object again is told otherwise of a true setting,
\* whatever is committed meanwhile.
THEOREM TrueAnswersStay == SettingsSpec => TrueStays
<1> DEFINE Stays == \A r \in open, k \in Keys :
                      answer[r][k] \in Truthy => answer'[r][k] = answer[r][k]
<1>1. SettingsInv /\ [SettingsNext]_settingsVars => [Stays]_settingsVars
  <2> SUFFICES ASSUME SettingsInv, SettingsNext, NEW r \in open, NEW k \in Keys,
                      answer[r][k] \in Truthy
               PROVE  answer'[r][k] = answer[r][k]
    OBVIOUS
  <2>1. /\ answer \in [Readers -> [Keys -> Answers \cup {NoAnswer}]]
        /\ r \in Readers /\ cache[r][k] = answer[r][k]
    BY DEF SettingsInv, SettingsTypeOK, Remembers
  <2>2. CASE UNCHANGED answer
    BY <2>2
  <2>3. ASSUME NEW q \in Readers, Open(q) PROVE answer'[r][k] = answer[r][k]
    BY <2>1, <2>3 DEF Open
  <2>4. ASSUME NEW q \in Readers, NEW j \in Keys, Get(q, j) PROVE answer'[r][k] = answer[r][k]
    <3>1. PICK v : answer' = [answer EXCEPT ![q][j] = v] /\ (cache[q][j] \in Truthy => v = cache[q][j])
      BY <2>4 DEF Get
    <3> QED BY <2>1, <3>1
  <2> QED BY <2>2, <2>3, <2>4 DEF SettingsNext, Close, Purge, BulkCreate, Commit, Rollback
<1> QED BY <1>1, InitSettingsInv, NextSettingsInv, PTL DEF SettingsSpec, TrueStays

=============================================================================
