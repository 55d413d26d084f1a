------------------------ MODULE QueryPrivCheckProofs ------------------------
(***************************************************************************)
(* Proofs about QueryPrivCheck, for every query, every table of privileges *)
(* and any changes of it during the check.                                 *)
(***************************************************************************)
EXTENDS QueryPrivCheck, WellFoundedInduction, TLAPS

IInv == TypeOK /\ Covered

LEMMA RefFacts ==
    /\ Len(TableRef) \in Nat /\ Len(TableRef) > 0
    /\ Refs = 1 .. Len(TableRef)
    /\ \A i \in Refs : TableRef[i] \in [db : Dbs, name : Names \cup {NoTable}]
<1> DEFINE R == [db : Dbs, name : Names \cup {NoTable}]
<1>1. TableRef \in Seq(R) /\ TableRef # << >>
  BY RefAssumption
<1> HIDE DEF R
<1>2. /\ Len(TableRef) \in Nat /\ Len(TableRef) > 0
      /\ DOMAIN TableRef = 1 .. Len(TableRef)
      /\ \A i \in DOMAIN TableRef : TableRef[i] \in R
  BY <1>1
<1> QED BY <1>2 DEF Refs, R

\* A query set that is not empty has a first row.
LEMMA FirstOfFound ==
    ASSUME NEW found \in SUBSET Nat, found # {}
    PROVE  FirstOf(found) \in found
<1>1. PICK k \in found : \A j \in found : ~(<<j, k>> \in OpToRel(<, Nat))
  BY NatLessThanWellFounded, WFMin
<1>2. \A j \in found : ~(j < k)
  BY <1>1 DEF OpToRel
<1>3. IsFirstOf(k, found)
  BY <1>2 DEF IsFirstOf
<1> QED BY <1>3 DEF FirstOf, IsFirstOf

\* What a look-up finds permits the query, on the day of the look-up and before.
LEMMA FoundInForce ==
    ASSUME NEW rows \in Seq(Privilege), NEW ref, NEW type, NEW since \in Days,
           NEW day \in Days, day <= since,
           NEW k \in UserPrivileges(rows, ref, type, since)
    PROVE  rows[k].limit \in InForce(rows, ref, day)
<1>1. k \in DOMAIN rows /\ rows[k] \in Privilege
  BY DEF UserPrivileges
<1>2. Permits(rows[k], ref, day)
  BY <1>1, NumberAssumption DEF UserPrivileges, Matches, Permits, Privilege, Days
<1> QED BY <1>1, <1>2 DEF InForce

LEMMA InForceLimits ==
    ASSUME NEW rows \in Seq(Privilege), NEW ref, NEW day
    PROVE  InForce(rows, ref, day) \subseteq Limits
<1>1. \A k \in DOMAIN rows : rows[k] \in Privilege
  OBVIOUS
<1>2. \A p \in Privilege : p.limit \in Limits
  BY DEF Privilege
<1> QED BY <1>1, <1>2 DEF InForce

----------------------------------------------------------------------------
\* A table is settled: what follows is covered so far.
LEMMA SettledCovered ==
    ASSUME NEW c \in Check, NEW s,
           WithinAsked(c, s),
           c.phase = "limit" => CoveredUpTo(c, s, c.ref)
    PROVE  /\ Settled(c) \in Check
           /\ CheckCovered(Settled(c), s)
           /\ Settled(c).began = c.began
           /\ Settled(c).pc \in {"exists", "allowed"}
<1>1. c.ref \in 1 .. Len(TableRef) /\ c.phase \in {"priv", "limit"} /\ Len(TableRef) \in Nat
  BY RefFacts DEF Check
<1>2. CASE c.ref < Len(TableRef)
  <2> DEFINE d == LookUp(c, c.phase, c.ref + 1, "db")
  <2>1. Settled(c) = d
    BY <1>2 DEF Settled
  <2>2. /\ d \in Check /\ d.pc = "exists" /\ d.phase = c.phase /\ d.ref = c.ref + 1 /\ d.type = "db"
        /\ d.limit = c.limit /\ d.asked = c.asked /\ d.began = c.began
    <3>1. c.ref + 1 \in Refs
      BY <1>1, <1>2, RefFacts
    <3> QED BY <3>1, <1>1 DEF LookUp, Check
  <2>3. d.ref - 1 = c.ref
    BY <1>1, <2>2
  <2>4. CheckCovered(d, s)
    <3> HIDE DEF d
    <3> QED BY <2>2, <2>3 DEF CheckCovered, CoveredUpTo, WithinAsked
  <2> HIDE DEF d
  <2> QED BY <2>1, <2>2, <2>4
<1>3. CASE ~(c.ref < Len(TableRef)) /\ c.phase = "priv"
  <2> DEFINE d == LookUp(c, "limit", 1, "db")
  <2>1. Settled(c) = d
    BY <1>3 DEF Settled
  <2>2. /\ d \in Check /\ d.pc = "exists" /\ d.ref = 1 /\ d.type = "db"
        /\ d.limit = c.limit /\ d.asked = c.asked /\ d.began = c.began
    <3>1. 1 \in Refs
      BY <1>1, RefFacts
    <3> QED BY <3>1, <1>1 DEF LookUp, Check
  <2>3. CheckCovered(d, s)
    <3> HIDE DEF d
    <3> QED BY <2>2 DEF CheckCovered, CoveredUpTo, WithinAsked
  <2> HIDE DEF d
  <2> QED BY <2>1, <2>2, <2>3
<1>4. CASE ~(c.ref < Len(TableRef)) /\ c.phase = "limit"
  <2> DEFINE d == [c EXCEPT !.pc = "allowed"]
  <2>1. Settled(c) = d
    BY <1>4 DEF Settled
  <2>2. /\ d \in Check /\ d.pc = "allowed" /\ d.limit = c.limit /\ d.asked = c.asked
        /\ d.began = c.began
    BY DEF Check
  <2>3. c.ref = Len(TableRef)
    BY <1>1, <1>4
  <2>4. CheckCovered(d, s)
    <3> HIDE DEF d
    <3> QED BY <1>4, <2>2, <2>3 DEF CheckCovered, CoveredUpTo, WithinAsked
  <2> HIDE DEF d
  <2> QED BY <2>1, <2>2, <2>4
<1> QED BY <1>1, <1>2, <1>3, <1>4

\* The smaller of two limits, where 0 is none.
LEMMA LimitedFacts ==
    ASSUME NEW limit \in Int, NEW found \in Int
    PROVE  LET n == Limited(limit, found) IN
             /\ n \in Int
             /\ n <= found
             /\ limit # 0 => n <= limit
             /\ limit = 0 => n = found
             /\ n \in {limit, found}
             /\ found # 0 => n # 0
BY DEF Limited, Pick

LEMMA LimitFoundCovered ==
    ASSUME NEW c \in Check, NEW s \in [Refs -> SUBSET Int], NEW found \in Int,
           WithinAsked(c, s),
           c.phase = "limit",
           CoveredUpTo(c, s, c.ref - 1),
           c.db # 0 => c.db \in s[c.ref],
           found # 0 => found \in s[c.ref]
    PROVE  /\ LimitFound(c, found) \in Check
           /\ CheckCovered(LimitFound(c, found), s)
           /\ LimitFound(c, found).began = c.began
           /\ LimitFound(c, found).pc \in {"exists", "allowed", "error"}
<1> DEFINE both == IF found # 0 THEN Limited(c.db, found) ELSE c.db
           n    == Limited(c.limit, both)
           d    == [c EXCEPT !.limit = n]
<1>1. /\ c.ref \in 1 .. Len(TableRef) /\ Len(TableRef) \in Nat
      /\ c.db \in Int /\ c.limit \in Int /\ c.asked \in Int
  BY RefFacts DEF Check
<1>2. both \in Int /\ (both # 0 => both \in s[c.ref])
  <2>1. s[c.ref] \subseteq Int
    BY <1>1, RefFacts
  <2>2. CASE found # 0
    BY <2>1, <2>2, <1>1, LimitedFacts
  <2>3. CASE found = 0
    BY <2>1, <2>3, <1>1
  <2> QED BY <2>2, <2>3
<1>3. CASE both = 0
  <2> DEFINE e == [c EXCEPT !.pc = "error"]
  <2>1. LimitFound(c, found) = e
    BY <1>3 DEF LimitFound
  <2>2. /\ e \in Check /\ e.pc = "error" /\ e.limit = c.limit /\ e.asked = c.asked
        /\ e.began = c.began
    BY DEF Check
  <2>3. CheckCovered(e, s)
    <3> HIDE DEF e
    <3> QED BY <2>2 DEF CheckCovered, WithinAsked
  <2> HIDE DEF e
  <2> QED BY <2>1, <2>2, <2>3
<1>4. CASE both # 0
  <2>1. LimitFound(c, found) = Settled(d)
    BY <1>4 DEF LimitFound
  <2> HIDE DEF both
  <2>2. /\ n \in Int /\ n # 0 /\ n <= both
        /\ c.limit # 0 => n <= c.limit
        /\ n \in {c.limit, both}
        /\ c.limit = 0 => n = both
    BY <1>1, <1>2, <1>4, LimitedFacts
  <2> HIDE DEF n
  <2>3. /\ d \in Check /\ d.limit = n /\ d.asked = c.asked /\ d.ref = c.ref
        /\ d.phase = c.phase /\ d.began = c.began
    BY <2>2 DEF Check
  <2>4. CoveredUpTo(d, s, d.ref)
    <3>1. SUFFICES ASSUME NEW i \in 1 .. c.ref PROVE \E l \in s[i] : n <= l
      BY <2>2, <2>3 DEF CoveredUpTo
    <3>2. CASE i = c.ref
      BY <3>2, <1>1, <1>2, <1>4, <2>2
    <3>3. CASE i # c.ref
      <4>1. i \in 1 .. c.ref - 1 /\ i \in Refs
        BY <3>3, <1>1, RefFacts
      <4>2. c.limit # 0 /\ \E l \in s[i] : c.limit <= l
        BY <4>1 DEF CoveredUpTo
      <4>3. s[i] \subseteq Int
        BY <4>1
      <4> QED BY <4>2, <4>3, <1>1, <2>2
    <3> QED BY <3>2, <3>3
  <2>5. WithinAsked(d, s)
    <3>1. c.asked # 0 => c.limit # 0 /\ c.limit <= c.asked
      BY DEF WithinAsked
    <3>2. c.limit \in {c.asked} \cup UNION {s[i] : i \in Refs}
      BY DEF WithinAsked
    <3>3. c.ref \in Refs /\ both \in s[c.ref]
      BY <1>1, <1>2, <1>4, RefFacts
    <3>4. n \in {c.asked} \cup UNION {s[i] : i \in Refs}
      BY <2>2, <3>2, <3>3
    <3>5. c.asked # 0 => n # 0 /\ n <= c.asked
      BY <1>1, <2>2, <3>1
    <3> QED BY <2>3, <3>4, <3>5 DEF WithinAsked
  <2> HIDE DEF d
  <2> QED BY <2>1, <2>3, <2>4, <2>5, SettledCovered
<1> QED BY <1>3, <1>4

\* Whatever a look-up returns, if it was in force, the check stays covered.
LEMMA AnsweredCovered ==
    ASSUME NEW c \in Check, NEW s \in [Refs -> SUBSET Int], NEW found \in Int,
           c.pc \in {"exists", "first"},
           CheckCovered(c, s),
           found # 0 => found \in s[c.ref]
    PROVE  /\ Answered(c, found) \in Check
           /\ CheckCovered(Answered(c, found), s)
           /\ Answered(c, found).began = c.began
           /\ Answered(c, found).pc \in {"exists", "allowed", "refused", "error"}
<1> DEFINE byTable == TableRef[c.ref].name # NoTable
<1>1. /\ WithinAsked(c, s)
      /\ c.phase = "limit" => /\ CoveredUpTo(c, s, c.ref - 1)
                              /\ c.type = "table" /\ c.db # 0 => c.db \in s[c.ref]
      /\ c.ref \in Refs /\ c.phase \in {"priv", "limit"} /\ c.type \in {"db", "table"}
  BY DEF CheckCovered, Check
<1>2. CASE c.phase = "priv" /\ found # 0
  <2>1. Answered(c, found) = Settled(c)
    BY <1>2 DEF Answered
  <2> QED BY <2>1, <1>1, <1>2, SettledCovered
<1>3. CASE c.phase = "priv" /\ found = 0 /\ c.type = "db" /\ byTable
  <2> DEFINE d == LookUp(c, "priv", c.ref, "table")
  <2>1. Answered(c, found) = d
    BY <1>3 DEF Answered
  <2>2. /\ d \in Check /\ d.pc = "exists" /\ d.phase = "priv" /\ d.limit = c.limit
        /\ d.asked = c.asked /\ d.began = c.began
    BY <1>1 DEF LookUp, Check
  <2> HIDE DEF d
  <2>3. CheckCovered(d, s)
    BY <1>1, <2>2 DEF CheckCovered, WithinAsked
  <2> QED BY <2>1, <2>2, <2>3
<1>4. CASE c.phase = "priv" /\ found = 0 /\ ~(c.type = "db" /\ byTable)
  <2> DEFINE d == [c EXCEPT !.pc = "refused"]
  <2>1. Answered(c, found) = d
    BY <1>4 DEF Answered
  <2>2. /\ d \in Check /\ d.pc = "refused" /\ d.limit = c.limit
        /\ d.asked = c.asked /\ d.began = c.began
    BY DEF Check
  <2> HIDE DEF d
  <2>3. CheckCovered(d, s)
    BY <1>1, <2>2 DEF CheckCovered, WithinAsked
  <2> QED BY <2>1, <2>2, <2>3
<1>5. CASE c.phase = "limit" /\ c.type = "db"
  <2> DEFINE e == [c EXCEPT !.db = found]
  <2>1. /\ e \in Check /\ e.db = found /\ e.limit = c.limit /\ e.asked = c.asked
        /\ e.began = c.began /\ e.ref = c.ref /\ e.phase = c.phase
    BY DEF Check
  <2>2. CASE byTable
    <3> DEFINE d == LookUp(e, "limit", c.ref, "table")
    <3>1. Answered(c, found) = d
      BY <1>5, <2>2 DEF Answered
    <3> HIDE DEF e
    <3>2. /\ d \in Check /\ d.pc = "exists" /\ d.phase = "limit" /\ d.ref = c.ref
          /\ d.limit = c.limit /\ d.asked = c.asked /\ d.db = found /\ d.began = c.began
      BY <1>1, <2>1 DEF LookUp, Check
    <3> HIDE DEF d
    <3>3. CheckCovered(d, s)
      BY <1>1, <1>5, <3>2 DEF CheckCovered, CoveredUpTo, WithinAsked
    <3> QED BY <3>1, <3>2, <3>3
  <2>3. CASE ~byTable
    <3>1. Answered(c, found) = LimitFound(e, 0)
      BY <1>5, <2>3 DEF Answered
    <3>2. CoveredUpTo(e, s, e.ref - 1)
      BY <1>1, <1>5, <2>1 DEF CoveredUpTo
    <3> HIDE DEF e
    <3>3. WithinAsked(e, s)
      BY <1>1, <2>1 DEF WithinAsked
    <3> QED BY <3>1, <3>2, <3>3, <1>1, <1>5, <2>1, LimitFoundCovered
  <2> QED BY <2>2, <2>3
<1>6. CASE c.phase = "limit" /\ c.type = "table"
  <2>1. Answered(c, found) = LimitFound(c, found)
    BY <1>6 DEF Answered
  <2> QED BY <2>1, <1>1, <1>6, LimitFoundCovered
<1> QED BY <1>1, <1>2, <1>3, <1>4, <1>5, <1>6

----------------------------------------------------------------------------
LEMMA InitIInv == Init => IInv
<1> SUFFICES ASSUME Init PROVE IInv
  OBVIOUS
<1>1. TypeOK
  BY RefFacts, NumberAssumption DEF Init, TypeOK, Check, Days
<1>2. Covered
  BY DEF Init, Covered, CheckCovered, WithinAsked
<1> QED BY <1>1, <1>2 DEF IInv

\* Others change the table or the date: the history keeps up.
LEMMA ChangeIInv ==
    ASSUME IInv, Change, privileges' \in Seq(Privilege), today' \in Days, today <= today'
    PROVE  IInv'
<1> DEFINE s == [i \in Refs |-> seen[i] \cup InForce(privileges', TableRef[i], check.began)]
<1>1. /\ changes' \in 0 .. MaxChanges
      /\ check' = [check EXCEPT !.steady = FALSE]
      /\ seen' = s
  BY NumberAssumption DEF Change, IInv, TypeOK
<1>2. /\ check' \in Check
      /\ check'.pc = check.pc /\ check'.phase = check.phase /\ check'.ref = check.ref
      /\ check'.type = check.type /\ check'.db = check.db /\ check'.limit = check.limit
      /\ check'.asked = check.asked /\ check'.began = check.began /\ check'.since = check.since
  BY <1>1 DEF IInv, TypeOK, Check
<1>3. \A i \in Refs : /\ seen'[i] = seen[i] \cup InForce(privileges', TableRef[i], check.began)
                      /\ seen[i] \subseteq Limits
  BY <1>1 DEF IInv, TypeOK
<1>4. seen' \in [Refs -> SUBSET Limits]
  BY <1>1, <1>3, InForceLimits
<1>5. TypeOK'
  BY <1>1, <1>2, <1>4 DEF TypeOK
<1>6. CheckCovered(check', seen')
  <2>1. check.ref \in Refs /\ check.ref \in 1 .. Len(TableRef) /\ Len(TableRef) \in Nat
    BY RefFacts DEF IInv, TypeOK, Check
  <2>2. ASSUME NEW n \in 0 .. Len(TableRef), CoveredUpTo(check, seen, n)
        PROVE  CoveredUpTo(check', seen', n)
    <3>1. \A i \in 1 .. n : i \in Refs
      BY RefFacts
    <3> QED BY <2>2, <3>1, <1>2, <1>3 DEF CoveredUpTo
  <2>3. check.ref - 1 \in 0 .. Len(TableRef) /\ Len(TableRef) \in 0 .. Len(TableRef)
    BY <2>1
  <2>4. CheckCovered(check, seen)
    BY DEF IInv, Covered
  <2> QED BY <2>1, <2>2, <2>3, <2>4, <1>2, <1>3 DEF CheckCovered, WithinAsked
<1>7. check'.pc # "idle" => check'.began <= today'
  <2>1. check.began \in Nat /\ today \in Nat /\ today' \in Nat
    BY NumberAssumption DEF IInv, TypeOK, Check, Days
  <2> QED BY <1>2, <2>1 DEF IInv, Covered
<1> QED BY <1>2, <1>3, <1>5, <1>6, <1>7 DEF IInv, Covered

LEMMA NextIInv == IInv /\ [Next]_vars => IInv'
<1> SUFFICES ASSUME IInv, [Next]_vars PROVE IInv'
  OBVIOUS
<1>0. /\ privileges \in Seq(Privilege) /\ today \in Days /\ check \in Check
      /\ changes \in 0 .. MaxChanges /\ seen \in [Refs -> SUBSET Limits]
      /\ seen \in [Refs -> SUBSET Int]
      /\ today \in Nat /\ check.began \in Nat /\ Days \subseteq Nat
      /\ check.ref \in Refs
  <2>1. /\ privileges \in Seq(Privilege) /\ today \in Days /\ check \in Check
        /\ changes \in 0 .. MaxChanges /\ seen \in [Refs -> SUBSET Limits]
    BY DEF IInv, TypeOK
  <2>2. Days \subseteq Nat /\ Limits \subseteq Int
    BY NumberAssumption DEF Days
  <2>3. check.began \in Days /\ check.ref \in Refs
    BY <2>1 DEF Check
  <2>4. seen \in [Refs -> SUBSET Int]
    BY <2>1, <2>2
  <2> QED BY <2>1, <2>2, <2>3, <2>4
<1>1. ASSUME Start PROVE IInv'
  <2>1. PICK asked \in Asked :
          check' = [LookUp(check, "priv", 1, "db") EXCEPT
                      !.limit = asked, !.asked = asked, !.began = today, !.steady = TRUE]
    BY <1>1 DEF Start
  <2>2. /\ LookUp(check, "priv", 1, "db") \in Check
        /\ LookUp(check, "priv", 1, "db").pc = "exists"
        /\ LookUp(check, "priv", 1, "db").phase = "priv"
    <3>1. 1 \in Refs
      BY RefFacts
    <3> QED BY <3>1, <1>0 DEF LookUp, Check
  <2>3. /\ check' \in Check /\ check'.pc = "exists" /\ check'.phase = "priv"
        /\ check'.limit = asked /\ check'.asked = asked /\ check'.began = today
    BY <2>1, <2>2, <1>0, NumberAssumption DEF Check
  <2>4. /\ seen' = [i \in Refs |-> InForce(privileges, TableRef[i], today)]
        /\ UNCHANGED <<privileges, today, changes>>
    BY <1>1 DEF Start
  <2>5. seen' \in [Refs -> SUBSET Limits]
    BY <2>4, <1>0, InForceLimits
  <2>6. TypeOK'
    BY <2>3, <2>4, <2>5, <1>0 DEF TypeOK
  <2>7. CheckCovered(check', seen')
    BY <2>3, NumberAssumption DEF CheckCovered, WithinAsked
  <2> QED BY <2>3, <2>4, <2>6, <2>7, <1>0 DEF IInv, Covered
<1>2. ASSUME NEW c \in Check, NEW found \in Int,
             c.pc \in {"exists", "first"},
             CheckCovered(c, seen), c.began = check.began,
             check.pc # "idle", check.pc \in {"exists", "first"},
             found # 0 => found \in seen[c.ref],
             check' = Answered(c, found),
             UNCHANGED <<privileges, today, changes, seen>>
      PROVE  IInv'
  <2>1. /\ check' \in Check /\ CheckCovered(check', seen)
        /\ check'.began = check.began
        /\ check'.pc \in {"exists", "allowed", "refused", "error"}
    BY <1>0, <1>2, AnsweredCovered
  <2>2. TypeOK'
    BY <1>0, <1>2, <2>1 DEF TypeOK
  <2>3. CheckCovered(check', seen')
    BY <1>2, <2>1
  <2> QED BY <1>2, <2>1, <2>2, <2>3 DEF IInv, Covered
<1>3. ASSUME Exists PROVE IInv'
  <2> DEFINE c == [check EXCEPT !.since = today]
             found == UserPrivileges(privileges, TableRef[c.ref], c.type, today)
  <2>1. /\ c \in Check /\ c.pc = check.pc /\ c.phase = check.phase /\ c.ref = check.ref
        /\ c.type = check.type /\ c.db = check.db /\ c.limit = check.limit
        /\ c.asked = check.asked /\ c.began = check.began /\ c.since = today
    BY <1>0 DEF Check
  <2>2. /\ check.pc = "exists"
        /\ check' = IF found = {} THEN Answered(c, 0) ELSE [c EXCEPT !.pc = "first"]
        /\ UNCHANGED <<privileges, today, changes, seen>>
    BY <1>3 DEF Exists
  <2>3. CheckCovered(check, seen)
    BY DEF IInv, Covered
  <2> HIDE DEF c
  <2>4. CheckCovered(c, seen)
    BY <2>1, <2>3 DEF CheckCovered, CoveredUpTo, WithinAsked
  <2>5. CASE found = {}
    BY <2>1, <2>2, <2>4, <2>5, <1>2
  <2>6. CASE found # {}
    <3> DEFINE d == [c EXCEPT !.pc = "first"]
    <3>1. check' = d
      BY <2>2, <2>6
    <3>2. /\ d \in Check /\ d.pc = "first" /\ d.phase = c.phase /\ d.ref = c.ref
          /\ d.type = c.type /\ d.db = c.db /\ d.limit = c.limit
          /\ d.asked = c.asked /\ d.began = c.began /\ d.since = today
      BY <2>1 DEF Check
    <3> HIDE DEF d
    <3>3. CheckCovered(d, seen)
      BY <3>2, <2>1, <2>2, <2>4 DEF CheckCovered, CoveredUpTo, WithinAsked
    <3>4. TypeOK'
      BY <3>1, <3>2, <2>2, <1>0 DEF TypeOK
    <3> QED BY <3>1, <3>2, <3>3, <3>4, <2>1, <2>2 DEF IInv, Covered
  <2> QED BY <2>5, <2>6
<1>4. ASSUME First PROVE IInv'
  <2> DEFINE ref   == TableRef[check.ref]
             found == UserPrivileges(privileges, ref, check.type, check.since)
             k     == FirstOf(found)
  <2>1. /\ check.pc = "first"
        /\ check' = IF found = {} THEN [check EXCEPT !.pc = "error"]
                                  ELSE Answered(check, privileges[k].limit)
        /\ UNCHANGED <<privileges, today, changes, seen>>
    BY <1>4 DEF First
  <2>2. CheckCovered(check, seen)
    BY DEF IInv, Covered
  <2>3. CASE found = {}
    <3> DEFINE d == [check EXCEPT !.pc = "error"]
    <3>1. /\ d \in Check /\ d.pc = "error" /\ d.limit = check.limit
          /\ d.asked = check.asked /\ d.began = check.began
      BY <1>0 DEF Check
    <3>2. check' = d
      BY <2>1, <2>3
    <3> HIDE DEF d
    <3>3. CheckCovered(d, seen)
      BY <3>1, <2>2 DEF CheckCovered, WithinAsked
    <3>4. TypeOK'
      BY <3>1, <3>2, <2>1, <1>0 DEF TypeOK
    <3> QED BY <3>1, <3>2, <3>3, <3>4, <2>1 DEF IInv, Covered
  <2>4. CASE found # {}
    <3>1. found \subseteq Nat /\ found \subseteq DOMAIN privileges
      BY <1>0 DEF UserPrivileges
    <3>2. k \in found
      <4> HIDE DEF found
      <4> QED BY <3>1, <2>4, FirstOfFound
    <3>3. privileges[k] \in Privilege
      <4> HIDE DEF found, k
      <4> QED BY <3>1, <3>2, <1>0
    <3>4. privileges[k].limit \in Limits /\ privileges[k].limit \in Int
      BY <3>3, NumberAssumption DEF Privilege
    <3>5. check.since \in Days /\ check.began \in Days /\ check.began <= check.since
      BY <1>0, <2>1 DEF Check, IInv, Covered
    <3>6. privileges[k].limit \in InForce(privileges, ref, check.began)
      <4> HIDE DEF k, ref
      <4> QED BY <3>2, <3>5, <1>0, FoundInForce
    <3>7. privileges[k].limit \in seen[check.ref]
      BY <3>6, <2>1, <1>0 DEF IInv, Covered
    <3> HIDE DEF k, found
    <3> QED BY <3>4, <3>7, <2>1, <2>2, <2>4, <1>0, <1>2
  <2> QED BY <2>3, <2>4
<1>5. ASSUME Insert PROVE IInv'
  <2>1. PICK row \in Privilege : privileges' = Append(privileges, row)
    <3>1. PICK ref \in Range(TableRef), db \in BOOLEAN, any \in BOOLEAN, valid \in Days, limit \in Limits :
            privileges' = Append(privileges,
                [type    |-> IF db THEN "db" ELSE "table",
                 db      |-> IF any THEN AnyDb ELSE ref.db,
                 name    |-> IF db THEN NoTable ELSE ref.name,
                 valid   |-> valid, limit |-> limit, deleted |-> FALSE])
      BY <1>5 DEF Insert
    <3>2. ref.db \in Dbs /\ ref.name \in Names \cup {NoTable}
      BY RefFacts DEF Range, Refs
    <3> QED BY <3>1, <3>2 DEF Privilege
  <2>2. privileges' \in Seq(Privilege)
    BY <2>1, <1>0
  <2> QED BY <1>5, <2>2, <1>0, ChangeIInv DEF Insert
<1>6. ASSUME Delete PROVE IInv'
  <2>1. PICK k \in DOMAIN privileges : privileges' = [privileges EXCEPT ![k].deleted = TRUE]
    BY <1>6 DEF Delete
  <2>2. [privileges[k] EXCEPT !.deleted = TRUE] \in Privilege
    <3>1. privileges[k] \in Privilege
      BY <1>0
    <3> QED BY <3>1 DEF Privilege
  <2>3. privileges' \in Seq(Privilege)
    BY <2>1, <2>2, <1>0
  <2> QED BY <1>6, <2>3, <1>0, ChangeIInv DEF Delete
<1>7. ASSUME Modify PROVE IInv'
  <2>1. PICK k \in DOMAIN privileges, valid \in Days, limit \in Limits :
          privileges' = [privileges EXCEPT ![k].valid = valid, ![k].limit = limit]
    BY <1>7 DEF Modify
  <2>2. [privileges[k] EXCEPT !.valid = valid, !.limit = limit] \in Privilege
    <3>1. privileges[k] \in Privilege
      BY <1>0
    <3> QED BY <3>1 DEF Privilege
  <2>3. privileges' = [privileges EXCEPT ![k] = [privileges[k] EXCEPT !.valid = valid, !.limit = limit]]
    BY <2>1
  <2>4. privileges' \in Seq(Privilege)
    BY <2>2, <2>3, <1>0
  <2> QED BY <1>7, <2>4, <1>0, ChangeIInv DEF Modify
<1>8. ASSUME NextDay PROVE IInv'
  <2>1. today' \in Days /\ today <= today' /\ privileges' = privileges
    BY <1>8, <1>0, NumberAssumption DEF NextDay, Days
  <2> QED BY <1>8, <2>1, <1>0, ChangeIInv DEF NextDay
<1>9. CASE UNCHANGED vars
  BY <1>9 DEF vars, IInv, TypeOK, Covered
<1> QED BY <1>1, <1>3, <1>4, <1>5, <1>6, <1>7, <1>8, <1>9 DEF Next

----------------------------------------------------------------------------
\* The types of the table of privileges, of the check and of the history.
THEOREM TypeCorrect == Spec => []TypeOK
<1>1. IInv => TypeOK
  BY DEF IInv
<1> QED BY <1>1, InitIInv, NextIInv, PTL DEF Spec

\* The limit of an allowed query is one that was asked for or in force, no larger
\* than what was asked for and, for each of its tables, than some limit in force
\* for that table, whatever changed during the check.
THEOREM AllowedIsCovered == Spec => []LimitCovered
<1>1. IInv => LimitCovered
  <2> SUFFICES ASSUME IInv, check.pc = "allowed" PROVE LimitCovered
    BY DEF LimitCovered, Allowed
  <2>1. CoveredUpTo(check, seen, Len(TableRef)) /\ WithinAsked(check, seen)
    BY DEF IInv, Covered, CheckCovered
  <2>2. 1 \in 1 .. Len(TableRef)
    BY RefFacts
  <2>3. /\ check.limit # 0
        /\ \A i \in Refs : \E l \in seen[i] : check.limit <= l
    BY <2>1, <2>2, RefFacts DEF CoveredUpTo
  <2>4. check.limit \in AskedLimit \cup UNION {seen[i] : i \in Refs}
    BY <2>1, <2>3 DEF WithinAsked, AskedLimit
  <2> QED BY <2>1, <2>3, <2>4 DEF LimitCovered, WithinAsked
<1> QED BY <1>1, InitIInv, NextIInv, PTL DEF Spec

\* The strengthening itself: at every look-up of the second loop the limit so
\* far is covered for the tables before it, and no limit in force escapes the
\* history.
THEOREM AlwaysCovered == Spec => []Covered
<1>1. IInv => Covered
  BY DEF IInv
<1> QED BY <1>1, InitIInv, NextIInv, PTL DEF Spec

----------------------------------------------------------------------------
(***************************************************************************)
(* The steady check: nothing has changed since it began, so every look-up  *)
(* finds what the reference asks of the table.  `rows' and `day' are the   *)
(* table of privileges and the date; SoFar is what must have been combined *)
(* when the first n tables are settled.                                    *)
(***************************************************************************)
FirstHit(rows, day, i, type) ==
    LET hits == UserPrivileges(rows, TableRef[i], type, day)
    IN  IF hits = {} THEN {} ELSE {rows[FirstOf(hits)].limit} \ {0}

Hits(rows, day, i) == FirstHit(rows, day, i, "db") \cup FirstHit(rows, day, i, "table")

SoFar(asked, rows, day, n) ==
    (IF asked = 0 THEN {} ELSE {asked}) \cup UNION {Hits(rows, day, i) : i \in 1 .. n}

\* The least of some limits, where 0 says that there is none.
Least(m, S) ==
    \/ S = {} /\ m = 0
    \/ m \in S /\ \A x \in S : m <= x

Searching(c) == c.pc \in {"exists", "first"}

SteadyAt(c, rows, day) ==
    /\ c.pc = "first" => c.since = day /\ UserPrivileges(rows, TableRef[c.ref], c.type, day) # {}
    /\ Searching(c) /\ c.type = "table" => TableRef[c.ref].name # NoTable
    /\ Searching(c) /\ c.phase = "priv" =>
         /\ c.limit = c.asked
         /\ \A i \in 1 .. c.ref - 1 : Hits(rows, day, i) # {}
         /\ c.type = "table" => FirstHit(rows, day, c.ref, "db") = {}
    /\ Searching(c) /\ c.phase = "limit" =>
         /\ \A i \in Refs : Hits(rows, day, i) # {}
         /\ Least(c.limit, SoFar(c.asked, rows, day, c.ref - 1))
         /\ c.type = "table" => Least(c.db, FirstHit(rows, day, c.ref, "db"))
    /\ c.pc = "refused" => \E i \in Refs : Hits(rows, day, i) = {}
    /\ c.pc # "error"
    /\ c.pc = "allowed" =>
         /\ \A i \in Refs : Hits(rows, day, i) # {}
         /\ Least(c.limit, SoFar(c.asked, rows, day, Len(TableRef)))

\* The rows are well formed: a privilege on a table names one.
TablesNamed(rows) ==
    \A k \in DOMAIN rows : rows[k].type = "table" => rows[k].name # NoTable

SteadyInv ==
    /\ TablesNamed(privileges)
    /\ check.steady => SteadyAt(check, privileges, today)

----------------------------------------------------------------------------
\* Limits that are looked up are numbers other than 0.
LEMMA FirstHitFacts ==
    ASSUME NEW rows \in Seq(Privilege), NEW day \in Days, NEW i \in Refs, NEW type
    PROVE  FirstHit(rows, day, i, type) \subseteq Int \ {0}
<1> DEFINE hits == UserPrivileges(rows, TableRef[i], type, day)
<1>1. hits \subseteq DOMAIN rows /\ DOMAIN rows \subseteq Nat
  BY DEF UserPrivileges
<1>2. CASE hits = {}
  BY <1>2 DEF FirstHit
<1>3. CASE hits # {}
  <2> DEFINE k == FirstOf(hits)
  <2>1. FirstHit(rows, day, i, type) = {rows[k].limit} \ {0}
    BY <1>3 DEF FirstHit
  <2>2. hits \in SUBSET Nat
    BY <1>1
  <2>3. k \in hits
    <3> HIDE DEF hits
    <3> QED BY <1>3, <2>2, FirstOfFound
  <2>4. k \in DOMAIN rows
    <3> HIDE DEF hits, k
    <3> QED BY <1>1, <2>3
  <2> HIDE DEF k, hits
  <2>5. rows[k] \in Privilege
    BY <2>4
  <2>6. rows[k].limit \in Int
    BY <2>5, NumberAssumption DEF Privilege
  <2> QED BY <2>1, <2>6
<1> QED BY <1>2, <1>3

\* A table without a name, that is a database, has no privileges of its own.
LEMMA NoTableHits ==
    ASSUME NEW rows, TablesNamed(rows), NEW day, NEW i, TableRef[i].name = NoTable
    PROVE  FirstHit(rows, day, i, "table") = {}
BY DEF FirstHit, UserPrivileges, Matches, TablesNamed

\* When every privilege has a limit, the look-ups find nothing exactly when nothing
\* is in force.
LEMMA HitsInForce ==
    ASSUME NEW rows \in Seq(Privilege), NEW day, NEW i,
           \A k \in DOMAIN rows : rows[k].limit # 0
    PROVE  Hits(rows, day, i) = {} <=> InForce(rows, TableRef[i], day) = {}
<1>1. ASSUME NEW type
      PROVE  FirstHit(rows, day, i, type) = {} <=> UserPrivileges(rows, TableRef[i], type, day) = {}
  <2> DEFINE hits == UserPrivileges(rows, TableRef[i], type, day)
  <2>1. hits \subseteq DOMAIN rows /\ hits \in SUBSET Nat
    BY DEF UserPrivileges
  <2>2. FirstHit(rows, day, i, type) =
          IF hits = {} THEN {} ELSE {rows[FirstOf(hits)].limit} \ {0}
    BY DEF FirstHit
  <2> HIDE DEF hits
  <2>3. hits # {} => rows[FirstOf(hits)].limit # 0
    BY <2>1, FirstOfFound
  <2>4. hits # {} => FirstHit(rows, day, i, type) # {}
    BY <2>2, <2>3
  <2>5. hits = {} => FirstHit(rows, day, i, type) = {}
    BY <2>2
  <2> QED BY <2>4, <2>5 DEF hits
<1>2. \A k \in DOMAIN rows :
        Permits(rows[k], TableRef[i], day) <=>
          \/ k \in UserPrivileges(rows, TableRef[i], "db", day)
          \/ k \in UserPrivileges(rows, TableRef[i], "table", day)
  BY DEF Permits, UserPrivileges, Matches
<1>3. /\ UserPrivileges(rows, TableRef[i], "db", day) \subseteq DOMAIN rows
      /\ UserPrivileges(rows, TableRef[i], "table", day) \subseteq DOMAIN rows
  BY DEF UserPrivileges
<1>4. InForce(rows, TableRef[i], day) = {} <=>
        \A k \in DOMAIN rows : ~Permits(rows[k], TableRef[i], day)
  BY DEF InForce
<1> QED BY <1>1, <1>2, <1>3, <1>4 DEF Hits

\* Two limits are combined into the least of both sets.
LEMMA LimitedLeast ==
    ASSUME NEW S \in SUBSET (Int \ {0}), NEW T \in SUBSET (Int \ {0}),
           NEW m, NEW n, Least(m, S), Least(n, T),
           NEW l, l = IF n # 0 THEN Limited(m, n) ELSE m
    PROVE  Least(l, S \cup T)
<1>1. /\ m \in Int /\ n \in Int
      /\ m = 0 <=> S = {}
      /\ n = 0 <=> T = {}
  <2>1. ASSUME NEW U \in SUBSET (Int \ {0}), NEW k, Least(k, U)
        PROVE  k \in Int /\ (k = 0 <=> U = {})
    <3>1. CASE U = {} /\ k = 0
      BY <3>1
    <3>2. CASE k \in U
      BY <3>2
    <3> QED BY <2>1, <3>1, <3>2 DEF Least
  <2> QED BY <2>1
<1>2. CASE n = 0
  BY <1>1, <1>2 DEF Least
<1>3. CASE n # 0 /\ m = 0
  BY <1>1, <1>3 DEF Least, Limited
<1>4. CASE n # 0 /\ m # 0
  BY <1>1, <1>4 DEF Least, Limited, Pick
<1> QED BY <1>1, <1>2, <1>3, <1>4

LEMMA SoFarNext ==
    ASSUME NEW asked, NEW rows, NEW day, NEW n \in Nat \ {0}
    PROVE  SoFar(asked, rows, day, n) = SoFar(asked, rows, day, n - 1) \cup Hits(rows, day, n)
<1>1. 1 .. n = (1 .. n - 1) \cup {n}
  OBVIOUS
<1> QED BY <1>1 DEF SoFar

LEMMA SoFarNumbers ==
    ASSUME NEW asked \in Int, NEW rows \in Seq(Privilege), NEW day \in Days,
           NEW n \in 0 .. Len(TableRef)
    PROVE  SoFar(asked, rows, day, n) \subseteq Int \ {0}
<1>1. \A i \in 1 .. n : i \in Refs /\ Hits(rows, day, i) \subseteq Int \ {0}
  BY RefFacts, FirstHitFacts DEF Hits
<1> QED BY <1>1 DEF SoFar

----------------------------------------------------------------------------
\* A table is settled: the next look-up, or the result, is as steady.
LEMMA SettledSteady ==
    ASSUME NEW c \in Check, NEW rows, NEW day,
           c.phase = "priv" =>
             /\ c.limit = c.asked
             /\ \A i \in 1 .. c.ref : Hits(rows, day, i) # {},
           c.phase = "limit" =>
             /\ \A i \in Refs : Hits(rows, day, i) # {}
             /\ Least(c.limit, SoFar(c.asked, rows, day, c.ref))
    PROVE  SteadyAt(Settled(c), rows, day)
<1>1. c.ref \in 1 .. Len(TableRef) /\ c.phase \in {"priv", "limit"} /\ Len(TableRef) \in Nat
      /\ Refs = 1 .. Len(TableRef)
  BY RefFacts DEF Check
<1>2. CASE c.ref < Len(TableRef)
  <2> DEFINE d == LookUp(c, c.phase, c.ref + 1, "db")
  <2>1. Settled(c) = d
    BY <1>2 DEF Settled
  <2>2. c.ref + 1 \in Refs
    BY <1>1, <1>2
  <2>3. /\ d.pc = "exists" /\ d.phase = c.phase /\ d.ref = c.ref + 1 /\ d.type = "db"
        /\ d.limit = c.limit /\ d.asked = c.asked
    BY <1>1, <2>2 DEF LookUp, Check
  <2>4. d.ref - 1 = c.ref
    BY <1>1, <2>3
  <2> HIDE DEF d
  <2>5. SteadyAt(d, rows, day)
    BY <2>3, <2>4 DEF SteadyAt, Searching
  <2> QED BY <2>1, <2>5
<1>3. CASE ~(c.ref < Len(TableRef)) /\ c.phase = "priv"
  <2> DEFINE d == LookUp(c, "limit", 1, "db")
  <2>1. Settled(c) = d
    BY <1>3 DEF Settled
  <2>2. 1 \in Refs /\ c.ref = Len(TableRef)
    BY <1>1, <1>3
  <2>3. /\ d.pc = "exists" /\ d.phase = "limit" /\ d.ref = 1 /\ d.type = "db"
        /\ d.limit = c.limit /\ d.asked = c.asked
    BY <1>1, <2>2 DEF LookUp, Check
  <2> HIDE DEF d
  <2>4. Least(d.limit, SoFar(d.asked, rows, day, d.ref - 1))
    <3>1. SoFar(d.asked, rows, day, 0) = IF d.asked = 0 THEN {} ELSE {d.asked}
      BY DEF SoFar
    <3>2. d.limit = d.asked /\ d.ref - 1 = 0 /\ d.asked \in Int
      BY <1>3, <2>3 DEF Check
    <3> QED BY <3>1, <3>2 DEF Least
  <2>5. SteadyAt(d, rows, day)
    BY <1>1, <1>3, <2>2, <2>3, <2>4 DEF SteadyAt, Searching
  <2> QED BY <2>1, <2>5
<1>4. CASE ~(c.ref < Len(TableRef)) /\ c.phase = "limit"
  <2> DEFINE d == [c EXCEPT !.pc = "allowed"]
  <2>1. Settled(c) = d
    BY <1>4 DEF Settled
  <2>2. /\ d.pc = "allowed" /\ d.limit = c.limit /\ d.asked = c.asked
        /\ c.ref = Len(TableRef)
    BY <1>1, <1>4 DEF Check
  <2> HIDE DEF d
  <2>3. SteadyAt(d, rows, day)
    BY <1>4, <2>2 DEF SteadyAt, Searching
  <2> QED BY <2>1, <2>3
<1> QED BY <1>1, <1>2, <1>3, <1>4

\* Both look-ups of the limit of a table are done.
LEMMA LimitFoundSteady ==
    ASSUME NEW c \in Check, NEW rows \in Seq(Privilege), NEW day \in Days,
           NEW found, c.phase = "limit",
           \A i \in Refs : Hits(rows, day, i) # {},
           Least(c.limit, SoFar(c.asked, rows, day, c.ref - 1)),
           Least(c.db, FirstHit(rows, day, c.ref, "db")),
           Least(found, FirstHit(rows, day, c.ref, "table"))
    PROVE  SteadyAt(LimitFound(c, found), rows, day)
<1> DEFINE both == IF found # 0 THEN Limited(c.db, found) ELSE c.db
           n    == Limited(c.limit, both)
           d    == [c EXCEPT !.limit = n]
<1>1. /\ c.ref \in Refs /\ c.ref \in Nat \ {0} /\ c.ref - 1 \in 0 .. Len(TableRef)
      /\ c.asked \in Int
  BY RefFacts DEF Check
<1>2. /\ Least(both, Hits(rows, day, c.ref))
      /\ both # 0
  <2>1. /\ FirstHit(rows, day, c.ref, "db") \in SUBSET (Int \ {0})
        /\ FirstHit(rows, day, c.ref, "table") \in SUBSET (Int \ {0})
    BY <1>1, FirstHitFacts
  <2>2. Hits(rows, day, c.ref) # {}
    BY <1>1
  <2>3. both = IF found # 0 THEN Limited(c.db, found) ELSE c.db
    OBVIOUS
  <2> DEFINE dbHit == FirstHit(rows, day, c.ref, "db")
             tableHit == FirstHit(rows, day, c.ref, "table")
  <2>4. /\ dbHit \in SUBSET (Int \ {0}) /\ tableHit \in SUBSET (Int \ {0})
        /\ Least(c.db, dbHit) /\ Least(found, tableHit)
        /\ Hits(rows, day, c.ref) = dbHit \cup tableHit
    BY <2>1 DEF Hits
  <2> HIDE DEF both, dbHit, tableHit
  <2>5. Least(both, dbHit \cup tableHit)
    BY <2>3, <2>4, LimitedLeast
  <2>6. both # 0
    BY <2>2, <2>4, <2>5 DEF Least
  <2> QED BY <2>4, <2>5, <2>6
<1>3. LimitFound(c, found) = Settled(d)
  BY <1>2 DEF LimitFound
<1> HIDE DEF both
<1>4. Least(n, SoFar(c.asked, rows, day, c.ref))
  <2>1. /\ SoFar(c.asked, rows, day, c.ref - 1) \in SUBSET (Int \ {0})
        /\ Hits(rows, day, c.ref) \in SUBSET (Int \ {0})
    BY <1>1, SoFarNumbers, FirstHitFacts DEF Hits
  <2>2. n = IF both # 0 THEN Limited(c.limit, both) ELSE c.limit
    BY <1>2
  <2> HIDE DEF n
  <2> DEFINE before == SoFar(c.asked, rows, day, c.ref - 1)
             hit == Hits(rows, day, c.ref)
  <2>3. Least(n, before \cup hit)
    <3>1. /\ before \in SUBSET (Int \ {0}) /\ hit \in SUBSET (Int \ {0})
          /\ Least(c.limit, before) /\ Least(both, hit)
      BY <1>2, <2>1
    <3> HIDE DEF before, hit
    <3> QED BY <2>2, <3>1, LimitedLeast
  <2>4. SoFar(c.asked, rows, day, c.ref) =
          SoFar(c.asked, rows, day, c.ref - 1) \cup Hits(rows, day, c.ref)
    BY <1>1, SoFarNext
  <2> QED BY <2>3, <2>4
<1>5. n \in Int
  <2>1. both \in Int
    <3>1. Hits(rows, day, c.ref) \subseteq Int
      BY <1>1, FirstHitFacts DEF Hits
    <3> QED BY <1>2, <3>1 DEF Least
  <2>2. c.limit \in Int
    BY DEF Check
  <2> QED BY <2>1, <2>2, LimitedFacts
<1> HIDE DEF n
<1>6. /\ d \in Check /\ d.limit = n /\ d.asked = c.asked /\ d.ref = c.ref /\ d.phase = "limit"
  BY <1>5 DEF Check
<1> HIDE DEF d
<1> QED BY <1>3, <1>4, <1>6, SettledSteady

\* The look-up in progress returned the first hit of its type, or none.
LEMMA AnsweredSteady ==
    ASSUME NEW c \in Check, NEW rows \in Seq(Privilege), TablesNamed(rows),
           NEW day \in Days, NEW found \in Int,
           Searching(c), SteadyAt(c, rows, day),
           Least(found, FirstHit(rows, day, c.ref, c.type))
    PROVE  SteadyAt(Answered(c, found), rows, day)
<1> DEFINE byTable == TableRef[c.ref].name # NoTable
           dbHit == FirstHit(rows, day, c.ref, "db")
           tableHit == FirstHit(rows, day, c.ref, "table")
<1>1. /\ c.type = "table" => byTable
      /\ c.phase = "priv" =>
           /\ c.limit = c.asked
           /\ \A i \in 1 .. c.ref - 1 : Hits(rows, day, i) # {}
           /\ c.type = "table" => dbHit = {}
      /\ c.phase = "limit" =>
           /\ \A i \in Refs : Hits(rows, day, i) # {}
           /\ Least(c.limit, SoFar(c.asked, rows, day, c.ref - 1))
           /\ c.type = "table" => Least(c.db, dbHit)
      /\ c.ref \in Refs /\ c.phase \in {"priv", "limit"} /\ c.type \in {"db", "table"}
  BY DEF SteadyAt, Check
<1>2. /\ found = 0 <=> FirstHit(rows, day, c.ref, c.type) = {}
      /\ c.ref \in Nat
      /\ Hits(rows, day, c.ref) = dbHit \cup tableHit
      /\ ~byTable => tableHit = {}
  <2>1. FirstHit(rows, day, c.ref, c.type) \subseteq Int \ {0}
    BY <1>1, FirstHitFacts
  <2> QED BY <1>1, <2>1, RefFacts, NoTableHits DEF Least, Hits
<1> HIDE DEF dbHit, tableHit
<1>3. CASE c.phase = "priv" /\ found # 0
  <2>1. Answered(c, found) = Settled(c)
    BY <1>3 DEF Answered
  <2>2. Hits(rows, day, c.ref) # {}
    BY <1>1, <1>2, <1>3 DEF dbHit, tableHit
  <2>3. \A i \in 1 .. c.ref : Hits(rows, day, i) # {}
    BY <1>1, <1>2, <1>3, <2>2
  <2> QED BY <1>1, <1>3, <2>1, <2>3, SettledSteady
<1>4. CASE c.phase = "priv" /\ found = 0 /\ c.type = "db" /\ byTable
  <2> DEFINE d == LookUp(c, "priv", c.ref, "table")
  <2>1. Answered(c, found) = d
    BY <1>4 DEF Answered
  <2>2. /\ d.pc = "exists" /\ d.phase = "priv" /\ d.limit = c.limit /\ d.ref = c.ref
        /\ d.asked = c.asked
    BY <1>1 DEF LookUp, Check
  <2> HIDE DEF d
  <2>3. SteadyAt(d, rows, day)
    BY <1>1, <1>2, <1>4, <2>2 DEF SteadyAt, Searching, dbHit
  <2> QED BY <2>1, <2>3
<1>5. CASE c.phase = "priv" /\ found = 0 /\ ~(c.type = "db" /\ byTable)
  <2> DEFINE d == [c EXCEPT !.pc = "refused"]
  <2>1. Answered(c, found) = d
    BY <1>5 DEF Answered
  <2>2. d.pc = "refused"
    BY DEF Check
  <2>3. Hits(rows, day, c.ref) = {}
    BY <1>1, <1>2, <1>5 DEF dbHit, tableHit
  <2> HIDE DEF d
  <2>4. SteadyAt(d, rows, day)
    BY <1>1, <2>2, <2>3 DEF SteadyAt, Searching
  <2> QED BY <2>1, <2>4
<1>6. CASE c.phase = "limit" /\ c.type = "db"
  <2> DEFINE e == [c EXCEPT !.db = found]
  <2>1. /\ e \in Check /\ e.db = found /\ e.limit = c.limit /\ e.asked = c.asked
        /\ e.ref = c.ref /\ e.phase = c.phase
    BY DEF Check
  <2>2. Least(found, dbHit)
    BY <1>6 DEF dbHit
  <2>3. CASE byTable
    <3> DEFINE d == LookUp(e, "limit", c.ref, "table")
    <3>1. Answered(c, found) = d
      BY <1>6, <2>3 DEF Answered
    <3> HIDE DEF e
    <3>2. /\ d.pc = "exists" /\ d.phase = "limit" /\ d.ref = c.ref /\ d.type = "table"
          /\ d.limit = c.limit /\ d.asked = c.asked /\ d.db = found
      BY <1>1, <2>1 DEF LookUp, Check
    <3> HIDE DEF d
    <3>3. SteadyAt(d, rows, day)
      BY <1>1, <1>6, <2>2, <2>3, <3>2 DEF SteadyAt, Searching, dbHit
    <3> QED BY <3>1, <3>3
  <2>4. CASE ~byTable
    <3>1. Answered(c, found) = LimitFound(e, 0)
      BY <1>6, <2>4 DEF Answered
    <3> HIDE DEF e
    <3>2. Least(0, tableHit)
      BY <1>2, <2>4 DEF Least
    <3> QED BY <1>1, <1>6, <2>1, <2>2, <3>1, <3>2, LimitFoundSteady DEF dbHit, tableHit
  <2> QED BY <2>3, <2>4
<1>7. CASE c.phase = "limit" /\ c.type = "table"
  <2>1. Answered(c, found) = LimitFound(c, found)
    BY <1>7 DEF Answered
  <2> QED BY <1>1, <1>7, <2>1, LimitFoundSteady DEF dbHit, tableHit
<1> QED BY <1>1, <1>3, <1>4, <1>5, <1>6, <1>7

----------------------------------------------------------------------------
\* A look-up does not touch what the history says of the check.
LEMMA AnsweredSame ==
    ASSUME NEW c \in Check, NEW found \in Int
    PROVE  Answered(c, found).steady = c.steady
<1>1. \A d \in Check : \A phase, ref, type :
        LookUp(d, phase, ref, type).steady = d.steady
  BY DEF LookUp, Check
<1>2. \A d \in Check : Settled(d).steady = d.steady
  BY <1>1 DEF Settled, Check
<1>3. \A d \in Check, l \in Int :
        LimitFound(d, l).steady = d.steady
  <2> SUFFICES ASSUME NEW d \in Check, NEW l \in Int PROVE LimitFound(d, l).steady = d.steady
    OBVIOUS
  <2> DEFINE both == IF l # 0 THEN Limited(d.db, l) ELSE d.db
             e == [d EXCEPT !.limit = Limited(d.limit, both)]
  <2>1. both \in Int /\ Limited(d.limit, both) \in Int
    BY LimitedFacts DEF Check
  <2> HIDE DEF both
  <2>2. e \in Check /\ e.steady = d.steady
    BY <2>1 DEF Check
  <2>3. LimitFound(d, l) = [d EXCEPT !.pc = "error"] \/ LimitFound(d, l) = Settled(e)
    BY DEF LimitFound, both
  <2> HIDE DEF e
  <2> QED BY <1>2, <2>2, <2>3 DEF Check
<1>4. [c EXCEPT !.db = found] \in Check /\ [c EXCEPT !.db = found].steady = c.steady
      /\ [c EXCEPT !.pc = "refused"].steady = c.steady
      /\ c.phase \in {"priv", "limit"} /\ c.type \in {"db", "table"}
  BY DEF Check
<1>5. \/ Answered(c, found) \in {Settled(c), LookUp(c, "priv", c.ref, "table"),
                                  [c EXCEPT !.pc = "refused"], LimitFound(c, found)}
      \/ Answered(c, found) \in {LookUp([c EXCEPT !.db = found], "limit", c.ref, "table"),
                                  LimitFound([c EXCEPT !.db = found], 0)}
  <2> DEFINE byTable == TableRef[c.ref].name # NoTable
  <2>1. CASE c.phase = "priv" /\ found # 0
    BY <2>1 DEF Answered
  <2>2. CASE c.phase = "priv" /\ found = 0 /\ c.type = "db" /\ byTable
    BY <2>2 DEF Answered
  <2>3. CASE c.phase = "priv" /\ found = 0 /\ ~(c.type = "db" /\ byTable)
    BY <2>3 DEF Answered
  <2>4. CASE c.phase = "limit" /\ c.type = "db" /\ byTable
    BY <2>4 DEF Answered
  <2>5. CASE c.phase = "limit" /\ c.type = "db" /\ ~byTable
    BY <2>5 DEF Answered
  <2>6. CASE c.phase = "limit" /\ c.type = "table"
    BY <2>6 DEF Answered
  <2> QED BY <1>4, <2>1, <2>2, <2>3, <2>4, <2>5, <2>6
<1> DEFINE e == [c EXCEPT !.db = found]
           d == [c EXCEPT !.pc = "refused"]
<1> HIDE DEF d, e
<1>6. e \in Check /\ e.steady = c.steady /\ d.steady = c.steady
  BY <1>4 DEF d, e
<1>7. \/ Answered(c, found) \in {Settled(c), LookUp(c, "priv", c.ref, "table"), d, LimitFound(c, found)}
      \/ Answered(c, found) \in {LookUp(e, "limit", c.ref, "table"), LimitFound(e, 0)}
  BY <1>5 DEF d, e
<1> QED BY <1>1, <1>2, <1>3, <1>6, <1>7

LEMMA InitSteady == Init => SteadyInv
BY DEF Init, SteadyInv, TablesNamed

LEMMA NextSteady == IInv /\ SteadyInv /\ [Next]_vars => SteadyInv'
<1> SUFFICES ASSUME IInv, SteadyInv, [Next]_vars PROVE SteadyInv'
  OBVIOUS
<1>0. /\ privileges \in Seq(Privilege) /\ today \in Days /\ check \in Check
      /\ check.ref \in Refs /\ check.since \in Days /\ TablesNamed(privileges)
      /\ Asked \subseteq Int
  BY NumberAssumption DEF IInv, TypeOK, Check, SteadyInv
<1>1. CASE Start
  <2>1. PICK asked \in Asked :
          check' = [LookUp(check, "priv", 1, "db") EXCEPT
                      !.limit = asked, !.asked = asked, !.began = today, !.steady = TRUE]
    BY <1>1 DEF Start
  <2>2. LookUp(check, "priv", 1, "db") \in Check
        /\ LookUp(check, "priv", 1, "db").pc = "exists"
        /\ LookUp(check, "priv", 1, "db").phase = "priv"
        /\ LookUp(check, "priv", 1, "db").ref = 1
        /\ LookUp(check, "priv", 1, "db").type = "db"
    <3>1. 1 \in Refs
      BY RefFacts
    <3> QED BY <3>1, <1>0 DEF LookUp, Check
  <2>3. /\ check'.pc = "exists" /\ check'.phase = "priv" /\ check'.ref = 1 /\ check'.type = "db"
        /\ check'.limit = check'.asked
    BY <2>1, <2>2 DEF Check
  <2>4. SteadyAt(check', privileges', today')
    BY <2>3 DEF SteadyAt, Searching
  <2>5. TablesNamed(privileges')
    BY <1>0, <1>1 DEF Start
  <2> QED BY <2>4, <2>5 DEF SteadyInv
<1>2. CASE Exists
  <2> DEFINE c == [check EXCEPT !.since = today]
             hits == UserPrivileges(privileges, TableRef[c.ref], c.type, today)
  <2>1. /\ c \in Check /\ c.pc = check.pc /\ c.phase = check.phase /\ c.ref = check.ref
        /\ c.type = check.type /\ c.db = check.db /\ c.limit = check.limit
        /\ c.asked = check.asked /\ c.since = today /\ c.steady = check.steady
    BY <1>0 DEF Check
  <2>2. /\ check.pc = "exists" /\ UNCHANGED <<privileges, today>>
        /\ check' = IF hits = {} THEN Answered(c, 0) ELSE [c EXCEPT !.pc = "first"]
    BY <1>2 DEF Exists
  <2> SUFFICES ASSUME check'.steady PROVE SteadyAt(check', privileges, today)
    BY <1>0, <2>2 DEF SteadyInv
  <2> HIDE DEF c
  <2>3. check.steady
    <3>1. Answered(c, 0).steady = c.steady
      BY <2>1, AnsweredSame
    <3> QED BY <2>1, <2>2, <3>1 DEF Check
  <2>4. SteadyAt(c, privileges, today) /\ Searching(c)
    BY <2>1, <2>2, <2>3 DEF SteadyInv, SteadyAt, Searching
  <2>5. CASE hits = {}
    <3>1. Least(0, FirstHit(privileges, today, c.ref, c.type))
      BY <2>5 DEF FirstHit, Least
    <3> QED BY <1>0, <2>1, <2>2, <2>4, <2>5, <3>1, AnsweredSteady
  <2>6. CASE hits # {}
    <3> DEFINE d == [c EXCEPT !.pc = "first"]
    <3>1. check' = d
      BY <2>2, <2>6
    <3>2. /\ d.pc = "first" /\ d.phase = c.phase /\ d.ref = c.ref /\ d.type = c.type
          /\ d.db = c.db /\ d.limit = c.limit /\ d.asked = c.asked /\ d.since = today
      BY <2>1 DEF Check
    <3>3. UserPrivileges(privileges, TableRef[c.ref], c.type, today) # {}
      BY <2>6
    <3> HIDE DEF d, hits
    <3>4. SteadyAt(d, privileges, today)
      BY <2>1, <2>2, <2>4, <3>2, <3>3 DEF SteadyAt, Searching
    <3> QED BY <3>1, <3>4
  <2> QED BY <2>5, <2>6
<1>3. CASE First
  <2> DEFINE hits == UserPrivileges(privileges, TableRef[check.ref], check.type, check.since)
             k == FirstOf(hits)
  <2>1. /\ check.pc = "first" /\ UNCHANGED <<privileges, today>>
        /\ check' = IF hits = {} THEN [check EXCEPT !.pc = "error"]
                                 ELSE Answered(check, privileges[k].limit)
    BY <1>3 DEF First
  <2> SUFFICES ASSUME check'.steady PROVE SteadyAt(check', privileges, today)
    BY <1>0, <2>1 DEF SteadyInv
  <2>2. check.steady
    <3>1. \A n \in Int : Answered(check, n).steady = check.steady
      BY <1>0, AnsweredSame
    <3>2. CASE hits = {}
      BY <1>0, <2>1, <3>2 DEF Check
    <3>3. CASE hits # {}
      <4>1. privileges[k].limit \in Int
        <5>1. hits \in SUBSET Nat /\ hits \subseteq DOMAIN privileges
          BY <1>0 DEF UserPrivileges
        <5>2. k \in hits
          <6> HIDE DEF hits
          <6> QED BY <5>1, <3>3, FirstOfFound
        <5> HIDE DEF hits, k
        <5>3. privileges[k] \in Privilege
          BY <1>0, <5>1, <5>2
        <5> QED BY <5>3, NumberAssumption DEF Privilege
      <4> HIDE DEF hits, k
      <4> QED BY <2>1, <3>1, <3>3, <4>1
    <3> QED BY <3>2, <3>3
  <2>3. /\ SteadyAt(check, privileges, today) /\ Searching(check)
        /\ check.since = today /\ hits # {}
    BY <2>1, <2>2 DEF SteadyInv, SteadyAt, Searching
  <2>4. FirstHit(privileges, today, check.ref, check.type) = {privileges[k].limit} \ {0}
    BY <2>3 DEF FirstHit
  <2>5. privileges[k].limit \in Int
    <3>1. hits \in SUBSET Nat /\ hits \subseteq DOMAIN privileges
      BY <1>0 DEF UserPrivileges
    <3>2. k \in hits
      <4> HIDE DEF hits
      <4> QED BY <2>3, <3>1, FirstOfFound
    <3> HIDE DEF hits, k
    <3>3. privileges[k] \in Privilege
      BY <1>0, <3>1, <3>2
    <3> QED BY <3>3, NumberAssumption DEF Privilege
  <2>6. Least(privileges[k].limit, FirstHit(privileges, today, check.ref, check.type))
    <3> HIDE DEF k
    <3> QED BY <2>4, <2>5 DEF Least
  <2> HIDE DEF hits, k
  <2> QED BY <1>0, <2>1, <2>3, <2>5, <2>6, AnsweredSteady
<1>4. ASSUME Change, TablesNamed(privileges') PROVE SteadyInv'
  <2>1. check' = [check EXCEPT !.steady = FALSE]
    BY <1>4 DEF Change
  <2>2. ~check'.steady
    BY <1>0, <2>1 DEF Check
  <2> QED BY <1>4, <2>2 DEF SteadyInv
<1>5. CASE Insert
  <2>1. PICK ref \in Range(TableRef), db \in BOOLEAN, any \in BOOLEAN, valid \in Days, limit \in Limits :
          /\ db \/ (ref.name # NoTable /\ ~any)
          /\ privileges' = Append(privileges,
               [type    |-> IF db THEN "db" ELSE "table",
                db      |-> IF any THEN AnyDb ELSE ref.db,
                name    |-> IF db THEN NoTable ELSE ref.name,
                valid   |-> valid, limit |-> limit, deleted |-> FALSE])
    BY <1>5 DEF Insert
  <2> DEFINE row == [type    |-> IF db THEN "db" ELSE "table",
                     db      |-> IF any THEN AnyDb ELSE ref.db,
                     name    |-> IF db THEN NoTable ELSE ref.name,
                     valid   |-> valid, limit |-> limit, deleted |-> FALSE]
  <2>2. row.type = "table" => row.name # NoTable
    BY <2>1
  <2>3. privileges' = Append(privileges, row)
    BY <2>1
  <2> HIDE DEF row
  <2>4. TablesNamed(privileges')
    BY <1>0, <2>2, <2>3 DEF TablesNamed
  <2> QED BY <1>4, <1>5, <2>4 DEF Insert
<1>6. CASE Delete
  <2>1. PICK k \in DOMAIN privileges : privileges' = [privileges EXCEPT ![k].deleted = TRUE]
    BY <1>6 DEF Delete
  <2>2. TablesNamed(privileges')
    BY <1>0, <2>1 DEF TablesNamed, Privilege
  <2> QED BY <1>4, <1>6, <2>2 DEF Delete
<1>7. CASE Modify
  <2>1. PICK k \in DOMAIN privileges, valid \in Days, limit \in Limits :
          privileges' = [privileges EXCEPT ![k].valid = valid, ![k].limit = limit]
    BY <1>7 DEF Modify
  <2>2. TablesNamed(privileges')
    BY <1>0, <2>1 DEF TablesNamed, Privilege
  <2> QED BY <1>4, <1>7, <2>2 DEF Modify
<1>8. CASE NextDay
  BY <1>0, <1>4, <1>8 DEF NextDay
<1>9. CASE UNCHANGED vars
  BY <1>9 DEF vars, SteadyInv
<1> QED BY <1>1, <1>2, <1>3, <1>5, <1>6, <1>7, <1>8, <1>9 DEF Next

----------------------------------------------------------------------------
\* The reference's limits are those that the look-ups find.
LEMMA FirstLimitsAreHits ==
    ASSUME NEW i
    PROVE  FirstLimits(i) = Hits(privileges, today, i)
<1> DEFINE dbHits == UserPrivileges(privileges, TableRef[i], "db", today)
           tableHits == UserPrivileges(privileges, TableRef[i], "table", today)
<1>1. {UserPrivileges(privileges, TableRef[i], type, today) : type \in {"db", "table"}} = {dbHits, tableHits}
  BY SMT
<1> HIDE DEF dbHits, tableHits
<1>2. FirstLimits(i) = {privileges[FirstOf(found)].limit : found \in {dbHits, tableHits} \ {{}}} \ {0}
  BY <1>1 DEF FirstLimits
<1>3. Hits(privileges, today, i) =
        (IF dbHits = {} THEN {} ELSE {privileges[FirstOf(dbHits)].limit} \ {0}) \cup
        (IF tableHits = {} THEN {} ELSE {privileges[FirstOf(tableHits)].limit} \ {0})
  BY DEF Hits, FirstHit, dbHits, tableHits
<1> QED BY <1>2, <1>3

LEMMA LeastIsMin ==
    ASSUME NEW S \in SUBSET Int, NEW m \in S, \A x \in S : m <= x
    PROVE  m = Min(S)
<1>1. \A n \in S : (\A x \in S : n <= x) => n = m
  OBVIOUS
<1> QED BY <1>1 DEF Min

LEMMA SteadyInvAnswers == IInv /\ SteadyInv => SteadyAnswer
<1> SUFFICES ASSUME IInv, SteadyInv, check.steady,
                    check.pc \in {"allowed", "refused", "error"}
             PROVE  /\ check.pc # "error"
                    /\ check.pc = "refused" <=> \E i \in Refs : FirstLimits(i) = {}
                    /\ EveryLimited => (check.pc = "refused" <=> \E i \in Refs : Held(i) = {})
                    /\ Allowed => check.limit = Min(AskedLimit \cup UNION {FirstLimits(i) : i \in Refs})
  BY DEF SteadyAnswer
<1>1. /\ SteadyAt(check, privileges, today)
      /\ privileges \in Seq(Privilege) /\ today \in Days /\ check.asked \in Int
  BY DEF SteadyInv, IInv, TypeOK, Check
<1>2. check.pc # "error"
  BY <1>1 DEF SteadyAt
<1>3. check.pc = "refused" <=> \E i \in Refs : FirstLimits(i) = {}
  <2>1. CASE check.pc = "refused"
    <3>1. \E i \in Refs : Hits(privileges, today, i) = {}
      BY <1>1, <2>1 DEF SteadyAt
    <3> QED BY FirstLimitsAreHits, <2>1, <3>1, Zenon
  <2>2. CASE check.pc = "allowed"
    <3>1. \A i \in Refs : Hits(privileges, today, i) # {}
      BY <1>1, <2>2 DEF SteadyAt
    <3>2. check.pc # "refused"
      BY <2>2
    <3> QED BY FirstLimitsAreHits, <3>1, <3>2, Zenon
  <2> QED BY <1>2, <2>1, <2>2
<1>4. EveryLimited => (check.pc = "refused" <=> \E i \in Refs : Held(i) = {})
  <2> SUFFICES ASSUME EveryLimited PROVE \A i : FirstLimits(i) = {} <=> Held(i) = {}
    BY <1>3, Zenon
  <2>1. \A i : Hits(privileges, today, i) = {} <=> InForce(privileges, TableRef[i], today) = {}
    BY <1>1, HitsInForce DEF EveryLimited
  <2> QED BY <2>1, FirstLimitsAreHits, Zenon DEF Held
<1>5. ASSUME Allowed
      PROVE  check.limit = Min(AskedLimit \cup UNION {FirstLimits(i) : i \in Refs})
  <2> DEFINE all == SoFar(check.asked, privileges, today, Len(TableRef))
  <2>1. /\ \A i \in Refs : Hits(privileges, today, i) # {}
        /\ Least(check.limit, all)
    BY <1>1, <1>5 DEF SteadyAt, Allowed
  <2>2. AskedLimit \cup UNION {FirstLimits(i) : i \in Refs} = all
    BY FirstLimitsAreHits, RefFacts DEF SoFar, AskedLimit
  <2>3. all \in SUBSET Int
    <3>1. Len(TableRef) \in 0 .. Len(TableRef)
      BY RefFacts
    <3> QED BY <1>1, <3>1, SoFarNumbers
  <2>4. all # {}
    <3>1. 1 \in Refs /\ 1 \in 1 .. Len(TableRef)
      BY RefFacts
    <3> QED BY <2>1, <3>1 DEF SoFar
  <2> HIDE DEF all
  <2>5. check.limit \in all /\ \A x \in all : check.limit <= x
    BY <2>1, <2>4 DEF Least
  <2>6. check.limit = Min(all)
    BY <2>3, <2>5, LeastIsMin
  <2> QED BY <2>2, <2>6
<1> QED BY <1>2, <1>3, <1>4, <1>5

\* A check that nothing disturbs answers what the reference says: it never fails,
\* refuses exactly when some table has no first limit, and returns the smallest of
\* the first limits and of what was asked for (query_priv_check, _priv_limit).
THEOREM SteadyCheckAnswers == Spec => []SteadyAnswer
<1>1. Init => SteadyInv
  BY InitSteady
<1>2. Init => IInv
  BY InitIInv
<1>3. IInv /\ SteadyInv /\ [Next]_vars => (IInv /\ SteadyInv)'
  BY NextIInv, NextSteady
<1> QED BY <1>1, <1>2, <1>3, SteadyInvAnswers, PTL DEF Spec

=============================================================================
