--------------------------- MODULE AgentRunProofs ---------------------------
(***************************************************************************)
(* A task is only closed when its work is done or recovered, its steps are *)
(* begun in their order, and the handoff never knows more than the memory: *)
(* for any number of steps, recoveries, runs and crashes.  First what each *)
(* operator does to a plan, then what each action keeps of IInv.           *)
(***************************************************************************)
EXTENDS AgentRun, FiniteSetTheorems, SequenceTheorems, WellFoundedInduction, TLAPS

(* Names of steps.                                                         *)
LEMMA Kinds ==
  /\ \A i \in Work : i[1] = "step" /\ i[2] \in 1..Steps /\ i = <<"step", i[2]>>
  /\ \A i \in Lane : i[1] = "recovery" /\ i[2] \in 1..Recoveries /\ i = <<"recovery", i[2]>>
  /\ \A i \in Checkpoints : i[1] = "checkpoint" /\ i[2] \in 1..MaxCheckpoints /\ i = <<"checkpoint", i[2]>>
  /\ Archive[1] = "archive" /\ NoStep[1] = "none"
BY DEF Work, Lane, Checkpoints, Archive, NoStep

LEMMA Apart ==
  /\ Work \cap Lane = {} /\ Work \cap Checkpoints = {} /\ Lane \cap Checkpoints = {}
  /\ Archive \notin Work \cup Lane \cup Checkpoints
  /\ NoStep \notin Ids /\ Ids = Work \cup Lane \cup Checkpoints \cup {Archive}
BY Kinds DEF Ids

LEMMA Numbered ==
  /\ \A n \in 1..Steps : <<"step", n>> \in Work
  /\ \A n \in 1..Recoveries : <<"recovery", n>> \in Lane
  /\ \A i, j \in Work : i[2] = j[2] => i = j
  /\ \A i, j \in Lane : i[2] = j[2] => i = j
BY Kinds DEF Work, Lane

LEMMA LaneIsThere == Lane # {}
<1>1. 1 \in 1..Recoveries
  BY RunAssumption
<1> QED
  BY <1>1, Numbered

LEMMA KnownStatuses ==
  Statuses = {"absent", "planned", "ready", "in_progress", "completed", "failed"}
BY DEF Statuses

-----------------------------------------------------------------------------
(* Plans.                                                                  *)

LEMMA PlanFacts ==
  ASSUME NEW p, WellFormed(p)
  PROVE  /\ p.ids \in Seq(Ids) /\ p.st \in [Ids -> Statuses]
         /\ p = [ids |-> p.ids, st |-> p.st]
         /\ DOMAIN p.ids = 1..Len(p.ids) /\ Len(p.ids) \in Nat
         /\ \A k \in DOMAIN p.ids : p.ids[k] \in Ids /\ p.st[p.ids[k]] # "absent"
         /\ \A i \in Ids : p.st[i] # "absent" => \E k \in DOMAIN p.ids : p.ids[k] = i
<1>1. p.ids \in Seq(Ids) /\ p.st \in [Ids -> Statuses] /\ p = [ids |-> p.ids, st |-> p.st]
  BY DEF WellFormed, Plans
<1>2. DOMAIN p.ids = 1..Len(p.ids) /\ Len(p.ids) \in Nat /\ \A k \in DOMAIN p.ids : p.ids[k] \in Ids
  BY <1>1
<1> QED
  BY <1>1, <1>2 DEF WellFormed, ToSet

\* A set of positions has a first one.
LEMMA FirstExists ==
  ASSUME NEW T \in SUBSET Nat, T # {}
  PROVE  \E x \in T : \A y \in T : x <= y
<1>1. PICK x \in T : \A y \in T : <<y, x>> \notin OpToRel(<, Nat)
  BY NatLessThanWellFounded, WFMin
<1>2. \A y \in T : ~(y < x)
  BY <1>1 DEF OpToRel
<1> QED
  BY <1>2

LEMMA FirstFacts ==
  ASSUME NEW p, WellFormed(p), NEW S, Some(p, S)
  PROVE  \E k \in DOMAIN p.ids :
           /\ FirstOf(p, S) = p.ids[k] /\ p.st[p.ids[k]] \in S
           /\ \A j \in DOMAIN p.ids : p.st[p.ids[j]] \in S => k <= j
<1> DEFINE T == Positions(p, S)
<1>1. T \in SUBSET Nat /\ T # {} /\ T \subseteq DOMAIN p.ids
  BY PlanFacts DEF Positions, Some
<1>2. PICK k \in T : \A j \in T : k <= j
  BY <1>1, FirstExists
<1> DEFINE first == CHOOSE i \in T : \A j \in T : i <= j
<1>3. first \in T /\ \A j \in T : first <= j
  BY <1>2
<1>4. FirstOf(p, S) = p.ids[first]
  BY Zenon DEF FirstOf
<1> HIDE DEF first
<1> QED
  BY <1>1, <1>3, <1>4 DEF Positions

LEMMA NoneIsAbsent ==
  ASSUME NEW p, WellFormed(p), NEW S, ~Some(p, S), "absent" \notin S
  PROVE  \A i \in Ids : p.st[i] \notin S
BY PlanFacts DEF Some, Positions

LEMMA SetFacts ==
  ASSUME NEW p, WellFormed(p), NEW i \in Ids, p.st[i] # "absent",
         NEW status \in Statuses \ {"absent"}
  PROVE  /\ WellFormed(Set(p, i, status))
         /\ Set(p, i, status).ids = p.ids
         /\ \A j \in Ids : Set(p, i, status).st[j] = IF j = i THEN status ELSE p.st[j]
<1> DEFINE q == Set(p, i, status)
<1>1. q = [ids |-> p.ids, st |-> [p.st EXCEPT ![i] = status]]
  <2> DEFINE ids == p.ids
             st == p.st
  <2>1. p = [ids |-> ids, st |-> st]
    BY PlanFacts
  <2> HIDE DEF ids, st
  <2>2. Set(p, i, status) = [ids |-> ids, st |-> [st EXCEPT ![i] = status]]
    BY <2>1 DEF Set
  <2> QED
    BY <2>2 DEF ids, st
<1>2. q.ids = p.ids /\ q.st = [p.st EXCEPT ![i] = status]
  BY <1>1
<1>3. \A j \in Ids : q.st[j] = IF j = i THEN status ELSE p.st[j]
  BY <1>2, PlanFacts
<1>4. q \in Plans
  BY <1>1, PlanFacts DEF Plans
<1>5. \A j \in Ids : q.st[j] # "absent" <=> p.st[j] # "absent"
  BY <1>3
<1> HIDE DEF q
<1>6. WellFormed(q)
  BY <1>2, <1>4, <1>5 DEF WellFormed
<1> QED
  BY <1>2, <1>3, <1>6 DEF q

\* What fits goes on fitting when more is done.
LEMMA FitsGrows ==
  ASSUME NEW st, NEW d, NEW s, NEW d2, NEW s2, d \subseteq d2, s \subseteq s2
  PROVE  /\ Fits(st, d, s) => Fits(st, d2, s2)
         /\ \A p : PlanFits(p, d, s) /\ st = p.st => PlanFits(p, d2, s2)
<1>1. Fits(st, d, s) => Fits(st, d2, s2)
  BY Zenon DEF Fits
<1>2. ASSUME NEW p, PlanFits(p, d, s), st = p.st PROVE PlanFits(p, d2, s2)
  BY Zenon, <1>1, <1>2 DEF PlanFits
<1> QED
  BY <1>1, <1>2

\* The status of a step under way may change to any other, if it says completed
\* only of what is done.
LEMMA SetFits ==
  ASSUME NEW p, NEW d, NEW s, PlanFits(p, d, s), NEW i \in Ids, p.st[i] \in Active,
         NEW status \in Statuses \ {"absent"}, status = "completed" => i \in d \cap s
  PROVE  PlanFits(Set(p, i, status), d, s)
<1> DEFINE q == Set(p, i, status)
<1>1. WellFormed(p) /\ Fits(p.st, d, s) /\ InOrder(p) /\ p.st[i] \notin {"absent", "completed", "failed"}
  BY DEF PlanFits, Active
<1>2. WellFormed(q) /\ q.ids = p.ids /\ \A j \in Ids : q.st[j] = IF j = i THEN status ELSE p.st[j]
  BY <1>1, SetFacts
<1> HIDE DEF q
<1>3. InOrder(q)
  BY <1>1, <1>2 DEF InOrder
<1>4. Fits(q.st, d, s)
  <2>1. \A j \in Work : q.st[j] = "completed" => j \in s
    BY <1>1, <1>2, Apart DEF Fits
  <2>2. \A r \in Lane : q.st[r] = "completed" => r \in d
    BY <1>1, <1>2, Apart DEF Fits
  <2>3. \A j, k \in Work \cup Lane : q.st[j] \in Active /\ q.st[k] \in Active => j = k
    BY <1>1, <1>2, Apart DEF Fits
  <2>4. ASSUME NEW j \in Work, NEW k \in Work, j[2] < k[2], q.st[k] \in Active
        PROVE  j \in s \/ q.st[j] = "failed"
    <3>1. p.st[k] \in Active
      BY <1>2, <2>4, Apart
    <3>2. j \in s \/ p.st[j] = "failed"
      BY <1>1, <2>4, <3>1 DEF Fits
    <3> QED
      BY <1>1, <1>2, <3>2, Apart
  <2> QED
    BY <2>1, <2>2, <2>3, <2>4 DEF Fits
<1>5. /\ \A j \in Work : q.st[j] = "absent" => j \in s
      /\ \A k, r \in Lane : q.st[k] # "absent" /\ q.st[r] = "absent" => r \in d
      /\ \A c, e \in Checkpoints : e[2] < c[2] /\ q.st[c] # "absent" => q.st[e] # "absent"
  BY <1>1, <1>2, Apart DEF PlanFits
<1>6. q.st[Archive] \in {"absent", "completed"}
  BY <1>2, Apart DEF PlanFits, Active
<1> QED
  BY <1>2, <1>3, <1>4, <1>5, <1>6 DEF PlanFits, q

\* At most one step is promoted: the first one planned, when none is under way.
LEMMA PromoteFacts ==
  ASSUME NEW p, WellFormed(p)
  PROVE  /\ WellFormed(Promote(p)) /\ Promote(p).ids = p.ids
         /\ \/ Promote(p) = p
            \/ \E k \in DOMAIN p.ids :
                 /\ p.st[p.ids[k]] = "planned"
                 /\ \A j \in DOMAIN p.ids : p.st[p.ids[j]] = "planned" => k <= j
                 /\ \A i \in Ids : p.st[i] \notin Active
                 /\ \A i \in Ids : Promote(p).st[i] = IF i = p.ids[k] THEN "ready" ELSE p.st[i]
<1>1. CASE Some(p, {"ready", "in_progress"}) \/ ~Some(p, {"planned"})
  BY <1>1 DEF Promote
<1>2. CASE ~Some(p, {"ready", "in_progress"}) /\ Some(p, {"planned"})
  <2>1. Promote(p) = Set(p, FirstOf(p, {"planned"}), "ready")
    BY <1>2 DEF Promote
  <2>2. PICK k \in DOMAIN p.ids :
          /\ FirstOf(p, {"planned"}) = p.ids[k] /\ p.st[p.ids[k]] \in {"planned"}
          /\ \A j \in DOMAIN p.ids : p.st[p.ids[j]] \in {"planned"} => k <= j
    BY <1>2, FirstFacts
  <2>3. \A i \in Ids : p.st[i] \notin Active
    BY <1>2, NoneIsAbsent DEF Active
  <2>4. p.ids[k] \in Ids /\ p.st[p.ids[k]] # "absent"
    BY PlanFacts
  <2>5. /\ WellFormed(Promote(p)) /\ Promote(p).ids = p.ids
        /\ \A i \in Ids : Promote(p).st[i] = IF i = p.ids[k] THEN "ready" ELSE p.st[i]
    BY <2>1, <2>2, <2>4, SetFacts, KnownStatuses
  <2> QED
    BY <2>2, <2>3, <2>5
<1> QED
  BY <1>1, <1>2

LEMMA PromoteFits ==
  ASSUME NEW p, NEW d, NEW s, PlanFits(p, d, s)
  PROVE  PlanFits(Promote(p), d, s)
<1> DEFINE q == Promote(p)
<1>1. WellFormed(p) /\ Fits(p.st, d, s) /\ InOrder(p)
  BY DEF PlanFits
<1>2. WellFormed(q) /\ q.ids = p.ids
  BY <1>1, PromoteFacts
<1> SUFFICES ASSUME q # p PROVE PlanFits(q, d, s)
  OBVIOUS
<1>3. PICK k \in DOMAIN p.ids :
        /\ p.st[p.ids[k]] = "planned"
        /\ \A j \in DOMAIN p.ids : p.st[p.ids[j]] = "planned" => k <= j
        /\ \A i \in Ids : p.st[i] \notin Active
        /\ \A i \in Ids : q.st[i] = IF i = p.ids[k] THEN "ready" ELSE p.st[i]
  BY <1>1, PromoteFacts
<1> HIDE DEF q
<1>4. InOrder(q)
  BY <1>1, <1>2 DEF InOrder
<1>5. p.ids[k] \in Ids
  BY <1>1, PlanFacts
<1>6. Fits(q.st, d, s)
  <2>1. \A j \in Work : q.st[j] = "completed" => j \in s
    BY <1>1, <1>3, Apart DEF Fits
  <2>2. \A r \in Lane : q.st[r] = "completed" => r \in d
    BY <1>1, <1>3, Apart DEF Fits
  <2>3. \A i, j \in Work \cup Lane : q.st[i] \in Active /\ q.st[j] \in Active => i = j
    BY <1>3, Apart
  <2>4. ASSUME NEW i \in Work, NEW j \in Work, i[2] < j[2], q.st[j] \in Active
        PROVE  i \in s \/ q.st[i] = "failed"
    <3>1. j = p.ids[k]
      BY <1>3, <2>4, Apart
    <3>2. i # j /\ q.st[i] = p.st[i] /\ p.st[i] \notin Active
      <4>1. i # j
        BY <2>4, Kinds
      <4> QED
        BY <4>1, <1>3, <3>1, Apart
    <3>3. CASE p.st[i] = "absent"
      BY <3>3 DEF PlanFits
    <3>4. CASE p.st[i] # "absent"
      <4>1. PICK a \in DOMAIN p.ids : p.ids[a] = i
        BY <1>1, <3>4, PlanFacts, Apart
      <4>2. a < k
        <5>1. a \in Nat /\ k \in Nat /\ i[2] \in Nat /\ j[2] \in Nat
          BY <1>1, PlanFacts, Kinds, RunAssumption
        <5>2. ~(k < a)
          BY <1>1, <2>4, <3>1, <4>1, <5>1 DEF InOrder
        <5>3. a # k
          BY <3>1, <3>2, <4>1
        <5> QED
          BY <5>1, <5>2, <5>3
      <4>3. p.st[i] # "planned"
        <5>1. ~(k <= a)
          BY <4>2, <1>1, PlanFacts
        <5> QED
          BY <5>1, <4>1, <1>3
      <4>4. p.st[i] \in {"completed", "failed"}
        <5>1. p.st[i] \in Statuses
          BY <1>1, PlanFacts, Apart
        <5> QED
          BY <5>1, <3>2, <3>4, <4>3, KnownStatuses DEF Active
      <4> QED
        BY <4>4, <3>2, <1>1 DEF Fits
    <3> QED
      BY <3>3, <3>4
  <2> QED
    BY <2>1, <2>2, <2>3, <2>4 DEF Fits
<1>7. /\ \A j \in Work : q.st[j] = "absent" => j \in s
      /\ \A i, r \in Lane : q.st[i] # "absent" /\ q.st[r] = "absent" => r \in d
      /\ \A c, e \in Checkpoints : e[2] < c[2] /\ q.st[c] # "absent" => q.st[e] # "absent"
      /\ q.st[Archive] \in {"absent", "completed"}
  BY <1>3, <1>5, Apart DEF PlanFits
<1> QED
  BY <1>2, <1>4, <1>6, <1>7 DEF PlanFits, q

\* A part of a sequence.
LEMMA PartFacts ==
  ASSUME NEW S, NEW s \in Seq(S), NEW m \in Nat, NEW n \in Nat, 1 <= m, m <= n + 1, n <= Len(s)
  PROVE  /\ SubSeq(s, m, n) \in Seq(S) /\ Len(SubSeq(s, m, n)) = n + 1 - m
         /\ \A j \in 1..n + 1 - m : SubSeq(s, m, n)[j] = s[m - 1 + j]
<1>1. \A j \in m..n : s[j] \in S
  <2>1. \A j \in m..n : j \in 1..Len(s)
    OBVIOUS
  <2> QED
    BY <2>1
<1>2. /\ SubSeq(s, m, n) \in Seq(S)
      /\ Len(SubSeq(s, m, n)) = IF m <= n THEN n - m + 1 ELSE 0
      /\ \A j \in 1..n - m + 1 : SubSeq(s, m, n)[j] = s[m + j - 1]
  BY <1>1, SubSeqProperties
<1>3. (IF m <= n THEN n - m + 1 ELSE 0) = n + 1 - m /\ n - m + 1 = n + 1 - m
  OBVIOUS
<1>4. \A j \in 1..n + 1 - m : m + j - 1 = m - 1 + j
  OBVIOUS
<1> QED
  BY <1>2, <1>3, <1>4

\* An element put at a position of a sequence.
LEMMA InsertFacts ==
  ASSUME NEW S, NEW s \in Seq(S), NEW k \in 1..Len(s), NEW e \in S
  PROVE  /\ InsertAt(s, k, e) \in Seq(S) /\ Len(InsertAt(s, k, e)) = Len(s) + 1
         /\ \A j \in 1..Len(s) + 1 :
              InsertAt(s, k, e)[j] = IF j < k THEN s[j] ELSE IF j = k THEN e ELSE s[j - 1]
<1> DEFINE a == SubSeq(s, 1, k - 1)
           b == SubSeq(s, k, Len(s))
<1>1. Len(s) \in Nat /\ k \in Nat /\ k >= 1 /\ k <= Len(s)
  OBVIOUS
<1>2. a \in Seq(S) /\ Len(a) = k - 1 /\ \A j \in 1..k - 1 : a[j] = s[j]
  <2>1. \A j \in 1..k - 1 : s[j] \in S
    BY <1>1
  <2> QED
    BY <1>1, <2>1, SubSeqProperties
<1>3. b \in Seq(S) /\ Len(b) = Len(s) - k + 1 /\ \A j \in 1..Len(s) - k + 1 : b[j] = s[k + j - 1]
  <2>1. \A j \in k..Len(s) : s[j] \in S
    BY <1>1
  <2> QED
    BY <1>1, <2>1, SubSeqProperties
<1> HIDE DEF a, b
<1> DEFINE c == a \o <<e>>
<1>4. c \in Seq(S) /\ Len(c) = k /\ \A j \in 1..k : c[j] = IF j < k THEN s[j] ELSE e
  <2>1. <<e>> \in Seq(S) /\ Len(<<e>>) = 1 /\ <<e>>[1] = e
    OBVIOUS
  <2>2. /\ c \in Seq(S) /\ Len(c) = Len(a) + Len(<<e>>)
        /\ \A j \in 1..Len(a) + Len(<<e>>) : c[j] = IF j <= Len(a) THEN a[j] ELSE <<e>>[j - Len(a)]
    BY <1>2, <2>1, ConcatProperties
  <2>3. ASSUME NEW j \in 1..k PROVE c[j] = IF j < k THEN s[j] ELSE e
    <3>1. c[j] = IF j <= k - 1 THEN a[j] ELSE <<e>>[j - (k - 1)]
      BY <1>1, <1>2, <2>1, <2>2
    <3> QED
      BY <1>1, <1>2, <2>1, <3>1
  <2> QED
    BY <1>1, <1>2, <2>1, <2>2, <2>3
<1>5. InsertAt(s, k, e) = c \o b
  BY DEF InsertAt, a, b, c
<1> HIDE DEF c
<1>6. /\ c \o b \in Seq(S) /\ Len(c \o b) = Len(s) + 1
      /\ \A j \in 1..Len(s) + 1 : (c \o b)[j] = IF j <= k THEN c[j] ELSE b[j - k]
  <2>1. Len(c) + Len(b) = Len(s) + 1
    BY <1>1, <1>3, <1>4
  <2>2. /\ c \o b \in Seq(S) /\ Len(c \o b) = Len(c) + Len(b)
        /\ \A j \in 1..Len(c) + Len(b) : (c \o b)[j] = IF j <= Len(c) THEN c[j] ELSE b[j - Len(c)]
    BY <1>3, <1>4, ConcatProperties
  <2> QED
    BY <1>4, <2>1, <2>2
<1>7. ASSUME NEW j \in 1..Len(s) + 1
      PROVE  (c \o b)[j] = IF j < k THEN s[j] ELSE IF j = k THEN e ELSE s[j - 1]
  <2>1. (c \o b)[j] = IF j <= k THEN c[j] ELSE b[j - k]
    BY <1>6
  <2>2. CASE j <= k
    BY <1>1, <1>4, <2>1, <2>2
  <2>3. CASE ~(j <= k)
    <3>1. j - k \in 1..Len(s) - k + 1 /\ k + (j - k) - 1 = j - 1
      BY <1>1, <2>3
    <3> QED
      BY <1>1, <1>3, <2>1, <2>3, <3>1
  <2> QED
    BY <2>2, <2>3
<1> QED
  BY <1>5, <1>6, <1>7

LEMMA PlaceFacts ==
  ASSUME NEW p, WellFormed(p), NEW i \in Ids, p.st[i] # "absent",
         NEW new \in Ids, p.st[new] = "absent", NEW status \in Statuses \ {"absent"}
  PROVE  /\ WellFormed(PlaceBefore(p, i, new, status))
         /\ \A j \in Ids : PlaceBefore(p, i, new, status).st[j] = IF j = new THEN status ELSE p.st[j]
         /\ InOrder(p) /\ new \notin Work => InOrder(PlaceBefore(p, i, new, status))
<1> DEFINE q == PlaceBefore(p, i, new, status)
           k == CHOOSE k \in DOMAIN p.ids : p.ids[k] = i
<1>1. k \in DOMAIN p.ids /\ p.ids[k] = i
  <2>1. \E n \in DOMAIN p.ids : p.ids[n] = i
    BY PlanFacts
  <2> QED
    BY <2>1
<1>2. q = [ids |-> InsertAt(p.ids, k, new), st |-> [p.st EXCEPT ![new] = status]]
  BY DEF PlaceBefore
<1> HIDE DEF k, q
<1>3. p.ids \in Seq(Ids) /\ k \in 1..Len(p.ids) /\ Len(p.ids) \in Nat
  BY <1>1, PlanFacts
<1>4. /\ q.ids \in Seq(Ids) /\ Len(q.ids) = Len(p.ids) + 1
      /\ \A j \in 1..Len(p.ids) + 1 :
           q.ids[j] = IF j < k THEN p.ids[j] ELSE IF j = k THEN new ELSE p.ids[j - 1]
  <2> DEFINE ids == p.ids
             t == InsertAt(ids, k, new)
  <2>1. /\ t \in Seq(Ids) /\ Len(t) = Len(ids) + 1
        /\ \A j \in 1..Len(ids) + 1 :
             t[j] = IF j < k THEN ids[j] ELSE IF j = k THEN new ELSE ids[j - 1]
    <3>1. ids \in Seq(Ids) /\ k \in 1..Len(ids) /\ new \in Ids
      BY <1>3
    <3> HIDE DEF ids
    <3> QED
      BY <3>1, InsertFacts
  <2>2. q.ids = t
    BY <1>2
  <2> HIDE DEF t
  <2> QED
    BY <2>1, <2>2
<1>5. q.st \in [Ids -> Statuses] /\ \A j \in Ids : q.st[j] = IF j = new THEN status ELSE p.st[j]
  BY <1>2, PlanFacts
<1>6. DOMAIN q.ids = 1..Len(p.ids) + 1
  BY <1>4
<1>7. \A j \in DOMAIN q.ids : j # k => LET m == IF j < k THEN j ELSE j - 1
                                       IN m \in DOMAIN p.ids /\ q.ids[j] = p.ids[m]
  BY <1>3, <1>4, <1>6
<1>8. q.ids[k] = new /\ k \in DOMAIN q.ids /\ \A m \in DOMAIN p.ids : p.ids[m] # new
  BY <1>3, <1>4, <1>6, PlanFacts
<1>9. \A m \in DOMAIN p.ids : LET j == IF m < k THEN m ELSE m + 1
                              IN j \in DOMAIN q.ids /\ q.ids[j] = p.ids[m]
  <2> TAKE m \in DOMAIN p.ids
  <2>1. CASE m < k
    BY <2>1, <1>3, <1>4, <1>6
  <2>2. CASE ~(m < k)
    <3>1. m \in 1..Len(p.ids) /\ m + 1 \in 1..Len(p.ids) + 1
      BY <1>3
    <3>2. ~(m + 1 < k) /\ m + 1 # k /\ (m + 1) - 1 = m
      BY <1>3, <2>2, <3>1
    <3> QED
      BY <2>2, <3>1, <3>2, <1>4, <1>6
  <2> QED
    BY <2>1, <2>2
<1>10. ASSUME NEW a \in DOMAIN q.ids, NEW b \in DOMAIN q.ids, q.ids[a] = q.ids[b]
       PROVE  a = b
  <2>1. CASE a = k \/ b = k
    BY <2>1, <1>7, <1>8, <1>10
  <2>2. CASE a # k /\ b # k
    <3> DEFINE m(x) == IF x < k THEN x ELSE x - 1
    <3>1. m(a) \in DOMAIN p.ids /\ m(b) \in DOMAIN p.ids /\ p.ids[m(a)] = p.ids[m(b)]
      BY <2>2, <1>7, <1>10
    <3>2. m(a) = m(b)
      BY Zenon, <3>1 DEF WellFormed
    <3> QED
      BY <3>2, <2>2, <1>3, <1>6
  <2> QED
    BY <2>1, <2>2
<1>11. ASSUME NEW j \in Ids
       PROVE  q.st[j] # "absent" <=> j \in ToSet(q.ids)
  <2>1. CASE j = new
    BY <2>1, <1>5, <1>8 DEF ToSet
  <2>2. CASE j # new
    <3>1. q.st[j] # "absent" <=> \E m \in DOMAIN p.ids : p.ids[m] = j
      BY <2>2, <1>5, PlanFacts
    <3>2. j \in ToSet(q.ids) <=> \E m \in DOMAIN q.ids : q.ids[m] = j
      BY DEF ToSet
    <3>3. (\E m \in DOMAIN p.ids : p.ids[m] = j) => \E m \in DOMAIN q.ids : q.ids[m] = j
      BY <1>9
    <3>4. (\E m \in DOMAIN q.ids : q.ids[m] = j) => \E m \in DOMAIN p.ids : p.ids[m] = j
      BY <2>2, <1>7, <1>8
    <3> QED
      BY <3>1, <3>2, <3>3, <3>4
  <2> QED
    BY <2>1, <2>2
<1>12. q \in Plans
  BY <1>2, <1>4, <1>5 DEF Plans
<1>13. WellFormed(q)
  BY <1>10, <1>11, <1>12 DEF WellFormed
<1>14. ASSUME InOrder(p), new \notin Work,
              NEW a \in DOMAIN q.ids, NEW b \in DOMAIN q.ids, a < b,
              q.ids[a] \in Work, q.ids[b] \in Work
       PROVE  q.ids[a][2] < q.ids[b][2]
  <2> DEFINE m(x) == IF x < k THEN x ELSE x - 1
  <2>1. a # k /\ b # k
    BY <1>8, <1>14
  <2>2. /\ m(a) \in DOMAIN p.ids /\ q.ids[a] = p.ids[m(a)]
        /\ m(b) \in DOMAIN p.ids /\ q.ids[b] = p.ids[m(b)]
    BY <2>1, <1>7
  <2>3. m(a) < m(b)
    BY <2>1, <1>3, <1>6, <1>14
  <2> QED
    BY <2>2, <2>3, <1>14 DEF InOrder
<1> QED
  BY <1>5, <1>13, <1>14 DEF InOrder, q

-----------------------------------------------------------------------------
(* The plan made from a handoff.                                           *)

\* The work packages in their order, with the lane whole or not at all.
Ordered(order, lane) ==
  /\ order \in Seq(Ids)
  /\ \A a, b \in DOMAIN order : order[a] = order[b] => a = b
  /\ ToSet(order) = IF lane THEN Work \cup Lane ELSE Work
  /\ \A a, b \in DOMAIN order :
       a < b /\ order[a] \in Work /\ order[b] \in Work => order[a][2] < order[b][2]

LEMMA WorkOrdered ==
  ASSUME NEW work, work = [n \in 1..Steps |-> <<"step", n>>]
  PROVE  /\ work \in Seq(Work) /\ Len(work) = Steps /\ \A n \in 1..Steps : work[n] = <<"step", n>>
         /\ Ordered(work, FALSE)
<1>1. Steps \in Nat
  BY RunAssumption
<1>2. /\ work \in Seq(Work) /\ Len(work) = Steps /\ DOMAIN work = 1..Steps
      /\ \A n \in 1..Steps : work[n] = <<"step", n>>
  BY <1>1, Numbered
<1>3. work \in Seq(Ids)
  BY <1>2, Apart
<1>4. ToSet(work) = Work
  <2>1. \A n \in 1..Steps : work[n] \in Work
    BY <1>2, Numbered
  <2>2. ASSUME NEW i \in Work PROVE \E n \in DOMAIN work : work[n] = i
    <3>1. i[2] \in 1..Steps /\ i = <<"step", i[2]>>
      BY Kinds
    <3>2. work[i[2]] = i
      BY <1>2, <3>1
    <3> QED
      BY <1>2, <3>1, <3>2
  <2> QED
    BY <1>2, <2>1, <2>2 DEF ToSet
<1> QED
  BY <1>2, <1>3, <1>4 DEF Ordered

LEMMA LaneWithin ==
  ASSUME NEW work, work = [n \in 1..Steps |-> <<"step", n>>],
         NEW lane, lane = [n \in 1..Recoveries |-> <<"recovery", n>>],
         NEW place \in 0..Steps
  PROVE  Ordered(SubSeq(work, 1, place) \o lane \o SubSeq(work, place + 1, Steps), TRUE)
<1> DEFINE a == SubSeq(work, 1, place)
           b == SubSeq(work, place + 1, Steps)
           c == a \o lane
           order == c \o b
<1>1. Steps \in Nat /\ Recoveries \in Nat /\ place \in Nat /\ place <= Steps
  BY RunAssumption
<1>2. work \in Seq(Ids) /\ Len(work) = Steps
  BY WorkOrdered DEF Ordered
<1>w. \A n \in 1..Steps : work[n] = <<"step", n>>
  BY WorkOrdered
<1>3. /\ lane \in Seq(Ids) /\ Len(lane) = Recoveries /\ \A n \in 1..Recoveries : lane[n] = <<"recovery", n>>
  BY <1>1, Numbered, Apart
<1>4. a \in Seq(Ids) /\ Len(a) = place /\ \A n \in 1..place : a[n] = <<"step", n>>
  <2>1. /\ a \in Seq(Ids) /\ Len(a) = place + 1 - 1
        /\ \A n \in 1..place + 1 - 1 : a[n] = work[1 - 1 + n]
    BY <1>1, <1>2, PartFacts
  <2>2. place + 1 - 1 = place /\ \A n \in 1..place : 1 - 1 + n = n /\ n \in 1..Steps
    BY <1>1
  <2> QED
    BY <1>w, <2>1, <2>2
<1>5. /\ b \in Seq(Ids) /\ Len(b) = Steps - place
      /\ \A n \in 1..Steps - place : b[n] = <<"step", place + n>>
  <2>1. /\ b \in Seq(Ids) /\ Len(b) = Steps + 1 - (place + 1)
        /\ \A n \in 1..Steps + 1 - (place + 1) : b[n] = work[(place + 1) - 1 + n]
    <3>1. place + 1 \in Nat /\ 1 <= place + 1 /\ place + 1 <= Steps + 1
      BY <1>1
    <3> QED
      BY <1>1, <1>2, <3>1, PartFacts
  <2>2. Steps + 1 - (place + 1) = Steps - place
    BY <1>1
  <2>3. \A n \in 1..Steps - place : place + n \in 1..Steps /\ (place + 1) - 1 + n = place + n
    BY <1>1
  <2> QED
    BY <1>w, <2>1, <2>2, <2>3
<1> HIDE DEF a, b
<1>6. /\ c \in Seq(Ids) /\ Len(c) = place + Recoveries
      /\ \A n \in 1..place + Recoveries : c[n] = IF n <= place THEN a[n] ELSE lane[n - place]
  <2>1. /\ c \in Seq(Ids) /\ Len(c) = Len(a) + Len(lane)
        /\ \A n \in 1..Len(a) + Len(lane) : c[n] = IF n <= Len(a) THEN a[n] ELSE lane[n - Len(a)]
    <3>1. a \in Seq(Ids) /\ lane \in Seq(Ids)
      BY <1>3, <1>4
    <3> QED
      BY <3>1, ConcatProperties
  <2>2. Len(a) = place /\ Len(lane) = Recoveries
    BY <1>3, <1>4
  <2> QED
    BY <2>1, <2>2
<1> HIDE DEF c
<1>7. /\ order \in Seq(Ids) /\ Len(order) = Steps + Recoveries
      /\ \A n \in 1..Steps + Recoveries :
           order[n] = IF n <= place + Recoveries THEN c[n] ELSE b[n - (place + Recoveries)]
  <2>1. /\ order \in Seq(Ids) /\ Len(order) = Len(c) + Len(b)
        /\ \A n \in 1..Len(c) + Len(b) : order[n] = IF n <= Len(c) THEN c[n] ELSE b[n - Len(c)]
    BY <1>5, <1>6, ConcatProperties
  <2>2. Len(c) + Len(b) = Steps + Recoveries
    BY <1>1, <1>5, <1>6
  <2> QED
    BY <1>6, <2>1, <2>2
<1>8. ASSUME NEW n \in 1..Steps + Recoveries
      PROVE  /\ n <= place => order[n] = <<"step", n>>
             /\ ~(n <= place) /\ n <= place + Recoveries => order[n] = <<"recovery", n - place>>
             /\ ~(n <= place + Recoveries) => order[n] = <<"step", n - Recoveries>>
  <2>1. CASE n <= place
    <3>1. n \in 1..place /\ n \in 1..place + Recoveries /\ n <= place + Recoveries
      BY <1>1, <2>1
    <3> QED
      BY <1>4, <1>6, <1>7, <2>1, <3>1
  <2>2. CASE ~(n <= place) /\ n <= place + Recoveries
    <3>1. n - place \in 1..Recoveries /\ n \in 1..place + Recoveries
      BY <1>1, <2>2
    <3> QED
      BY <1>3, <1>6, <1>7, <2>2, <3>1
  <2>3. CASE ~(n <= place + Recoveries)
    <3>1. n - (place + Recoveries) \in 1..Steps - place /\ ~(n <= place)
      BY <1>1, <2>3
    <3>2. place + (n - (place + Recoveries)) = n - Recoveries
      BY <1>1
    <3>3. order[n] = <<"step", place + (n - (place + Recoveries))>>
      BY <1>5, <1>7, <2>3, <3>1
    <3> QED
      BY <2>3, <3>1, <3>2, <3>3
  <2> QED
    BY <2>1, <2>2, <2>3
<1>9. DOMAIN order = 1..Steps + Recoveries
  BY <1>7
<1> HIDE DEF order
<1>10. ASSUME NEW n \in 1..Steps + Recoveries
       PROVE  /\ n <= place => order[n][1] = "step" /\ order[n][2] = n
              /\ ~(n <= place) /\ n <= place + Recoveries => order[n][1] = "recovery" /\ order[n][2] = n - place
              /\ ~(n <= place + Recoveries) => order[n][1] = "step" /\ order[n][2] = n - Recoveries
  <2>1. CASE n <= place
    <3>1. order[n] = <<"step", n>> /\ n <= place + Recoveries
      BY <1>1, <1>8, <2>1
    <3> QED
      BY <2>1, <3>1
  <2>2. CASE ~(n <= place) /\ n <= place + Recoveries
    <3>1. order[n] = <<"recovery", n - place>>
      BY <1>8, <2>2
    <3> QED
      BY <2>2, <3>1
  <2>3. CASE ~(n <= place + Recoveries)
    <3>1. order[n] = <<"step", n - Recoveries>> /\ ~(n <= place)
      BY <1>1, <1>8, <2>3
    <3> QED
      BY <2>3, <3>1
  <2> QED
    BY <2>1, <2>2, <2>3
<1>11. \A p, q \in DOMAIN order : order[p] = order[q] => p = q
  BY <1>1, <1>9, <1>10
<1>12. ASSUME NEW p \in DOMAIN order, NEW q \in DOMAIN order, p < q,
              order[p] \in Work, order[q] \in Work
       PROVE  order[p][2] < order[q][2]
  <2>1. order[p][1] = "step" /\ order[q][1] = "step"
    BY <1>12, Kinds
  <2> QED
    BY <2>1, <1>1, <1>9, <1>10, <1>12
<1>13. ToSet(order) = Work \cup Lane
  <2>1. ASSUME NEW n \in DOMAIN order PROVE order[n] \in Work \cup Lane
    <3>1. CASE n <= place
      <4>1. n \in 1..Steps
        BY <1>1, <1>9, <3>1
      <4> QED
        BY <4>1, <3>1, <1>8, <1>9, Numbered
    <3>2. CASE ~(n <= place) /\ n <= place + Recoveries
      <4>1. n - place \in 1..Recoveries
        BY <1>1, <1>9, <3>2
      <4> QED
        BY <4>1, <3>2, <1>8, <1>9, Numbered
    <3>3. CASE ~(n <= place + Recoveries)
      <4>1. n - Recoveries \in 1..Steps /\ ~(n <= place)
        BY <1>1, <1>9, <3>3
      <4> QED
        BY <4>1, <3>3, <1>8, <1>9, Numbered
    <3> QED
      BY <3>1, <3>2, <3>3
  <2>2. ASSUME NEW i \in Work PROVE \E n \in DOMAIN order : order[n] = i
    <3>1. i[2] \in 1..Steps /\ i = <<"step", i[2]>>
      BY Kinds
    <3>2. CASE i[2] <= place
      <4>1. i[2] \in DOMAIN order
        BY <1>1, <1>9, <3>1
      <4> QED
        BY <1>8, <1>9, <3>1, <3>2, <4>1
    <3>3. CASE ~(i[2] <= place)
      <4>1. /\ i[2] + Recoveries \in DOMAIN order /\ ~(i[2] + Recoveries <= place + Recoveries)
            /\ ~(i[2] + Recoveries <= place) /\ (i[2] + Recoveries) - Recoveries = i[2]
        BY <1>1, <1>9, <3>1, <3>3
      <4> QED
        BY <1>8, <1>9, <3>1, <4>1
    <3> QED
      BY <3>2, <3>3
  <2>3. ASSUME NEW r \in Lane PROVE \E n \in DOMAIN order : order[n] = r
    <3>1. r[2] \in 1..Recoveries /\ r = <<"recovery", r[2]>>
      BY Kinds
    <3>2. /\ r[2] + place \in DOMAIN order /\ ~(r[2] + place <= place)
          /\ r[2] + place <= place + Recoveries /\ (r[2] + place) - place = r[2]
      BY <1>1, <1>9, <3>1
    <3> QED
      BY <1>8, <1>9, <3>1, <3>2
  <2> QED
    BY <2>1, <2>2, <2>3 DEF ToSet
<1>14. Ordered(order, TRUE)
  BY <1>7, <1>11, <1>12, <1>13 DEF Ordered
<1> QED
  BY <1>14 DEF order, c, a, b

LEMMA PlanOrdered ==
  ASSUME NEW h
  PROVE  Ordered(PlanOrder(h), TRUE) \/ Ordered(PlanOrder(h), FALSE)
<1> DEFINE work == [n \in 1..Steps |-> <<"step", n>>]
           lane == [n \in 1..Recoveries |-> <<"recovery", n>>]
           place == IF h.current \in Work THEN h.current[2] ELSE Steps
<1>1. place \in 0..Steps
  <2>1. Steps \in 0..Steps /\ \A n \in 1..Steps : n \in 0..Steps
    BY RunAssumption
  <2> QED
    BY <2>1, Kinds
<1>2. CASE NeedsLane(h)
  <2>1. PlanOrder(h) = SubSeq(work, 1, place) \o lane \o SubSeq(work, place + 1, Steps)
    BY <1>2 DEF PlanOrder
  <2> HIDE DEF place
  <2> QED
    BY <1>1, <2>1, LaneWithin
<1>3. CASE ~NeedsLane(h)
  <2>1. PlanOrder(h) = work
    BY <1>3 DEF PlanOrder
  <2> QED
    BY <2>1, WorkOrdered
<1> QED
  BY <1>2, <1>3

LEMMA RestoredFits ==
  ASSUME NEW h \in Handoffs, NEW d, NEW s, Fits(h.st, d, s)
  PROVE  /\ PlanFits(Restored(h), d, s)
         /\ \A i \in Ids \ (Work \cup Lane) : Restored(h).st[i] = "absent"
<1> DEFINE order == PlanOrder(h)
           q == Restored(h)
<1>1. PICK lane \in BOOLEAN : Ordered(order, lane)
  BY PlanOrdered
<1>2. h.st \in [Ids -> Statuses]
  BY DEF Handoffs
<1>3. q = [ids |-> order,
           st |-> [i \in Ids |-> IF i \notin ToSet(order) THEN "absent"
                                 ELSE IF h.st[i] = "absent" THEN "planned" ELSE h.st[i]]]
  BY DEF Restored
<1> HIDE DEF order, q
<1>4. /\ q.ids = order
      /\ \A i \in Ids : q.st[i] = IF i \notin ToSet(order) THEN "absent"
                                  ELSE IF h.st[i] = "absent" THEN "planned" ELSE h.st[i]
  BY <1>3
<1>5. q.st \in [Ids -> Statuses]
  BY <1>2, <1>3, KnownStatuses
<1>6. WellFormed(q)
  <2>1. q \in Plans
    BY <1>1, <1>3, <1>5 DEF Plans, Ordered
  <2>2. \A a, b \in DOMAIN q.ids : q.ids[a] = q.ids[b] => a = b
    BY <1>1, <1>4 DEF Ordered
  <2>3. \A i \in Ids : q.st[i] # "absent" <=> i \in ToSet(q.ids)
    BY <1>4
  <2> QED
    BY <2>1, <2>2, <2>3 DEF WellFormed
<1>7. InOrder(q)
  BY <1>1, <1>4 DEF InOrder, Ordered
<1>8. /\ \A i \in Ids : q.st[i] \notin {"absent", "planned"} => q.st[i] = h.st[i]
      /\ \A i \in Work : q.st[i] # "absent" /\ (h.st[i] = "failed" => q.st[i] = "failed")
      /\ \A i \in Ids \ (Work \cup Lane) : q.st[i] = "absent"
      /\ (\A i \in Lane : q.st[i] # "absent") \/ (\A i \in Lane : q.st[i] = "absent")
  <2>1. Work \subseteq ToSet(order) /\ ToSet(order) \subseteq Work \cup Lane
    BY <1>1 DEF Ordered
  <2>2. Lane \subseteq ToSet(order) \/ Lane \cap ToSet(order) = {}
    BY <1>1, Apart DEF Ordered
  <2>3. Work \subseteq Ids /\ Lane \subseteq Ids
    BY Apart
  <2>4. \A i \in Ids : i \in ToSet(order) => q.st[i] # "absent"
    BY <1>4
  <2> QED
    BY <1>4, <2>1, <2>2, <2>3, <2>4
<1>9. Fits(q.st, d, s)
  <2>1. \A i \in Work : q.st[i] = "completed" => i \in s
    BY <1>8, Apart DEF Fits
  <2>2. \A r \in Lane : q.st[r] = "completed" => r \in d
    BY <1>8, Apart DEF Fits
  <2>3. \A i \in Ids : q.st[i] \in Active => h.st[i] \in Active
    BY <1>8 DEF Active
  <2>4. \A i, j \in Work \cup Lane : q.st[i] \in Active /\ q.st[j] \in Active => i = j
    BY <2>3, Apart DEF Fits
  <2>5. \A i, j \in Work : i[2] < j[2] /\ q.st[j] \in Active => i \in s \/ q.st[i] = "failed"
    BY <1>8, <2>3, Apart DEF Fits
  <2> QED
    BY <2>1, <2>2, <2>4, <2>5 DEF Fits
<1>10. /\ \A i \in Work : q.st[i] = "absent" => i \in s
       /\ \A k, r \in Lane : q.st[k] # "absent" /\ q.st[r] = "absent" => r \in d
       /\ q.st[Archive] \in {"absent", "completed"}
       /\ \A c, e \in Checkpoints : e[2] < c[2] /\ q.st[c] # "absent" => q.st[e] # "absent"
  BY <1>8, Apart
<1> QED
  BY <1>6, <1>7, <1>8, <1>9, <1>10 DEF PlanFits, q

\* A checkpoint step, put in front of any step.
LEMMA PlaceFits ==
  ASSUME NEW p, NEW d, NEW s, PlanFits(p, d, s), NEW i \in Ids, p.st[i] # "absent",
         NEW new \in Checkpoints, p.st[new] = "absent", NEW status \in Statuses \ {"absent"},
         \A e \in Checkpoints : e[2] < new[2] => p.st[e] # "absent"
  PROVE  PlanFits(PlaceBefore(p, i, new, status), d, s)
<1> DEFINE q == PlaceBefore(p, i, new, status)
<1>1. WellFormed(p) /\ Fits(p.st, d, s) /\ InOrder(p) /\ new \in Ids /\ new \notin Work \cup Lane \cup {Archive}
  BY Apart DEF PlanFits
<1>2. WellFormed(q) /\ InOrder(q) /\ \A j \in Ids : q.st[j] = IF j = new THEN status ELSE p.st[j]
  BY <1>1, PlaceFacts
<1> HIDE DEF q
<1>3. \A j \in Work \cup Lane \cup {Archive} : q.st[j] = p.st[j]
  BY <1>1, <1>2, Apart
<1>4. Fits(q.st, d, s)
  BY <1>1, <1>3 DEF Fits
<1>5. /\ \A j \in Work : q.st[j] = "absent" => j \in s
      /\ \A k, r \in Lane : q.st[k] # "absent" /\ q.st[r] = "absent" => r \in d
      /\ q.st[Archive] \in {"absent", "completed"}
  BY <1>3 DEF PlanFits
<1>6. ASSUME NEW c \in Checkpoints, NEW e \in Checkpoints, e[2] < c[2], q.st[c] # "absent"
      PROVE  q.st[e] # "absent"
  <2>1. CASE c = new
    BY <2>1, <1>2, <1>6, Apart
  <2>2. CASE c # new
    BY <2>2, <1>2, <1>6, Apart DEF PlanFits
  <2> QED
    BY <2>1, <2>2
<1> QED
  BY <1>2, <1>4, <1>5, <1>6 DEF PlanFits, q

LEMMA CheckpointFits ==
  ASSUME NEW h \in Handoffs, NEW p, NEW d, NEW s, PlanFits(p, d, s),
         \A i \in Ids \ (Work \cup Lane) : p.st[i] = "absent"
  PROVE  /\ PlanFits(WithCheckpoint(p, h), d, s)
         /\ WithCheckpoint(p, h).st[Archive] = "absent"
         /\ \A c \in Checkpoints : WithCheckpoint(p, h).st[c] \in {"absent", "ready"}
<1>1. CASE WithCheckpoint(p, h) = p
  BY <1>1, Apart
<1>2. CASE WithCheckpoint(p, h) # p
  <2> DEFINE new == <<"checkpoint", 1>>
             r == IF p.st[h.current] \in {"ready", "in_progress"} THEN Set(p, h.current, "planned") ELSE p
  <2>1. /\ h.current \in ToSet(p.ids) /\ MaxCheckpoints > 0
        /\ WithCheckpoint(p, h) = PlaceBefore(r, h.current, new, "ready")
    BY <1>2 DEF WithCheckpoint
  <2>2. WellFormed(p) /\ h.current \in Ids /\ p.st[h.current] # "absent"
    <3>1. WellFormed(p)
      BY DEF PlanFits
    <3>2. h.current \in Ids
      BY <2>1, <3>1, PlanFacts DEF ToSet
    <3> QED
      BY <2>1, <3>1, <3>2 DEF WellFormed
  <2>3. /\ PlanFits(r, d, s)
        /\ \A i \in Ids : (p.st[i] = "absent") <=> (r.st[i] = "absent")
    <3>1. CASE p.st[h.current] \in {"ready", "in_progress"}
      <4>1. PlanFits(Set(p, h.current, "planned"), d, s)
        BY <2>2, <3>1, SetFits, KnownStatuses DEF Active
      <4>2. \A i \in Ids : Set(p, h.current, "planned").st[i] = IF i = h.current THEN "planned" ELSE p.st[i]
        BY <2>2, SetFacts, KnownStatuses
      <4> QED
        BY <2>2, <3>1, <4>1, <4>2
    <3>2. CASE p.st[h.current] \notin {"ready", "in_progress"}
      BY <3>2
    <3> QED
      BY <3>1, <3>2
  <2>4. new \in Checkpoints /\ new[2] = 1 /\ \A e \in Checkpoints : ~(e[2] < 1)
    <3>1. 1 \in 1..MaxCheckpoints
      BY <2>1, RunAssumption
    <3>2. \A n \in 1..MaxCheckpoints : ~(n < 1)
      BY RunAssumption
    <3> QED
      BY <3>1, <3>2, Kinds DEF Checkpoints
  <2>5. r.st[new] = "absent" /\ r.st[h.current] # "absent" /\ WellFormed(r)
    BY <2>2, <2>3, <2>4, Apart DEF PlanFits
  <2> HIDE DEF r
  <2>6. PlanFits(PlaceBefore(r, h.current, new, "ready"), d, s)
    BY <2>2, <2>3, <2>4, <2>5, PlaceFits, KnownStatuses
  <2>7. \A i \in Ids : PlaceBefore(r, h.current, new, "ready").st[i] = IF i = new THEN "ready" ELSE r.st[i]
    BY <2>2, <2>4, <2>5, PlaceFacts, KnownStatuses, Apart
  <2>8. \A i \in Checkpoints \cup {Archive} : i \in Ids /\ i \notin Work \cup Lane /\ r.st[i] = "absent"
    BY <2>3, Apart
  <2> HIDE DEF new
  <2>9. Archive # new
    BY <2>4, Apart
  <2> QED
    BY <2>1, <2>6, <2>7, <2>8, <2>9
<1> QED
  BY <1>1, <1>2

LEMMA FirstOfOpen ==
  ASSUME NEW n \in Nat, NEW open, open \subseteq 1..n, NEW first,
         \/ open = {} /\ first = n + 1
         \/ first \in open /\ \A k \in open : first <= k
  PROVE  first \in 1..n + 1 /\ \A i \in 1..n : (\A k \in open : i < k) <=> i < first
<1>1. first \in 1..n + 1 /\ first \in Nat /\ \A k \in open : k \in 1..n
  <2>1. \A k \in open : k \in 1..n
    OBVIOUS
  <2>2. n + 1 \in 1..n + 1 /\ \A k \in 1..n : k \in 1..n + 1 /\ k \in Nat
    OBVIOUS
  <2>3. first \in 1..n + 1
    BY <2>1, <2>2
  <2> QED
    BY <2>1, <2>3
<1>2. ASSUME NEW i \in 1..n, i < first, NEW k \in open PROVE i < k
  BY <1>1, <1>2
<1>3. ASSUME NEW i \in 1..n, \A k \in open : i < k PROVE i < first
  BY <1>1, <1>3
<1> QED
  BY <1>1, <1>2, <1>3

\* What compression takes out of a plan is completed, hence done.
LEMMA CompressedFits ==
  ASSUME NEW p, NEW d, NEW s, PlanFits(p, d, s), d \subseteq s, p.st[Archive] = "absent",
         \A c \in Checkpoints : p.st[c] # "completed"
  PROVE  PlanFits(Compressed(p), d, s)
<1> DEFINE open == Positions(p, Statuses \ {"completed"})
           prefix == {i \in DOMAIN p.ids : \A k \in open : i < k}
           closed == {p.ids[i] : i \in prefix}
           least == CHOOSE i \in open : \A k \in open : i <= k
           first == IF open = {} THEN Len(p.ids) + 1 ELSE least
           q == Compressed(p)
           rest == SubSeq(p.ids, first, Len(p.ids))
<1>1. /\ WellFormed(p) /\ Fits(p.st, d, s) /\ InOrder(p)
      /\ p.ids \in Seq(Ids) /\ DOMAIN p.ids = 1..Len(p.ids) /\ Len(p.ids) \in Nat
  BY PlanFacts DEF PlanFits
<1> SUFFICES ASSUME q # p PROVE PlanFits(q, d, s)
  OBVIOUS
<1>2. /\ ~(first <= 2)
      /\ q = [ids |-> <<Archive>> \o rest,
              st |-> [i \in Ids |-> IF i = Archive THEN "completed"
                                    ELSE IF i \in closed THEN "absent" ELSE p.st[i]]]
  BY DEF Compressed
<1>3. open \subseteq DOMAIN p.ids /\ \A i \in DOMAIN p.ids : i \in open <=> p.st[p.ids[i]] # "completed"
  <2>1. \A i \in DOMAIN p.ids : p.st[p.ids[i]] \in Statuses
    BY <1>1, PlanFacts
  <2> QED
    BY <2>1 DEF Positions
<1>4. /\ first \in 1..Len(p.ids) + 1
      /\ \A i \in DOMAIN p.ids : (\A k \in open : i < k) <=> i < first
  <2>1. open \subseteq 1..Len(p.ids)
    BY <1>1, <1>3
  <2> DEFINE n == Len(p.ids)
  <2>2. (open = {} /\ first = n + 1) \/ (first \in open /\ \A k \in open : first <= k)
    <3>1. CASE open = {}
      BY <3>1
    <3>2. CASE open # {}
      <4>1. \E i \in open : \A k \in open : i <= k
        <5> HIDE DEF open
        <5>1. open \in SUBSET Nat
          BY <1>1, <2>1
        <5> QED
          BY <3>2, <5>1, FirstExists
      <4>2. least \in open /\ \A k \in open : least <= k
        <5> HIDE DEF open
        <5> QED
          BY <4>1
      <4> HIDE DEF open, least
      <4> QED
        BY <3>2, <4>2
    <3> QED
      BY <3>1, <3>2
  <2>3. n \in Nat /\ open \subseteq 1..n /\ DOMAIN p.ids = 1..n
    BY <1>1, <2>1
  <2> HIDE DEF open, first, n
  <2>4. first \in 1..n + 1 /\ \A i \in 1..n : (\A k \in open : i < k) <=> i < first
    BY <2>2, <2>3, FirstOfOpen
  <2> QED
    BY <2>3, <2>4 DEF n
<1>p. \A i \in DOMAIN p.ids : i \in prefix <=> i < first
  <2>1. \A i \in DOMAIN p.ids : i \in prefix <=> \A k \in open : i < k
    OBVIOUS
  <2> HIDE DEF open, prefix, first
  <2> QED
    BY <1>4, <2>1
<1> HIDE DEF open, prefix, first
<1>5. \A i \in DOMAIN p.ids : i < first => p.st[p.ids[i]] = "completed"
  <2>1. ASSUME NEW i \in DOMAIN p.ids, i < first PROVE i \notin open
    <3>1. i \in Nat /\ \A k \in open : i < k
      BY <1>1, <1>4, <2>1
    <3> QED
      BY <3>1
  <2> QED
    BY <1>3, <2>1
<1>6. \A j \in Ids : j \in closed <=> \E i \in DOMAIN p.ids : i < first /\ p.ids[i] = j
  BY <1>p DEF prefix
<1> HIDE DEF closed
<1>7. /\ rest \in Seq(Ids) /\ Len(rest) = Len(p.ids) + 1 - first
      /\ \A m \in 1..Len(p.ids) + 1 - first : rest[m] = p.ids[first - 1 + m]
  <2>1. first \in Nat /\ 1 <= first /\ first <= Len(p.ids) + 1
    BY <1>1, <1>4
  <2> QED
    BY <1>1, <2>1, PartFacts
<1> HIDE DEF rest
<1>8. /\ q.ids \in Seq(Ids) /\ DOMAIN q.ids = 1..Len(p.ids) + 2 - first /\ q.ids[1] = Archive
      /\ \A m \in DOMAIN q.ids : m # 1 => first + m - 2 \in DOMAIN p.ids /\ q.ids[m] = p.ids[first + m - 2]
  <2>1. <<Archive>> \in Seq(Ids) /\ Len(<<Archive>>) = 1 /\ <<Archive>>[1] = Archive
    BY Apart
  <2>2. /\ q.ids \in Seq(Ids) /\ Len(q.ids) = 1 + Len(rest)
        /\ \A m \in 1..1 + Len(rest) : q.ids[m] = IF m <= 1 THEN <<Archive>>[m] ELSE rest[m - 1]
    BY <1>2, <1>7, <2>1, ConcatProperties
  <2>3. 1 + Len(rest) = Len(p.ids) + 2 - first /\ first \in Nat /\ 1 <= first /\ first <= Len(p.ids) + 1
    BY <1>1, <1>4, <1>7
  <2>4. DOMAIN q.ids = 1..Len(p.ids) + 2 - first
    BY <2>2, <2>3
  <2>5. q.ids[1] = Archive
    BY <1>1, <2>1, <2>2, <2>3
  <2>6. ASSUME NEW m \in DOMAIN q.ids, m # 1
        PROVE  first + m - 2 \in DOMAIN p.ids /\ q.ids[m] = p.ids[first + m - 2]
    <3> DEFINE len == Len(p.ids)
    <3>0. m \in 1..len + 2 - first /\ len \in Nat /\ first \in Nat /\ 1 <= first /\ first <= len + 1
      BY <1>1, <2>3, <2>4
    <3> HIDE DEF len
    <3>1. /\ m - 1 \in 1..len + 1 - first /\ ~(m <= 1)
          /\ first - 1 + (m - 1) = first + m - 2 /\ first + m - 2 \in 1..len
      BY <2>6, <3>0
    <3> USE DEF len
    <3>2. q.ids[m] = rest[m - 1]
      BY <2>2, <2>3, <2>4, <2>6, <3>1
    <3> QED
      BY <1>1, <1>7, <3>1, <3>2
  <2> QED
    BY <2>2, <2>4, <2>5, <2>6
<1>9. /\ q.st \in [Ids -> Statuses]
      /\ \A i \in Ids : q.st[i] = IF i = Archive THEN "completed"
                                  ELSE IF i \in closed THEN "absent" ELSE p.st[i]
  <2>1. p.st \in [Ids -> Statuses]
    BY <1>1, PlanFacts
  <2> QED
    BY <1>2, <2>1, KnownStatuses
<1>10. q \in Plans
  BY <1>2, <1>8, <1>9 DEF Plans
<1> HIDE DEF q
<1>11. \A i \in DOMAIN p.ids : p.ids[i] # Archive
  BY <1>1, PlanFacts
<1>12. ASSUME NEW a \in DOMAIN q.ids, NEW b \in DOMAIN q.ids, q.ids[a] = q.ids[b]
       PROVE  a = b
  <2>1. CASE a = 1 \/ b = 1
    BY <2>1, <1>8, <1>11, <1>12
  <2>2. CASE a # 1 /\ b # 1
    <3>1. /\ first + a - 2 \in DOMAIN p.ids /\ first + b - 2 \in DOMAIN p.ids
          /\ p.ids[first + a - 2] = p.ids[first + b - 2]
      BY <2>2, <1>8, <1>12
    <3>2. first + a - 2 = first + b - 2
      BY Zenon, <3>1, <1>1 DEF WellFormed
    <3>3. a \in Nat /\ b \in Nat /\ first \in Nat
      BY <1>1, <1>4, <1>8
    <3> QED
      BY <3>2, <3>3
  <2> QED
    BY <2>1, <2>2
<1>13. ASSUME NEW j \in Ids
       PROVE  q.st[j] # "absent" <=> j \in ToSet(q.ids)
  <2>1. CASE j = Archive
    <3>1. 1 \in DOMAIN q.ids
      BY <1>1, <1>4, <1>8
    <3> QED
      BY <2>1, <3>1, <1>8, <1>9 DEF ToSet
  <2>2. CASE j # Archive
    <3>1. ASSUME q.st[j] # "absent" PROVE j \in ToSet(q.ids)
      <4>1. p.st[j] # "absent" /\ j \notin closed
        BY <2>2, <3>1, <1>9
      <4>2. PICK i \in DOMAIN p.ids : p.ids[i] = j
        BY <4>1, <1>1, PlanFacts
      <4>3. ~(i < first)
        BY <4>1, <4>2, <1>6
      <4>4. i + 2 - first \in DOMAIN q.ids /\ i + 2 - first # 1 /\ first + (i + 2 - first) - 2 = i
        <5> DEFINE len == Len(p.ids)
        <5>1. i \in 1..len /\ len \in Nat /\ first \in 1..len + 1
          BY <1>1, <1>4
        <5>2. DOMAIN q.ids = 1..len + 2 - first
          BY <1>8
        <5> HIDE DEF len
        <5>3. first <= i
          BY <4>3, <5>1
        <5> QED
          BY <5>1, <5>2, <5>3
      <4>5. q.ids[i + 2 - first] = j
        BY <4>2, <4>4, <1>8
      <4> QED
        BY <4>4, <4>5 DEF ToSet
    <3>2. ASSUME j \in ToSet(q.ids) PROVE q.st[j] # "absent"
      <4>1. PICK m \in DOMAIN q.ids : q.ids[m] = j
        BY <3>2 DEF ToSet
      <4>2. first + m - 2 \in DOMAIN p.ids /\ j = p.ids[first + m - 2] /\ m # 1
        BY <2>2, <4>1, <1>8
      <4>3. p.st[j] # "absent"
        BY <4>2, <1>1, PlanFacts
      <4>4. j \notin closed
        <5> SUFFICES ASSUME j \in closed PROVE FALSE
          OBVIOUS
        <5>1. PICK i \in DOMAIN p.ids : i < first /\ p.ids[i] = j
          BY <1>6
        <5>2. i = first + m - 2
          BY Zenon, <5>1, <4>2, <1>1 DEF WellFormed
        <5>3. m \in Nat /\ m >= 1 /\ first \in Nat /\ i \in Nat
          BY <1>1, <1>4, <1>8
        <5> QED
          BY <4>2, <5>1, <5>2, <5>3
      <4> QED
        BY <2>2, <4>3, <4>4, <1>9
    <3> QED
      BY <3>1, <3>2
  <2> QED
    BY <2>1, <2>2
<1>14. WellFormed(q)
  BY <1>10, <1>12, <1>13 DEF WellFormed
<1>15. ASSUME NEW a \in DOMAIN q.ids, NEW b \in DOMAIN q.ids, a < b,
              q.ids[a] \in Work, q.ids[b] \in Work
       PROVE  q.ids[a][2] < q.ids[b][2]
  <2>1. a # 1 /\ b # 1
    BY <1>8, <1>15, Apart
  <2>2. /\ first + a - 2 \in DOMAIN p.ids /\ q.ids[a] = p.ids[first + a - 2]
        /\ first + b - 2 \in DOMAIN p.ids /\ q.ids[b] = p.ids[first + b - 2]
    BY <2>1, <1>8
  <2>3. first + a - 2 < first + b - 2
    BY <1>1, <1>4, <1>8, <1>15
  <2> QED
    BY <1>1, <1>15, <2>2, <2>3 DEF InOrder
<1>16. \A j \in Ids : j \in closed => p.st[j] = "completed"
  BY <1>5, <1>6
<1>17. Fits(q.st, d, s)
  <2>1. \A j \in Work \cup Lane : j \in Ids /\ q.st[j] \in {"absent", p.st[j]} /\ (q.st[j] # p.st[j] => p.st[j] = "completed")
    BY <1>9, <1>16, Apart
  <2>2. /\ \A i \in Work : q.st[i] = "completed" => i \in s
        /\ \A r \in Lane : q.st[r] = "completed" => r \in d
    BY <1>1, <2>1 DEF Fits
  <2>3. \A i, j \in Work \cup Lane : q.st[i] \in Active /\ q.st[j] \in Active => i = j
    BY <1>1, <2>1 DEF Fits, Active
  <2>4. ASSUME NEW i \in Work, NEW j \in Work, i[2] < j[2], q.st[j] \in Active
        PROVE  i \in s \/ q.st[i] = "failed"
    <3>1. p.st[j] \in Active
      BY <2>1, <2>4 DEF Active
    <3>2. i \in s \/ p.st[i] = "failed"
      BY <1>1, <2>4, <3>1 DEF Fits
    <3> QED
      BY <2>1, <3>2
  <2> QED
    BY <2>2, <2>3, <2>4 DEF Fits
<1>18. \A j \in Work : q.st[j] = "absent" => j \in s
  BY <1>1, <1>9, <1>16, Apart DEF Fits, PlanFits
<1>19. ASSUME NEW k \in Lane, NEW r \in Lane, q.st[k] # "absent", q.st[r] = "absent"
       PROVE  r \in d
  <2>1. p.st[k] # "absent"
    BY <1>9, <1>19, Apart
  <2>2. CASE r \in closed
    BY <2>2, <1>1, <1>16, Apart DEF Fits
  <2>3. CASE r \notin closed
    <3>1. p.st[r] = "absent"
      BY <2>3, <1>9, <1>19, Apart
    <3> QED
      BY <2>1, <3>1 DEF PlanFits
  <2> QED
    BY <2>2, <2>3
<1>20. \A c \in Checkpoints : q.st[c] = p.st[c]
  BY <1>9, <1>16, Apart
<1>21. /\ \A c, e \in Checkpoints : e[2] < c[2] /\ q.st[c] # "absent" => q.st[e] # "absent"
       /\ q.st[Archive] = "completed"
  BY <1>9, <1>20, Apart DEF PlanFits
<1> QED
  BY <1>14, <1>15, <1>17, <1>18, <1>19, <1>21 DEF PlanFits, InOrder, q

LEMMA PlanCreated ==
  ASSUME NEW h \in Handoffs, NEW d, NEW s, d \subseteq s, Fits(h.st, d, s)
  PROVE  /\ PlanFits(CreatePlan(h), d, s) /\ WellFormed(CreatePlan(h))
         /\ CreatePlan(h).st \in [Ids -> Statuses] /\ Fits(CreatePlan(h).st, d, s)
<1> DEFINE p == WithCheckpoint(Restored(h), h)
           q == Promote(p)
<1>1. /\ PlanFits(p, d, s) /\ p.st[Archive] = "absent"
      /\ \A c \in Checkpoints : p.st[c] \in {"absent", "ready"}
  BY RestoredFits, CheckpointFits
<1> HIDE DEF p
<1>2. PlanFits(q, d, s)
  BY <1>1, PromoteFits
<1>3. \A i \in Ids : q.st[i] = p.st[i] \/ (p.st[i] = "planned" /\ q.st[i] = "ready")
  <2>1. WellFormed(p)
    BY <1>1 DEF PlanFits
  <2> QED
    BY <2>1, PromoteFacts
<1>4. q.st[Archive] = "absent" /\ \A c \in Checkpoints : q.st[c] # "completed"
  BY <1>1, <1>3, Apart
<1> HIDE DEF q
<1>5. PlanFits(Compressed(q), d, s)
  BY <1>2, <1>4, CompressedFits
<1>6. PlanFits(CreatePlan(h), d, s)
  BY <1>5 DEF CreatePlan, q, p
<1>7. WellFormed(CreatePlan(h)) /\ Fits(CreatePlan(h).st, d, s)
  BY <1>6 DEF PlanFits
<1> QED
  BY <1>6, <1>7, PlanFacts

-----------------------------------------------------------------------------
(* Handoffs, memories and outcomes.                                        *)

LEMMA OutcomeFacts ==
  ASSUME NEW o \in Outcomes
  PROVE  /\ o.ok \in BOOLEAN /\ o.completed \in BOOLEAN
         /\ o.attempt \in {"none", "failed", "succeeded"}
         /\ o.completed => o.ok
         /\ o.ok => o.error = "none" /\ o.error \notin Waits /\ o.attempt = "succeeded"
<1>1. "none" \notin Waits
  BY DEF Waits
<1> QED
  BY <1>1 DEF Outcomes

LEMMA NothingYet ==
  /\ WellFormed(NoPlan) /\ NoHandoff \in Handoffs /\ NoMemory \in Memories /\ NoResult \in Outcomes
  /\ \A d, s : Fits(NoHandoff.st, d, s)
  /\ NoHandoff.status = "idle" /\ NoHandoff.currentStatus = "pending" /\ NoHandoff.current = NoStep
<1>1. WellFormed(NoPlan)
  <2>1. NoPlan.ids = <<>> /\ NoPlan.st = [i \in Ids |-> "absent"]
    BY DEF NoPlan
  <2>2. NoPlan \in Plans
    BY KnownStatuses DEF NoPlan, Plans
  <2>3. ToSet(NoPlan.ids) = {} /\ DOMAIN NoPlan.ids = {}
    BY <2>1 DEF ToSet
  <2> QED
    BY <2>1, <2>2, <2>3 DEF WellFormed
<1>2. NoHandoff \in Handoffs
  BY KnownStatuses DEF NoHandoff, Handoffs
<1>3. NoMemory \in Memories
  BY RunAssumption DEF NoMemory, Memories
<1>4. NoResult \in Outcomes
  BY DEF NoResult, Outcomes, Providers, Waits
<1>5. ASSUME NEW d, NEW s PROVE Fits(NoHandoff.st, d, s)
  <2>1. \A i \in Work \cup Lane : NoHandoff.st[i] = "absent"
    BY Apart DEF NoHandoff
  <2> QED
    BY <2>1 DEF Fits, Active
<1>6. NoHandoff.status = "idle" /\ NoHandoff.currentStatus = "pending" /\ NoHandoff.current = NoStep
  BY DEF NoHandoff
<1> QED
  BY <1>1, <1>2, <1>3, <1>4, <1>5, <1>6

LEMMA OpenedFacts ==
  ASSUME NEW h \in Handoffs, NEW d, NEW s, d \subseteq s, Fits(h.st, d, s), CompletedWhen(h)
  PROVE  /\ Opened(h) \in Handoffs /\ Fits(Opened(h).st, d, s) /\ CompletedWhen(Opened(h))
         /\ Opened(h).status \notin {"idle", "closed"}
         /\ Opened(h).status = "executing" => Opened(h) = h
<1>1. CASE Resumable(h)
  BY <1>1 DEF Opened, Resumable
<1>2. CASE ~Resumable(h)
  <2> DEFINE st == CreatePlan(h).st
  <2>1. st \in [Ids -> Statuses] /\ Fits(st, d, s)
    BY PlanCreated
  <2> HIDE DEF st
  <2>2. Opened(h) = [h EXCEPT !.status = "planned", !.st = st, !.current = NoStep,
                             !.currentStatus = "pending", !.gate = FALSE]
    BY <1>2 DEF Opened, st
  <2>3. Opened(h) \in Handoffs
    BY <2>1, <2>2 DEF Handoffs
  <2>4. /\ Opened(h).status = "planned" /\ Opened(h).st = st /\ Opened(h).currentStatus = "pending"
    BY <2>2 DEF Handoffs
  <2> QED
    BY <2>1, <2>3, <2>4 DEF CompletedWhen
<1> QED
  BY <1>1, <1>2

LEMMA WithoutIssueFacts ==
  ASSUME NEW h \in Handoffs, NEW closed
  PROVE  /\ WithoutIssue(h, closed) \in Handoffs
         /\ WithoutIssue(h, closed).st = h.st /\ WithoutIssue(h, closed).status = h.status
         /\ WithoutIssue(h, closed).current = h.current
BY DEF WithoutIssue, Handoffs

LEMMA ClosedFacts ==
  ASSUME NEW h \in Handoffs, NEW p, p.st \in [Ids -> Statuses],
         NEW success \in BOOLEAN, NEW finished \in BOOLEAN
  PROVE  /\ Closed(h, p, success, finished) \in Handoffs
         /\ Closed(h, p, success, finished).st = p.st
         /\ Closed(h, p, success, finished).status = IF success THEN "closed" ELSE "exception"
         /\ CompletedWhen(Closed(h, p, success, finished))
<1> DEFINE f == IF success /\ finished THEN WithoutIssue(h, Ids) ELSE h
           c == Closed(h, p, success, finished)
           st == p.st
<1>1. f \in Handoffs /\ st \in [Ids -> Statuses]
  BY WithoutIssueFacts
<1> HIDE DEF f, st
<1> DEFINE status == IF success THEN "closed" ELSE "exception"
           current == IF success THEN "completed" ELSE "exception"
           planned == f.exceptionPlan \/ ~success
<1>2. c = [f EXCEPT !.status = status, !.st = st, !.currentStatus = current, !.gate = FALSE,
                    !.exceptionPlan = planned]
  BY DEF Closed, f, st
<1>3. status \in {"closed", "exception"} /\ current \in {"completed", "exception"}
  OBVIOUS
<1>4. planned \in BOOLEAN
  OBVIOUS
<1>5. current = "completed" => status = "closed"
  OBVIOUS
<1> HIDE DEF c, status, current, planned
<1>6. c \in Handoffs
  <2>1. status \in {"idle", "planned", "executing", "waiting", "exception", "closed"}
    BY <1>3
  <2>2. current \in Statuses \cup {"pending", "waiting", "exception"}
    BY <1>3, KnownStatuses
  <2> QED
    BY <1>1, <1>2, <1>4, <2>1, <2>2 DEF Handoffs
<1>7. c.st = st /\ c.status = status /\ c.currentStatus = current
  BY <1>1, <1>2 DEF Handoffs
<1> QED
  BY <1>5, <1>6, <1>7 DEF CompletedWhen, c, st, status

LEMMA RememberFacts ==
  ASSUME NEW m \in Memories, NEW i \in Ids, NEW o \in Outcomes, NEW same \in BOOLEAN
  PROVE  /\ Remember(m, i, o, same) \in Memories
         /\ o.ok => Remember(m, i, o, same).last[i] = "succeeded"
<1>1. CASE o.attempt = "none"
  BY <1>1, OutcomeFacts DEF Remember
<1>2. CASE o.attempt # "none"
  <2> DEFINE repeats == [m.repeats EXCEPT ![i] = IF ~same THEN 1 ELSE IF @ = 3 THEN 3 ELSE @ + 1]
             fails == [m.fails EXCEPT ![i] = IF o.attempt = "failed" /\ @ < MaxRetries THEN @ + 1 ELSE @]
             last == [m.last EXCEPT ![i] = o.attempt]
  <2>1. repeats \in [Ids -> 0..3]
    <3>1. m.repeats \in [Ids -> 0..3] /\ m.repeats[i] \in 0..3
      BY DEF Memories
    <3>2. (IF ~same THEN 1 ELSE IF m.repeats[i] = 3 THEN 3 ELSE m.repeats[i] + 1) \in 0..3
      BY <3>1
    <3> QED
      BY <3>1, <3>2
  <2>2. fails \in [Ids -> 0..MaxRetries]
    <3>1. m.fails \in [Ids -> 0..MaxRetries] /\ m.fails[i] \in 0..MaxRetries
      BY DEF Memories
    <3>2. (IF o.attempt = "failed" /\ m.fails[i] < MaxRetries THEN m.fails[i] + 1 ELSE m.fails[i]) \in 0..MaxRetries
      BY <3>1, RunAssumption
    <3> QED
      BY <3>1, <3>2
  <2>3. last \in [Ids -> {"none", "failed", "succeeded"}] /\ last[i] = o.attempt
    BY OutcomeFacts DEF Memories
  <2>4. Remember(m, i, o, same) = [repeats |-> repeats, fails |-> fails, last |-> last]
    BY <1>2 DEF Remember
  <2> HIDE DEF repeats, fails, last
  <2> QED
    BY <2>1, <2>2, <2>3, <2>4, OutcomeFacts DEF Memories
<1> QED
  BY <1>1, <1>2

LEMMA BeganFacts ==
  ASSUME NEW h \in Handoffs, NEW i \in Ids, NEW status \in {"in_progress", "failed"}
  PROVE  /\ Began(h, i, status) \in Handoffs
         /\ Began(h, i, status).status = "executing" /\ Began(h, i, status).st = h.st
         /\ Began(h, i, status).current = i /\ Began(h, i, status).currentStatus = status
BY KnownStatuses DEF Began, Handoffs

-----------------------------------------------------------------------------
(* What a step that is executed does to its plan.                          *)

LEMMA SetTwice ==
  ASSUME NEW p, WellFormed(p), NEW i \in Ids, NEW a, NEW b
  PROVE  Set(Set(p, i, a), i, b) = Set(p, i, b)
<1> DEFINE ids == p.ids
           st == p.st
<1>1. p = [ids |-> ids, st |-> st] /\ st \in [Ids -> Statuses]
  BY PlanFacts
<1> HIDE DEF ids, st
<1>2. \A x : Set(p, i, x) = [ids |-> ids, st |-> [st EXCEPT ![i] = x]]
  BY <1>1 DEF Set
<1>3. Set(Set(p, i, a), i, b) = [ids |-> ids, st |-> [[st EXCEPT ![i] = a] EXCEPT ![i] = b]]
  BY <1>2 DEF Set
<1>4. [[st EXCEPT ![i] = a] EXCEPT ![i] = b] = [st EXCEPT ![i] = b]
  BY <1>1
<1> QED
  BY <1>2, <1>3, <1>4

\* The closed gate turns the failed steps into completed ones.
LEMMA RecoveredFits ==
  ASSUME NEW p, NEW d, NEW s, NEW s2, PlanFits(p, d, s), s \subseteq s2,
         \A i \in Work : p.st[i] = "failed" => i \in s2,
         \A r \in Lane : p.st[r] # "failed"
  PROVE  PlanFits(Recovered(p), d, s2)
<1> DEFINE q == [p EXCEPT !.st = [i \in Ids |-> IF p.st[i] = "failed" THEN "completed" ELSE p.st[i]]]
<1>1. WellFormed(p) /\ Fits(p.st, d, s) /\ InOrder(p)
  BY DEF PlanFits
<1>2. q.ids = p.ids /\ \A i \in Ids : q.st[i] = IF p.st[i] = "failed" THEN "completed" ELSE p.st[i]
  BY <1>1, PlanFacts
<1>3. WellFormed(q)
  <2>1. q \in Plans
    BY <1>1, PlanFacts, KnownStatuses DEF Plans
  <2>2. \A i \in Ids : q.st[i] # "absent" <=> p.st[i] # "absent"
    BY <1>2
  <2> HIDE DEF q
  <2> QED
    BY <1>1, <1>2, <2>1, <2>2 DEF WellFormed
<1> HIDE DEF q
<1>4. InOrder(q)
  BY <1>1, <1>2 DEF InOrder
<1>5. Fits(q.st, d, s2)
  <2>1. \A j \in Work : q.st[j] = "completed" => j \in s2
    BY <1>1, <1>2, Apart DEF Fits
  <2>2. \A r \in Lane : q.st[r] = "completed" => r \in d
    BY <1>1, <1>2, Apart DEF Fits
  <2>3. \A i, j \in Work \cup Lane : q.st[i] \in Active /\ q.st[j] \in Active => i = j
    BY <1>1, <1>2, Apart DEF Fits, Active
  <2>4. ASSUME NEW i \in Work, NEW j \in Work, i[2] < j[2], q.st[j] \in Active
        PROVE  i \in s2 \/ q.st[i] = "failed"
    <3>1. p.st[j] \in Active
      BY <1>2, <2>4, Apart DEF Active
    <3>2. i \in s \/ p.st[i] = "failed"
      BY <1>1, <2>4, <3>1 DEF Fits
    <3> QED
      BY <3>2
  <2> QED
    BY <2>1, <2>2, <2>3, <2>4 DEF Fits
<1>6. /\ \A j \in Work : q.st[j] = "absent" => j \in s2
      /\ \A k, r \in Lane : q.st[k] # "absent" /\ q.st[r] = "absent" => r \in d
      /\ \A c, e \in Checkpoints : e[2] < c[2] /\ q.st[c] # "absent" => q.st[e] # "absent"
      /\ q.st[Archive] \in {"absent", "completed"}
  BY <1>2, Apart DEF PlanFits
<1>7. PlanFits(q, d, s2)
  BY <1>3, <1>4, <1>5, <1>6 DEF PlanFits
<1>8. PlanFits(Promote(q), d, s2)
  BY <1>7, PromoteFits
<1> QED
  BY <1>8 DEF Recovered, q

\* The checkpoint steps of a plan are numbered from 1, so the next number is free.
LEMMA NextIsNew ==
  ASSUME NEW d, NEW s, PlanFits(plan, d, s), NextCheckpoint \in Checkpoints
  PROVE  /\ plan.st[NextCheckpoint] = "absent"
         /\ \A e \in Checkpoints : e[2] < NextCheckpoint[2] => plan.st[e] # "absent"
<1> DEFINE A == {c \in Checkpoints : plan.st[c] # "absent"}
           name(k) == <<"checkpoint", k>>
           free == {k \in 1..MaxCheckpoints : name(k) \notin A} \cup {MaxCheckpoints + 1}
<1>1. MaxCheckpoints \in Nat
  BY RunAssumption
<1>2. free \in SUBSET Nat /\ free # {}
  BY <1>1
<1>3. PICK m \in free : \A k \in free : m <= k
  <2> HIDE DEF free
  <2> QED
    BY <1>2, FirstExists
<1>4. m \in Nat /\ 1 <= m /\ m <= MaxCheckpoints + 1
  BY <1>1
<1>5. \A k \in 1..m - 1 : name(k) \in A
  <2> TAKE k \in 1..m - 1
  <2>1. k \in 1..MaxCheckpoints /\ ~(m <= k)
    BY <1>1, <1>4
  <2> QED
    BY <1>3, <2>1
<1>6. \A c \in A : c[2] \in 1..m - 1 /\ c = name(c[2])
  <2> TAKE c \in A
  <2>1. c \in Checkpoints /\ c[2] \in 1..MaxCheckpoints /\ c = name(c[2])
    BY Kinds
  <2>2. c[2] # m
    BY <1>1, <2>1
  <2>3. ~(m < c[2])
    <3> SUFFICES ASSUME m < c[2] PROVE FALSE
      OBVIOUS
    <3>1. m \in 1..MaxCheckpoints
      BY <1>1, <1>4, <2>1
    <3>2. name(m) \in Checkpoints /\ name(m)[2] = m
      BY <3>1 DEF Checkpoints
    <3>3. plan.st[name(m)] # "absent"
      BY <2>1, <3>2 DEF PlanFits
    <3>4. name(m) \in A
      BY <3>2, <3>3
    <3> QED
      BY <1>1, <3>1, <3>4
  <2> QED
    BY <1>4, <2>1, <2>2, <2>3
<1> HIDE DEF A, free
<1>7. Cardinality(A) = m - 1
  <2> DEFINE f == [k \in 1..m - 1 |-> name(k)]
  <2>1. f \in [1..m - 1 -> A]
    BY <1>5
  <2>2. \A a, b \in 1..m - 1 : f[a] = f[b] => a = b
    OBVIOUS
  <2>3. \A c \in A : \E k \in 1..m - 1 : f[k] = c
    BY <1>6
  <2> HIDE DEF f
  <2>4. ExistsBijection(1..m - 1, A)
    BY <2>1, <2>2, <2>3 DEF ExistsBijection, Bijection, Injection, Surjection, IsInjective
  <2>5. IsFiniteSet(1..m - 1) /\ Cardinality(1..m - 1) = m - 1
    <3>1. 1 \in Int /\ m - 1 \in Int
      BY <1>4
    <3>2. IsFiniteSet(1..m - 1) /\ Cardinality(1..m - 1) = IF 1 > m - 1 THEN 0 ELSE (m - 1) - 1 + 1
      BY <3>1, FS_Interval
    <3> QED
      BY <1>4, <3>2
  <2> QED
    BY <2>4, <2>5, FS_Bijection
<1>8. NextCheckpoint = name(m)
  <2>1. NextCheckpoint = <<"checkpoint", 1 + Cardinality(A)>>
    BY DEF NextCheckpoint, A
  <2>2. 1 + (m - 1) = m
    BY <1>4
  <2> QED
    BY <1>7, <2>1, <2>2
<1>9. NextCheckpoint \notin A
  BY <1>4, <1>6, <1>8
<1>10. ASSUME NEW e \in Checkpoints, e[2] < m PROVE e \in A
  <2>1. e = name(e[2]) /\ e[2] \in 1..MaxCheckpoints
    BY Kinds
  <2>2. e[2] \in 1..m - 1
    BY <1>1, <1>4, <1>10, <2>1
  <2> QED
    BY <1>5, <2>1, <2>2
<1> QED
  BY <1>8, <1>9, <1>10 DEF A

-----------------------------------------------------------------------------
(* What each action keeps.                                                 *)

LEMMA Beginning == ASSUME IInv, Begin PROVE IInv'
<1> DEFINE s == done \cup recovered
           h == Opened(disk)
           p == CreatePlan(disk)
<1>1. disk \in Handoffs /\ Fits(disk.st, done, s) /\ CompletedWhen(disk) /\ diskMem \in Memories
  BY DEF IInv, TypeOK, StepsInv, SavesInv
<1>2. PlanFits(p, done, s) /\ WellFormed(p)
  BY <1>1, PlanCreated
<1>3. /\ h \in Handoffs /\ Fits(h.st, done, s) /\ CompletedWhen(h)
      /\ h.status \notin {"idle", "closed"} /\ (h.status = "executing" => h = disk)
  BY <1>1, OpenedFacts
<1>4. /\ pc' = "loop" /\ iter' = 0 /\ plan' = p /\ ho' = h /\ disk' = h /\ mem' = diskMem
      /\ owed' = {} /\ runs' = runs + 1
      /\ UNCHANGED <<diskMem, result, faults, torn, done, recovered, reopened>>
  BY DEF Begin
<1> HIDE DEF h, p
<1>5. TypeOK'
  BY <1>1, <1>2, <1>3, <1>4 DEF IInv, TypeOK
<1>6. StepsInv'
  BY <1>2, <1>3, <1>4 DEF StepsInv
<1>7. Evidence(h, diskMem) \/ torn \/ reopened
  BY <1>3 DEF IInv, SavesInv, Evidence
<1>8. SavesInv'
  BY <1>3, <1>4, <1>7 DEF SavesInv
<1>9. ClosedMeansDone'
  BY <1>3, <1>4 DEF ClosedMeansDone
<1> QED
  BY <1>5, <1>6, <1>8, <1>9 DEF IInv

\* What happens while no process runs only changes the handoff on the disk.
LEMMA Outside ==
  ASSUME IInv, pc = "down", UNCHANGED <<pc, process, diskMem, faults, torn, done, recovered, owed>>,
         runs' \in Nat, reopened' \in BOOLEAN, reopened => reopened',
         disk' \in Handoffs, Fits(disk'.st, done, done \cup recovered), CompletedWhen(disk'),
         disk'.status # "closed", torn \/ reopened' \/ Evidence(disk', diskMem)
  PROVE  IInv'
<1>1. UNCHANGED <<pc, plan, ho, mem, iter, result, diskMem, faults, torn, done, recovered, owed>>
  BY DEF process
<1>2. TypeOK'
  BY <1>1 DEF IInv, TypeOK
<1>3. StepsInv'
  BY <1>1 DEF IInv, StepsInv
<1>4. SavesInv'
  BY <1>1 DEF IInv, SavesInv
<1>5. ClosedMeansDone'
  BY DEF ClosedMeansDone
<1> QED
  BY <1>2, <1>3, <1>4, <1>5 DEF IInv

LEMMA Rejecting == ASSUME IInv, Reject PROVE IInv'
<1> DEFINE s == done \cup recovered
           h == Opened(disk)
           p == CreatePlan(disk)
           c == Closed(h, p, FALSE, FALSE)
<1>1. disk \in Handoffs /\ Fits(disk.st, done, s) /\ CompletedWhen(disk)
  BY DEF IInv, TypeOK, StepsInv, SavesInv
<1>2. p.st \in [Ids -> Statuses] /\ Fits(p.st, done, s)
  BY <1>1, PlanCreated
<1>3. h \in Handoffs
  BY <1>1, OpenedFacts
<1>4. /\ disk' = c /\ pc = "down" /\ runs' = runs + 1
      /\ UNCHANGED <<pc, process, diskMem, faults, torn, done, recovered, owed, reopened>>
  BY DEF Reject, history
<1> HIDE DEF h, p
<1>5. c \in Handoffs /\ c.st = p.st /\ c.status = "exception" /\ CompletedWhen(c)
  BY <1>2, <1>3, ClosedFacts
<1> HIDE DEF c
<1>6. runs' \in Nat /\ reopened' \in BOOLEAN /\ (reopened => reopened')
  BY <1>4 DEF IInv, TypeOK
<1>7. Evidence(c, diskMem)
  BY <1>5 DEF Evidence
<1> QED
  BY <1>2, <1>4, <1>5, <1>6, <1>7, Outside

LEMMA Clarifying == ASSUME IInv, Clarify PROVE IInv'
<1> DEFINE s == done \cup recovered
           h == Opened(disk)
           c == [h EXCEPT !.status = "waiting", !.currentStatus = "waiting", !.gate = FALSE, !.question = TRUE]
<1>1. disk \in Handoffs /\ Fits(disk.st, done, s) /\ CompletedWhen(disk)
  BY DEF IInv, TypeOK, StepsInv, SavesInv
<1>2. h \in Handoffs /\ Fits(h.st, done, s)
  BY <1>1, OpenedFacts
<1>3. /\ disk' = c /\ pc = "down" /\ runs' = runs + 1
      /\ UNCHANGED <<pc, process, diskMem, faults, torn, done, recovered, owed, reopened>>
  BY DEF Clarify, history
<1> HIDE DEF h
<1>4. c \in Handoffs /\ c.st = h.st /\ c.status = "waiting" /\ c.currentStatus = "waiting"
  BY <1>2 DEF Handoffs
<1> HIDE DEF c
<1>5. runs' \in Nat /\ reopened' \in BOOLEAN /\ (reopened => reopened')
  BY <1>3 DEF IInv, TypeOK
<1>6. Evidence(c, diskMem) /\ CompletedWhen(c)
  BY <1>4 DEF Evidence, CompletedWhen
<1> QED
  BY <1>2, <1>3, <1>4, <1>5, <1>6, Outside

LEMMA Answering == ASSUME IInv, Answer PROVE IInv'
<1> DEFINE s == done \cup recovered
           status == IF disk.currentStatus = "waiting" THEN "in_progress" ELSE disk.currentStatus
           c == [disk EXCEPT !.status = "executing", !.gate = FALSE, !.question = FALSE, !.currentStatus = status]
<1>1. disk \in Handoffs /\ Fits(disk.st, done, s) /\ CompletedWhen(disk)
  BY DEF IInv, TypeOK, StepsInv, SavesInv
<1>2. /\ disk' = c /\ pc = "down" /\ reopened' = (reopened \/ disk.status = "closed")
      /\ UNCHANGED <<pc, process, diskMem, runs, faults, torn, done, recovered, owed>>
  BY DEF Answer
<1>3. status \in Statuses \cup {"pending", "waiting", "exception"}
  BY <1>1, KnownStatuses DEF Handoffs
<1>4. status = "completed" => disk.currentStatus = "completed"
  OBVIOUS
<1> HIDE DEF status
<1>5. /\ c \in Handoffs /\ c.st = disk.st /\ c.status = "executing"
      /\ c.currentStatus = status /\ c.current = disk.current
  BY <1>1, <1>3 DEF Handoffs
<1> HIDE DEF c
<1>6. runs' \in Nat /\ reopened' \in BOOLEAN /\ (reopened => reopened')
  BY <1>2 DEF IInv, TypeOK
<1>7. CompletedWhen(c)
  BY <1>5 DEF CompletedWhen
<1>8. torn \/ reopened' \/ Evidence(c, diskMem)
  <2> SUFFICES ASSUME ~torn, ~reopened', status = "completed", disk.current # NoStep
               PROVE  diskMem.last[disk.current] = "succeeded"
    BY <1>5 DEF Evidence
  <2>1. disk.status = "executing"
    BY <1>1, <1>2, <1>4 DEF CompletedWhen
  <2>2. ~reopened
    BY <1>2
  <2> QED
    BY <1>4, <2>1, <2>2 DEF IInv, SavesInv, Evidence
<1> QED
  BY <1>1, <1>2, <1>5, <1>6, <1>7, <1>8, Outside

LEMMA CurrentFacts ==
  ASSUME WellFormed(plan), Pending
  PROVE  Current \in Ids /\ plan.st[Current] \in Active
BY FirstFacts, PlanFacts DEF Current, Pending, Active

LEMMA Starting == ASSUME IInv, StartStep PROVE IInv'
<1> DEFINE s == done \cup recovered
           i == Current
           p == Set(plan, i, "in_progress")
           h == Began(ho, i, "in_progress")
<1>1. /\ WellFormed(plan) /\ PlanFits(plan, done, s) /\ ho \in Handoffs /\ Fits(ho.st, done, s)
      /\ pc = "loop" /\ mem = diskMem
  BY DEF IInv, TypeOK, StepsInv, SavesInv, StartStep
<1>2. i \in Ids /\ plan.st[i] \in Active
  BY <1>1, CurrentFacts DEF StartStep
<1>3. /\ pc' = "executing" /\ iter' = iter + 1 /\ plan' = p /\ ho' = h /\ disk' = h
      /\ UNCHANGED <<mem, result, diskMem, runs, faults, torn, done, recovered, owed, reopened>>
  BY DEF StartStep
<1> HIDE DEF i
<1>4. WellFormed(p) /\ PlanFits(p, done, s) /\ \A j \in Ids : p.st[j] = IF j = i THEN "in_progress" ELSE plan.st[j]
  <2>1. plan.st[i] # "absent"
    BY <1>2 DEF Active
  <2> QED
    BY <1>1, <1>2, <2>1, SetFits, SetFacts, KnownStatuses
<1>5. h \in Handoffs /\ h.status = "executing" /\ h.st = ho.st /\ h.current = i /\ h.currentStatus = "in_progress"
  BY <1>1, <1>2, BeganFacts
<1> HIDE DEF p, h
<1>6. TypeOK'
  BY <1>2, <1>3, <1>4, <1>5 DEF IInv, TypeOK
<1>7. StepsInv'
  <2>1. owed # {} => \A j \in Ids : p.st[j] \in Active => j \in Checkpoints
    BY <1>2, <1>4 DEF IInv, StepsInv, Active
  <2> QED
    BY <1>1, <1>2, <1>3, <1>4, <1>5, <2>1 DEF IInv, StepsInv
<1>8. SavesInv'
  <2>1. i # NoStep
    BY <1>2, Apart
  <2>2. CompletedWhen(h) /\ Evidence(h, mem)
    BY <1>5 DEF CompletedWhen, Evidence
  <2> QED
    BY <1>1, <1>3, <1>5, <2>1, <2>2 DEF SavesInv
<1>9. ClosedMeansDone'
  BY <1>3, <1>5 DEF ClosedMeansDone
<1> QED
  BY <1>6, <1>7, <1>8, <1>9 DEF IInv

LEMMA Aborting == ASSUME IInv, AbortStep PROVE IInv'
<1> DEFINE s == done \cup recovered
           i == Current
           p == Set(plan, i, "failed")
           b == Began(ho, i, "failed")
           h == [b EXCEPT !.issues = @ \cup {i}, !.gate = FALSE]
<1>1. /\ WellFormed(plan) /\ PlanFits(plan, done, s) /\ ho \in Handoffs /\ Fits(ho.st, done, s)
      /\ pc = "loop" /\ mem = diskMem
  BY DEF IInv, TypeOK, StepsInv, SavesInv, AbortStep
<1>2. i \in Ids /\ plan.st[i] \in Active
  BY <1>1, CurrentFacts DEF AbortStep
<1>3. /\ iter' = iter + 1 /\ plan' = p /\ ho' = h /\ disk' = h
      /\ UNCHANGED <<pc, mem, result, diskMem, runs, faults, torn, done, recovered, owed, reopened>>
  BY DEF AbortStep
<1> HIDE DEF i
<1>4. WellFormed(p) /\ PlanFits(p, done, s) /\ \A j \in Ids : p.st[j] = IF j = i THEN "failed" ELSE plan.st[j]
  <2>1. plan.st[i] # "absent"
    BY <1>2 DEF Active
  <2> QED
    BY <1>1, <1>2, <2>1, SetFits, SetFacts, KnownStatuses
<1>5. b \in Handoffs /\ b.status = "executing" /\ b.st = ho.st /\ b.current = i /\ b.currentStatus = "failed"
  BY <1>1, <1>2, BeganFacts
<1> HIDE DEF p, b
<1>6. h \in Handoffs /\ h.status = "executing" /\ h.st = ho.st /\ h.current = i /\ h.currentStatus = "failed"
  BY <1>2, <1>5 DEF Handoffs
<1> HIDE DEF h
<1>7. TypeOK'
  BY <1>2, <1>3, <1>4, <1>6 DEF IInv, TypeOK
<1>8. StepsInv'
  <2>1. owed # {} => \A j \in Ids : p.st[j] \in Active => j \in Checkpoints
    BY <1>2, <1>4 DEF IInv, StepsInv, Active
  <2> QED
    BY <1>1, <1>2, <1>3, <1>4, <1>6, <2>1 DEF IInv, StepsInv
<1>9. SavesInv'
  <2>1. CompletedWhen(h) /\ Evidence(h, mem)
    BY <1>6 DEF CompletedWhen, Evidence
  <2> QED
    BY <1>1, <1>3, <1>6, <2>1 DEF SavesInv
<1>10. ClosedMeansDone'
  BY <1>3, <1>6 DEF ClosedMeansDone
<1> QED
  BY <1>7, <1>8, <1>9, <1>10 DEF IInv

\* What is left to show when a step has returned, whatever it did.
LEMMA Executed ==
  ASSUME IInv, NEW o \in Returned, NEW same \in BOOLEAN, pc = "executing", pc' = "memory", result' = o,
         mem' = Remember(mem, ho.current, o, same),
         UNCHANGED <<iter, durable, runs, faults, torn, reopened>>,
         done \subseteq done', recovered \subseteq recovered', done' \subseteq Ids, recovered' \subseteq Ids,
         PlanFits(plan', done', done' \cup recovered'),
         ho' \in Handoffs, ho'.st = ho.st, ho'.status = "executing", ho'.current = ho.current,
         ho'.currentStatus = "completed" => o.ok,
         owed' \subseteq Ids \ Checkpoints,
         owed' # {} => \A j \in Ids : plan'.st[j] \in Active => j \in Checkpoints
  PROVE  IInv'
<1>1. UNCHANGED <<iter, disk, diskMem, runs, faults, torn, reopened>>
  BY DEF durable
<1>2. o \in Outcomes /\ ho.current \in Ids /\ mem \in Memories /\ WellFormed(plan')
  BY RunAssumption DEF IInv, TypeOK, StepsInv, PlanFits
<1>3. mem' \in Memories /\ (o.ok => mem'.last[ho.current] = "succeeded")
  BY <1>2, RememberFacts
<1>4. TypeOK'
  BY <1>1, <1>2, <1>3, Apart DEF IInv, TypeOK
<1>5. StepsInv'
  <2>1. Fits(disk.st, done', done' \cup recovered') /\ Fits(ho.st, done', done' \cup recovered')
    BY FitsGrows DEF IInv, StepsInv
  <2> QED
    BY <1>1, <2>1 DEF StepsInv
<1>6. SavesInv'
  <2>1. o.ok => o.error \notin Waits
    BY <1>2, OutcomeFacts
  <2>2. Evidence(ho', mem') /\ CompletedWhen(ho')
    BY <1>3 DEF Evidence, CompletedWhen
  <2>3. disk.currentStatus = "in_progress" /\ CompletedWhen(disk) /\ ho.current # NoStep
    BY DEF IInv, SavesInv
  <2>4. Evidence(disk, diskMem)
    BY <2>3 DEF Evidence
  <2> QED
    BY <1>1, <2>1, <2>2, <2>3, <2>4 DEF SavesInv
<1>7. ClosedMeansDone'
  BY <1>1 DEF IInv, ClosedMeansDone
<1> QED
  BY <1>4, <1>5, <1>6, <1>7 DEF IInv

LEMMA Completing ==
  ASSUME IInv, pc = "executing", NEW i, i = ho.current, NEW checkpoint \in BOOLEAN, Complete(i, checkpoint)
  PROVE  /\ done \subseteq done' /\ recovered \subseteq recovered' /\ done' \subseteq Ids /\ recovered' \subseteq Ids
         /\ PlanFits(plan', done', done' \cup recovered')
         /\ ho' \in Handoffs /\ ho'.st = ho.st /\ ho'.status = "executing" /\ ho'.current = ho.current
         /\ owed' = {}
<1> DEFINE d == done \cup {i}
           s == d \cup recovered
           q == Set(plan, i, "completed")
           p == Promote(q)
           failed == {f \in Ids : p.st[f] = "failed"}
<1>1. /\ PlanFits(plan, done, done \cup recovered) /\ ho \in Handoffs /\ ho.status = "executing"
      /\ i \in Ids /\ plan.st[i] = "in_progress"
      /\ done \subseteq Ids /\ recovered \subseteq Ids
  BY DEF IInv, TypeOK, StepsInv, SavesInv
<1>2. PlanFits(plan, d, s)
  <2> DEFINE st == plan.st
             s1 == done \cup recovered
  <2>1. done \subseteq d /\ s1 \subseteq s
    OBVIOUS
  <2>2. PlanFits(plan, done, s1) /\ st = plan.st
    BY <1>1
  <2> HIDE DEF d, s, st, s1
  <2>3. \A x : PlanFits(x, done, s1) /\ st = x.st => PlanFits(x, d, s)
    BY <2>1, FitsGrows
  <2> QED
    BY <2>2, <2>3
<1>3. PlanFits(q, d, s) /\ WellFormed(q) /\ q.st[i] = "completed"
  <2>1. PlanFits(q, d, s)
    BY <1>1, <1>2, SetFits, KnownStatuses DEF Active
  <2>2. WellFormed(plan)
    BY <1>1 DEF PlanFits
  <2> QED
    BY <1>1, <2>1, <2>2, SetFacts, KnownStatuses
<1> HIDE DEF q
<1>4. PlanFits(p, d, s) /\ p.st[i] = "completed"
  <2>1. PlanFits(p, d, s)
    BY <1>3, PromoteFits
  <2>2. p = q \/ \E k \in DOMAIN q.ids : /\ q.st[q.ids[k]] = "planned"
                                         /\ \A j \in Ids : p.st[j] = IF j = q.ids[k] THEN "ready" ELSE q.st[j]
    BY <1>3, PromoteFacts
  <2> QED
    BY <1>1, <1>3, <2>1, <2>2
<1>5. /\ plan' = IF GateCloses(p, i) THEN Recovered(p) ELSE p
      /\ done' = d
      /\ recovered' = IF GateCloses(p, i) /\ Lane \subseteq d THEN recovered \cup failed ELSE recovered
      /\ owed' = IF i \in Checkpoints THEN {} ELSE owed
  BY DEF Complete, q
<1>6. \E closed : ho' = [WithoutIssue(ho, closed) EXCEPT
                           !.currentStatus = "completed", !.gate = FALSE, !.checkpoint = @ \/ checkpoint]
  <2> DEFINE closed == IF GateCloses(p, i) THEN Ids ELSE {i}
  <2>1. ho' = [WithoutIssue(ho, closed) EXCEPT
                 !.currentStatus = "completed", !.gate = FALSE, !.checkpoint = @ \/ checkpoint]
    BY DEF Complete, q
  <2> HIDE DEF closed
  <2> QED
    BY <2>1
<1> HIDE DEF p
<1>7. ho' \in Handoffs /\ ho'.st = ho.st /\ ho'.status = "executing" /\ ho'.current = ho.current
  <2>1. PICK closed : ho' = [WithoutIssue(ho, closed) EXCEPT
                               !.currentStatus = "completed", !.gate = FALSE, !.checkpoint = @ \/ checkpoint]
    BY <1>6
  <2> DEFINE w == WithoutIssue(ho, closed)
             entered == w.checkpoint \/ checkpoint
  <2>2. w \in Handoffs /\ w.st = ho.st /\ w.status = "executing" /\ w.current = ho.current
    BY <1>1, WithoutIssueFacts
  <2> HIDE DEF w
  <2>3. ho' = [w EXCEPT !.currentStatus = "completed", !.gate = FALSE, !.checkpoint = entered]
    BY <2>1 DEF w
  <2>4. entered \in BOOLEAN
    OBVIOUS
  <2> HIDE DEF entered
  <2> QED
    BY <2>2, <2>3, <2>4, KnownStatuses DEF Handoffs
<1>8. PlanFits(plan', done', done' \cup recovered')
  <2>1. CASE ~GateCloses(p, i)
    BY <2>1, <1>4, <1>5
  <2>2. CASE GateCloses(p, i)
    <3>1. i \in Lane /\ \A r \in Lane : p.st[r] \in {"completed", "absent"}
      BY <2>2 DEF GateCloses
    <3>2. Lane \subseteq d
      <4>1. Fits(p.st, d, s) /\ \A k, r \in Lane : p.st[k] # "absent" /\ p.st[r] = "absent" => r \in d
        BY <1>4 DEF PlanFits
      <4> QED
        BY <1>4, <3>1, <4>1 DEF Fits
    <3>3. recovered' = recovered \cup failed
      BY <2>2, <3>2, <1>5
    <3>4. \A j \in Work : p.st[j] = "failed" => j \in d \cup recovered'
      BY <3>3, Apart
    <3>5. s \subseteq d \cup recovered'
      BY <3>3
    <3>6. PlanFits(Recovered(p), d, d \cup recovered')
      BY <1>4, <3>1, <3>4, <3>5, RecoveredFits
    <3> QED
      BY <2>2, <3>6, <1>5
  <2> QED
    BY <2>1, <2>2
<1>9. owed' = {}
  BY <1>1, <1>5 DEF IInv, StepsInv, Active
<1> QED
  BY <1>1, <1>5, <1>7, <1>8, <1>9

LEMMA Failing ==
  ASSUME IInv, pc = "executing", NEW i, i = ho.current, NEW o \in Outcomes, NEW m, FailStep(i, o, m)
  PROVE  /\ done' = done /\ recovered' = recovered
         /\ PlanFits(plan', done, done \cup recovered)
         /\ ho' \in Handoffs /\ ho'.st = ho.st /\ ho'.status = "executing" /\ ho'.current = ho.current
         /\ ho'.currentStatus # "completed"
         /\ owed' \subseteq Ids \ Checkpoints
         /\ owed' # {} => \A j \in Ids : plan'.st[j] \in Active => j \in Checkpoints
<1> DEFINE s == done \cup recovered
           status == IF m.fails[i] >= MaxRetries /\ o.model = "claude" THEN "failed" ELSE "in_progress"
           q == Set(plan, i, status)
           p == IF Inserts(o) THEN Insert(q, i) ELSE q
           gate == o.error \in LateGates
<1>1. /\ PlanFits(plan, done, s) /\ WellFormed(plan) /\ ho \in Handoffs /\ ho.status = "executing"
      /\ i \in Ids /\ plan.st[i] = "in_progress" /\ owed \subseteq Ids \ Checkpoints
  BY DEF IInv, TypeOK, StepsInv, SavesInv
<1>2. /\ Inserts(o) => NextCheckpoint \in Checkpoints
      /\ plan' = p
      /\ ho' = [ho EXCEPT !.currentStatus = p.st[i], !.issues = @ \cup {i}, !.gate = gate]
      /\ owed' = IF Inserts(o) THEN owed \cup {i} ELSE owed
      /\ done' = done /\ recovered' = recovered
  BY DEF FailStep
<1>3. status \in {"failed", "in_progress"}
  OBVIOUS
<1> HIDE DEF status
<1>4. /\ PlanFits(q, done, s) /\ WellFormed(q)
      /\ \A j \in Ids : q.st[j] = IF j = i THEN status ELSE plan.st[j]
  BY <1>1, <1>3, SetFits, SetFacts, KnownStatuses DEF Active
<1>5. CASE ~Inserts(o)
  <2>1. p = q
    BY <1>5
  <2> HIDE DEF p, q
  <2>2. p.st[i] = status
    BY <1>1, <1>4, <2>1
  <2>3. ho' \in Handoffs /\ ho'.st = ho.st /\ ho'.status = "executing" /\ ho'.current = ho.current
        /\ ho'.currentStatus = status
    <3>1. gate \in BOOLEAN
      OBVIOUS
    <3> HIDE DEF gate
    <3> QED
      BY <1>1, <1>2, <1>3, <2>2, <3>1, KnownStatuses DEF Handoffs
  <2>4. owed # {} => \A j \in Ids : q.st[j] \in Active => j \in Checkpoints
    BY <1>1, <1>4 DEF IInv, StepsInv, Active
  <2> QED
    BY <1>1, <1>2, <1>3, <1>4, <1>5, <2>1, <2>3, <2>4
<1>6. CASE Inserts(o)
  <2> DEFINE n == NextCheckpoint
             b == Set(plan, i, "planned")
  <2>1. n \in Checkpoints /\ plan.st[n] = "absent" /\ \A e \in Checkpoints : e[2] < n[2] => plan.st[e] # "absent"
    BY <1>1, <1>2, <1>6, NextIsNew
  <2>2. i \notin Checkpoints
    BY <1>1, <1>6 DEF Inserts, OpenCheckpoint
  <2>3. /\ PlanFits(b, done, s) /\ WellFormed(b)
        /\ \A j \in Ids : b.st[j] = IF j = i THEN "planned" ELSE plan.st[j]
    BY <1>1, SetFits, SetFacts, KnownStatuses DEF Active
  <2>4. p = PlaceBefore(b, i, n, "ready")
    BY <1>1, <1>6, SetTwice DEF Insert
  <2> HIDE DEF p, q, b, n
  <2>5. n \in Ids /\ n # i /\ b.st[n] = "absent" /\ b.st[i] = "planned"
        /\ \A e \in Checkpoints : e[2] < n[2] => b.st[e] # "absent"
    BY <1>1, <2>1, <2>2, <2>3, Apart
  <2>6. PlanFits(p, done, s)
    BY <1>1, <2>1, <2>3, <2>4, <2>5, PlaceFits, KnownStatuses
  <2>7. \A j \in Ids : p.st[j] = IF j = n THEN "ready" ELSE b.st[j]
    BY <1>1, <2>3, <2>4, <2>5, PlaceFacts, KnownStatuses
  <2>8. p.st[i] = "planned"
    BY <1>1, <2>5, <2>7
  <2>9. ho' \in Handoffs /\ ho'.st = ho.st /\ ho'.status = "executing" /\ ho'.current = ho.current
        /\ ho'.currentStatus = "planned"
    <3>1. gate \in BOOLEAN
      OBVIOUS
    <3> HIDE DEF gate
    <3> QED
      BY <1>1, <1>2, <2>8, <3>1, KnownStatuses DEF Handoffs
  <2>10. ASSUME NEW j \in Ids, p.st[j] \in Active PROVE j \in Checkpoints
    <3>1. CASE j = n
      BY <3>1, <2>1
    <3>2. CASE j # n
      <4>1. j # i /\ plan.st[j] \in Active
        BY <3>2, <2>3, <2>7, <2>10 DEF Active
      <4>2. j # Archive
        BY <1>1, <4>1 DEF PlanFits, Active
      <4>3. i # Archive
        BY <1>1 DEF PlanFits
      <4>4. j \in Work \cup Lane => FALSE
        <5>1. Fits(plan.st, done, s) /\ plan.st[i] \in Active /\ i \in Work \cup Lane
          BY <1>1, <2>2, <4>3, Apart DEF PlanFits, Active
        <5> QED
          BY <4>1, <5>1 DEF Fits
      <4> QED
        BY <4>2, <4>4, Apart
    <3> QED
      BY <3>1, <3>2
  <2> QED
    BY <1>1, <1>2, <1>6, <2>2, <2>6, <2>9, <2>10
<1> QED
  BY <1>5, <1>6

LEMMA Executing ==
  ASSUME IInv, NEW o \in Returned, NEW same \in BOOLEAN, NEW checkpoint \in BOOLEAN,
         Execute(o, same, checkpoint)
  PROVE  IInv'
<1>1. /\ pc = "executing" /\ pc' = "memory" /\ result' = o
      /\ mem' = Remember(mem, ho.current, o, same)
      /\ UNCHANGED <<iter, durable, runs, faults, torn, reopened>>
  BY DEF Execute
<1>2. o \in Outcomes /\ ho \in Handoffs /\ ho.status = "executing" /\ done \subseteq Ids /\ recovered \subseteq Ids
  BY <1>1, RunAssumption DEF IInv, TypeOK, SavesInv
<1>3. CASE o.completed
  <2>1. Complete(ho.current, checkpoint)
    BY <1>3 DEF Execute
  <2>2. o.ok
    BY <1>2, <1>3, OutcomeFacts
  <2>3. /\ done \subseteq done' /\ recovered \subseteq recovered' /\ done' \subseteq Ids /\ recovered' \subseteq Ids
        /\ PlanFits(plan', done', done' \cup recovered')
        /\ ho' \in Handoffs /\ ho'.st = ho.st /\ ho'.status = "executing" /\ ho'.current = ho.current
        /\ owed' = {}
    BY <1>1, <2>1, Completing
  <2> QED
    BY <1>1, <2>2, <2>3, Executed
<1>4. CASE ~o.completed /\ o.ok
  <2>1. ho' = [ho EXCEPT !.gate = FALSE] /\ UNCHANGED <<plan, done, recovered, owed>>
    BY <1>4 DEF Execute
  <2>2. ho' \in Handoffs /\ ho'.st = ho.st /\ ho'.status = "executing" /\ ho'.current = ho.current
    BY <1>2, <2>1 DEF Handoffs
  <2>3. /\ PlanFits(plan, done, done \cup recovered) /\ owed \subseteq Ids \ Checkpoints
        /\ owed # {} => \A j \in Ids : plan.st[j] \in Active => j \in Checkpoints
    BY <1>1 DEF IInv, TypeOK, StepsInv
  <2> QED
    BY <1>1, <1>2, <1>4, <2>1, <2>2, <2>3, Executed
<1>5. CASE ~o.completed /\ ~o.ok
  <2>1. FailStep(ho.current, o, mem')
    BY <1>5 DEF Execute
  <2>2. /\ done' = done /\ recovered' = recovered
        /\ PlanFits(plan', done, done \cup recovered)
        /\ ho' \in Handoffs /\ ho'.st = ho.st /\ ho'.status = "executing" /\ ho'.current = ho.current
        /\ ho'.currentStatus # "completed"
        /\ owed' \subseteq Ids \ Checkpoints
        /\ owed' # {} => \A j \in Ids : plan'.st[j] \in Active => j \in Checkpoints
    BY <1>1, <1>2, <2>1, Failing
  <2> QED
    BY <1>1, <1>2, <2>2, Executed
<1> QED
  BY <1>3, <1>4, <1>5

LEMMA SavingMemory == ASSUME IInv, SaveMemory PROVE IInv'
<1>1. /\ pc = "memory" /\ pc' = "handoff" /\ diskMem' = mem
      /\ UNCHANGED <<plan, ho, mem, iter, result, disk, runs, faults,
                     torn, done, recovered, owed, reopened>>
  BY DEF SaveMemory, process, history
<1>2. TypeOK'
  BY <1>1 DEF IInv, TypeOK
<1>3. StepsInv'
  BY <1>1 DEF IInv, StepsInv
<1>4. SavesInv'
  <2>1. disk.currentStatus = "in_progress"
    BY <1>1 DEF IInv, SavesInv
  <2>2. Evidence(disk, mem)
    BY <2>1 DEF Evidence
  <2> QED
    BY <1>1, <2>2 DEF IInv, SavesInv
<1>5. ClosedMeansDone'
  BY <1>1 DEF IInv, ClosedMeansDone
<1> QED
  BY <1>2, <1>3, <1>4, <1>5 DEF IInv

LEMMA SavingHandoff == ASSUME IInv, SaveHandoff PROVE IInv'
<1>1. /\ pc = "handoff" /\ pc' = "loop" /\ disk' = ho /\ result' = NoResult
      /\ UNCHANGED <<plan, ho, mem, iter, diskMem, runs, faults,
                     torn, done, recovered, owed, reopened>>
  BY DEF SaveHandoff, history
<1>2. TypeOK'
  BY <1>1, NothingYet DEF IInv, TypeOK
<1>3. StepsInv'
  BY <1>1 DEF IInv, StepsInv
<1>4. SavesInv'
  BY <1>1 DEF IInv, SavesInv
<1>5. ClosedMeansDone'
  BY <1>1 DEF IInv, SavesInv, ClosedMeansDone
<1> QED
  BY <1>2, <1>3, <1>4, <1>5 DEF IInv

\* When the process is gone only what is on the disk matters.
LEMMA Forgotten ==
  ASSUME IInv, Forget, UNCHANGED <<runs, done, recovered, reopened>>,
         faults' \in Nat, torn' \in BOOLEAN, disk' \in Handoffs, diskMem' \in Memories,
         Fits(disk'.st, done, done \cup recovered), CompletedWhen(disk'),
         disk'.status = "closed" => Work \subseteq done \cup recovered,
         torn' \/ reopened \/ Evidence(disk', diskMem')
  PROVE  IInv'
<1>1. /\ pc' = "down" /\ plan' = NoPlan /\ ho' = NoHandoff /\ mem' = NoMemory /\ iter' = 0
      /\ result' = NoResult /\ owed' = {}
  BY DEF Forget
<1>2. TypeOK'
  BY <1>1, NothingYet DEF IInv, TypeOK
<1>3. StepsInv'
  BY <1>1, NothingYet DEF StepsInv
<1>4. SavesInv'
  <2>1. CompletedWhen(NoHandoff) /\ Evidence(NoHandoff, NoMemory)
    BY NothingYet DEF CompletedWhen, Evidence
  <2> QED
    BY <1>1, <2>1 DEF SavesInv
<1>5. ClosedMeansDone'
  BY DEF ClosedMeansDone
<1> QED
  BY <1>2, <1>3, <1>4, <1>5 DEF IInv

LEMMA Suspending == ASSUME IInv, Suspend PROVE IInv'
<1> DEFINE h == [ho EXCEPT !.status = "waiting"]
<1>1. /\ pc = "handoff" /\ result.error \in Waits /\ disk' = h /\ Forget
      /\ UNCHANGED <<diskMem, runs, faults, torn, done, recovered, reopened>>
  BY DEF Suspend
<1>2. /\ ho \in Handoffs /\ ho.currentStatus # "completed" /\ Fits(ho.st, done, done \cup recovered)
      /\ faults \in Nat /\ torn \in BOOLEAN /\ diskMem \in Memories
  BY <1>1 DEF IInv, TypeOK, StepsInv, SavesInv
<1>3. h \in Handoffs /\ h.status = "waiting" /\ h.currentStatus = ho.currentStatus /\ h.st = ho.st
  BY <1>2 DEF Handoffs
<1> HIDE DEF h
<1>4. CompletedWhen(h) /\ Evidence(h, diskMem)
  BY <1>2, <1>3 DEF CompletedWhen, Evidence
<1> QED
  BY <1>1, <1>2, <1>3, <1>4, Forgotten

LEMMA Finishing == ASSUME IInv, Finish PROVE IInv'
<1> DEFINE s == done \cup recovered
           success == AllCompleted(plan)
           finished == iter < MaxSteps
           h == Closed(ho, plan, success, finished)
<1>1. /\ pc = "loop" /\ disk' = h /\ diskMem' = mem /\ Forget
      /\ UNCHANGED <<runs, faults, torn, done, recovered, reopened>>
  BY DEF Finish
<1>2. /\ ho \in Handoffs /\ PlanFits(plan, done, s) /\ WellFormed(plan) /\ mem \in Memories
      /\ faults \in Nat /\ torn \in BOOLEAN
  BY <1>1 DEF IInv, TypeOK, StepsInv
<1>3. plan.st \in [Ids -> Statuses] /\ Fits(plan.st, done, s)
  BY <1>2, PlanFacts DEF PlanFits
<1>4. success \in BOOLEAN /\ finished \in BOOLEAN
  BY DEF AllCompleted
<1>5. success => Work \subseteq s
  <2> SUFFICES ASSUME success, NEW i \in Work PROVE i \in s
    OBVIOUS
  <2>1. CASE plan.st[i] = "absent"
    BY <2>1, <1>2 DEF PlanFits
  <2>2. CASE plan.st[i] # "absent"
    <3>1. PICK k \in DOMAIN plan.ids : plan.ids[k] = i
      BY <2>2, <1>2, PlanFacts, Apart
    <3>2. k \notin Positions(plan, Statuses \ {"completed"})
      BY DEF AllCompleted, Some
    <3>3. plan.st[i] \in Statuses
      BY <1>3, Apart
    <3>4. plan.st[i] = "completed"
      BY <3>1, <3>2, <3>3 DEF Positions
    <3> QED
      BY <1>3, <3>4 DEF Fits
  <2> QED
    BY <2>1, <2>2
<1> HIDE DEF success, finished
<1>6. /\ h \in Handoffs /\ h.st = plan.st /\ CompletedWhen(h)
      /\ h.status = IF success THEN "closed" ELSE "exception"
  BY <1>2, <1>3, <1>4, ClosedFacts
<1> HIDE DEF h
<1>7. Evidence(h, mem)
  BY <1>6 DEF Evidence
<1> QED
  BY <1>1, <1>2, <1>3, <1>5, <1>6, <1>7, Forgotten

LEMMA Crashing == ASSUME IInv, Crash PROVE IInv'
<1>1. /\ Forget /\ faults' = faults + 1
      /\ UNCHANGED <<diskMem, runs, torn, done, recovered, reopened>>
      /\ disk' = disk \/ (pc = "handoff" /\ disk' = ho)
  BY DEF Crash
<1>2. /\ faults' \in Nat /\ torn' \in BOOLEAN /\ diskMem' \in Memories
  BY <1>1 DEF IInv, TypeOK
<1>3. CASE disk' = disk
  <2>1. /\ disk \in Handoffs /\ Fits(disk.st, done, done \cup recovered) /\ CompletedWhen(disk)
        /\ disk.status = "closed" => Work \subseteq done \cup recovered
        /\ torn \/ reopened \/ Evidence(disk, diskMem)
    BY DEF IInv, TypeOK, StepsInv, SavesInv, ClosedMeansDone
  <2> QED
    BY <1>1, <1>2, <1>3, <2>1, Forgotten
<1>4. CASE pc = "handoff" /\ disk' = ho
  <2>1. /\ ho \in Handoffs /\ Fits(ho.st, done, done \cup recovered) /\ CompletedWhen(ho)
        /\ ho.status = "executing" /\ mem = diskMem
        /\ torn \/ reopened \/ Evidence(ho, mem)
    BY <1>4 DEF IInv, TypeOK, StepsInv, SavesInv
  <2> QED
    BY <1>1, <1>2, <1>4, <2>1, Forgotten
<1> QED
  BY <1>1, <1>3, <1>4

LEMMA Tearing == ASSUME IInv, Tear PROVE IInv'
<1>1. /\ Forget /\ faults' = faults + 1 /\ torn' = TRUE
      /\ UNCHANGED <<runs, done, recovered, reopened>>
      /\ (disk' = disk /\ diskMem' = NoMemory) \/ (disk' = NoHandoff /\ diskMem' = diskMem)
  BY DEF Tear
<1>2. /\ faults' \in Nat /\ disk \in Handoffs /\ diskMem \in Memories
      /\ Fits(disk.st, done, done \cup recovered) /\ CompletedWhen(disk)
      /\ disk.status = "closed" => Work \subseteq done \cup recovered
  BY <1>1 DEF IInv, TypeOK, StepsInv, SavesInv, ClosedMeansDone
<1>3. CompletedWhen(NoHandoff) /\ NoHandoff.status # "closed"
  BY NothingYet DEF CompletedWhen
<1> QED
  BY <1>1, <1>2, <1>3, NothingYet, Forgotten

LEMMA Starts == ASSUME Init PROVE IInv
<1> USE DEF Init
<1>1. TypeOK
  BY NothingYet DEF TypeOK
<1>2. StepsInv
  BY NothingYet DEF StepsInv
<1>3. SavesInv
  BY NothingYet DEF SavesInv, CompletedWhen, Evidence
<1>4. ClosedMeansDone
  BY NothingYet DEF ClosedMeansDone
<1> QED
  BY <1>1, <1>2, <1>3, <1>4 DEF IInv

-----------------------------------------------------------------------------
(* The theorems.                                                           *)

\* What is on the disk, in the process and between the two stays consistent
\* through every run, suspension, answer, crash and torn file.
THEOREM Invariance == Spec => []IInv
<1>1. Init => IInv
  BY Starts
<1>2. ASSUME IInv, [Next]_vars PROVE IInv'
  <2>1. CASE Begin
    BY <2>1, <1>2, Beginning
  <2>2. CASE Reject
    BY <2>2, <1>2, Rejecting
  <2>3. CASE Clarify
    BY <2>3, <1>2, Clarifying
  <2>4. CASE Answer
    BY <2>4, <1>2, Answering
  <2>5. CASE StartStep
    BY <2>5, <1>2, Starting
  <2>6. CASE AbortStep
    BY <2>6, <1>2, Aborting
  <2>7. CASE SaveMemory
    BY <2>7, <1>2, SavingMemory
  <2>8. CASE SaveHandoff
    BY <2>8, <1>2, SavingHandoff
  <2>9. CASE Suspend
    BY <2>9, <1>2, Suspending
  <2>10. CASE Finish
    BY <2>10, <1>2, Finishing
  <2>11. CASE \E o \in Returned, same, checkpoint \in BOOLEAN : Execute(o, same, checkpoint)
    BY <2>11, <1>2, Executing
  <2>12. CASE Crash
    BY <2>12, <1>2, Crashing
  <2>13. CASE Tear
    BY <2>13, <1>2, Tearing
  <2>14. CASE UNCHANGED vars
    <3>1. UNCHANGED <<pc, plan, ho, mem, iter, disk, diskMem, result, runs, faults,
                      torn, done, recovered, owed, reopened>>
      BY <2>14 DEF vars, process, durable, history
    <3> QED
      BY <1>2, <3>1 DEF IInv, TypeOK, StepsInv, SavesInv, ClosedMeansDone
  <2> QED
    BY <1>2, <2>1, <2>2, <2>3, <2>4, <2>5, <2>6, <2>7, <2>8, <2>9, <2>10, <2>11, <2>12, <2>13, <2>14
       DEF Next
<1> QED
  BY <1>1, <1>2, PTL DEF Spec

\* Handoff, memory and plan keep their form; no plan names a step twice.
THEOREM TypeCorrect == Spec => []TypeOK
<1>1. IInv => TypeOK
  BY DEF IInv
<1> QED
  BY <1>1, Invariance, PTL

\* A closed task is a done one: each of its work packages was completed by an
\* outcome of some run, or had failed and was closed behind a lane each of
\* whose steps some run had completed.
THEOREM ClosedOnlyWhenDone == Spec => []ClosedMeansDone
<1>1. IInv => ClosedMeansDone
  BY DEF IInv
<1> QED
  BY <1>1, Invariance, PTL

\* No work package is executed while one in front of it is open, and none
\* whose completion gate has put a checkpoint step in front of it before that
\* step is completed.
THEOREM OrderAlwaysKept == Spec => []OrderKept
<1>1. ASSUME IInv PROVE OrderKept
  <2> SUFFICES ASSUME pc = "executing"
               PROVE  /\ \A i, j \in Work : j = ho.current /\ i[2] < j[2] =>
                           i \in done \cup recovered \/ plan.st[i] = "failed"
                      /\ ho.current \notin owed
    BY DEF OrderKept
  <2>1. /\ Fits(plan.st, done, done \cup recovered)
        /\ plan.st[ho.current] = "in_progress" /\ ho.current \in Ids
        /\ owed \cap Checkpoints = {}
        /\ owed # {} => \A i \in Ids : plan.st[i] \in Active => i \in Checkpoints
    BY <1>1 DEF IInv, StepsInv, PlanFits
  <2>2. \A i, j \in Work : j = ho.current /\ i[2] < j[2] =>
          i \in done \cup recovered \/ plan.st[i] = "failed"
    BY <2>1 DEF Fits, Active
  <2>3. ho.current \notin owed
    BY <2>1 DEF Active
  <2> QED
    BY <2>2, <2>3
<1> QED
  BY <1>1, Invariance, PTL

\* The handoff on the disk never says that a step is completed of which the
\* memory on the disk has no success, whatever is lost in a crash, as long as no
\* file is torn and no closed task is reopened by an answer.
THEOREM HandoffNeverAhead == Spec => []HandoffBehindMemory
<1>1. IInv => HandoffBehindMemory
  BY DEF IInv, SavesInv, Evidence, HandoffBehindMemory
<1> QED
  BY <1>1, Invariance, PTL

=============================================================================
