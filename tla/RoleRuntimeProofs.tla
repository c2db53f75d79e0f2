------------------------ MODULE RoleRuntimeProofs ------------------------
(***************************************************************************)
(* The two files of the role tree agree after every command that is not    *)
(* cut off; queues are the history of what was sent, however the nodes are *)
(* made anew; and a node beyond its tolerance does no work.                *)
(***************************************************************************)
EXTENDS RoleRuntime, SequenceTheorems, WellFoundedInduction, TLAPS

(* The two files.                                                          *)
\* A change of the tree that is completed leaves its baseline in both files.
LEMMA PersistAgrees ==
  ASSUME NEW b, Persist(b)
  PROVE  (faults' = faults /\ prefs' = handoff'.base) \/ faults' = faults + 1
BY DEF Persist, CrashOr, Put

\* Synchronised with the preferences, the handoff holds their baseline.
LEMMA SyncedAgrees ==
  ASSUME prefs = handoff.base
  PROVE  Synced.base = prefs
BY DEF Synced, Put

LEMMA MovedKeepsBase ==
  ASSUME NEW h, NEW n, NEW node, NEW state
  PROVE  WithNode(h, n, node).base = h.base /\ Moved(h, n, state).base = h.base
BY DEF WithNode, Moved

LEMMA SaveAgrees ==
  ASSUME NEW h, Save(h)
  PROVE  (faults' = faults /\ prefs' = handoff'.base) \/ faults' = faults + 1
BY DEF Save, CrashOr

Agreement == faults \in Nat /\ StoresAgree

\* One step of the commands keeps the agreement.
LEMMA AgreementStep ==
  ASSUME Agreement, [Next]_vars
  PROVE  Agreement'
<1> USE DEF Agreement, StoresAgree
<1>1. SUFFICES \/ faults' = faults + 1
               \/ faults' = faults /\ prefs' = handoff'.base
               \/ faults' = faults /\ (prefs = handoff.base => prefs' = handoff'.base)
  OBVIOUS
<1>2. CASE UNCHANGED vars
  BY <1>2 DEF vars
<1>3. ASSUME NEW over, NEW proposal, Approve(over, proposal)
      PROVE  (faults' = faults /\ prefs' = handoff'.base) \/ faults' = faults + 1
  BY <1>3, PersistAgrees DEF Approve
<1>4. ASSUME NEW n, NEW parent, AddChild(n, parent)
      PROVE  (faults' = faults /\ prefs' = handoff'.base) \/ faults' = faults + 1
  BY <1>4, PersistAgrees DEF AddChild
<1>5. ASSUME NEW n, Assign(n) \/ Tolerance(n)
      PROVE  (faults' = faults /\ prefs' = handoff'.base) \/ faults' = faults + 1
  BY <1>5, PersistAgrees DEF Assign, Tolerance
<1>6. ASSUME NEW n, NEW reparent, RemoveNode(n, reparent)
      PROVE  (faults' = faults /\ prefs' = handoff'.base) \/ faults' = faults + 1
  BY <1>6, PersistAgrees DEF RemoveNode
<1>7. ASSUME NEW n, Tick(n)
      PROVE  (faults' = faults /\ prefs' = handoff'.base) \/ faults' = faults + 1
  BY <1>7, SaveAgrees DEF Tick
<1>8. ASSUME NEW limit, TickAll(limit)
      PROVE  (faults' = faults /\ prefs' = handoff'.base) \/ faults' = faults + 1
  BY <1>8, SaveAgrees DEF TickAll
<1>9. ASSUME NEW b, ChangeBrief(b)
      PROVE  \/ faults' = faults + 1
             \/ faults' = faults /\ (prefs = handoff.base => prefs' = handoff'.base)
  BY <1>9 DEF ChangeBrief, CrashOr, Put
<1>10. ASSUME Sync
       PROVE  faults' = faults /\ (prefs = handoff.base => prefs' = handoff'.base)
  BY <1>10, SyncedAgrees DEF Sync
<1>11. ASSUME NEW source, NEW target, Send(source, target)
       PROVE  faults' = faults /\ (prefs = handoff.base => prefs' = handoff'.base)
  <2>1. PICK node : handoff' = WithNode(Synced, target, node)
    BY <1>11 DEF Send
  <2>2. faults' = faults /\ prefs' = prefs
    BY <1>11 DEF Send
  <2> QED
    BY <2>1, <2>2, SyncedAgrees, MovedKeepsBase
<1>12. ASSUME NEW n, NEW given, Wait(n, given)
       PROVE  faults' = faults /\ (prefs = handoff.base => prefs' = handoff'.base)
  <2>1. PICK node : handoff' = WithNode(Synced, n, node)
    BY <1>12 DEF Wait
  <2>2. faults' = faults /\ prefs' = prefs
    BY <1>12 DEF Wait
  <2> QED
    BY <2>1, <2>2, SyncedAgrees, MovedKeepsBase
<1>13. ASSUME NEW n, NEW trigger, Wake(n, trigger)
       PROVE  faults' = faults /\ (prefs = handoff.base => prefs' = handoff'.base)
  <2>1. handoff' = Moved(Synced, n, "ready")
    BY <1>13 DEF Wake
  <2>2. faults' = faults /\ prefs' = prefs
    BY <1>13 DEF Wake
  <2> QED
    BY <2>1, <2>2, SyncedAgrees, MovedKeepsBase
<1> QED
  BY <1>2, <1>3, <1>4, <1>5, <1>6, <1>7, <1>8, <1>9, <1>10, <1>11, <1>12, <1>13 DEF Next

\* StoresAgree, for every tree, every number of messages and every bound: unless a
\* command was cut off between its two writes, the preferences and the handoff hold
\* the same baseline.
THEOREM StoresAlwaysAgree == Spec => []StoresAgree
<1>1. Init => Agreement
  BY DEF Init, Agreement, StoresAgree, NoHandoff
<1>2. Agreement /\ [Next]_vars => Agreement'
  BY AgreementStep
<1>3. Agreement => StoresAgree
  BY DEF Agreement
<1> QED
  BY <1>1, <1>2, <1>3, PTL DEF Spec

-----------------------------------------------------------------------------
(* Queues.                                                                 *)
LEMMA EmptyQueue ==
  ASSUME NEW S
  PROVE  << >> \in Seq(S) /\ ToSet(<< >>) = {} /\ InOrder(<< >>) /\ << >> \o << >> = << >>
<1>1. << >> \in Seq(S) /\ Len(<< >>) = 0 /\ DOMAIN << >> = 1..0
  BY EmptySeq, LenProperties
<1>2. ToSet(<< >>) = {} /\ InOrder(<< >>)
  BY <1>1 DEF ToSet, InOrder
<1> QED
  BY <1>1, <1>2, ConcatEmptySeq

LEMMA QueueTypes ==
  ASSUME NEW node \in Nodes
  PROVE  Queue(node) \in Seq(Nat) /\ ToSet(Queue(node)) \subseteq Nat
<1>1. node.read \in Seq(Nat) /\ node.inbox \in Seq(Nat)
  BY DEF Nodes
<1>2. Queue(node) \in Seq(Nat)
  BY <1>1, ConcatProperties DEF Queue
<1> QED
  BY <1>2, ElementOfSeq, LenProperties DEF ToSet

\* Reading the first message moves it from the inbox to what was read.
LEMMA ReadFirst ==
  ASSUME NEW read \in Seq(Nat), NEW inbox \in Seq(Nat), inbox # << >>
  PROVE  /\ Tail(inbox) \in Seq(Nat) /\ Append(read, Head(inbox)) \in Seq(Nat)
         /\ Append(read, Head(inbox)) \o Tail(inbox) = read \o inbox
<1>1. Head(inbox) \in Nat /\ Tail(inbox) \in Seq(Nat)
  BY HeadTailProperties
<1>2. inbox = << Head(inbox) >> \o Tail(inbox)
  BY HeadTailProperties
<1>3. Append(read, Head(inbox)) = read \o << Head(inbox) >> /\ << Head(inbox) >> \in Seq(Nat)
  BY <1>1, AppendIsConcat
<1>4. (read \o << Head(inbox) >>) \o Tail(inbox) = read \o (<< Head(inbox) >> \o Tail(inbox))
  BY <1>1, <1>3, ConcatAssociative
<1> QED
  BY <1>1, <1>2, <1>3, <1>4, AppendProperties

\* A message that is numbered after all others is put behind them.
LEMMA NewMessage ==
  ASSUME NEW read \in Seq(Nat), NEW inbox \in Seq(Nat), NEW k \in Nat,
         InOrder(read \o inbox), \A m \in ToSet(read \o inbox) : m <= k
  PROVE  /\ Append(inbox, k + 1) \in Seq(Nat)
         /\ ToSet(read \o Append(inbox, k + 1)) = ToSet(read \o inbox) \cup {k + 1}
         /\ InOrder(read \o Append(inbox, k + 1))
<1> DEFINE q == read \o inbox
           p == read \o Append(inbox, k + 1)
<1>1. q \in Seq(Nat) /\ DOMAIN q = 1..Len(q) /\ Len(q) \in Nat
  BY ConcatProperties, LenProperties
<1>2. p = Append(q, k + 1)
  <2>1. k + 1 \in Nat /\ << k + 1 >> \in Seq(Nat)
    OBVIOUS
  <2>2. \A s \in Seq(Nat), e \in Nat : Append(s, e) = s \o << e >>
    BY AppendIsConcat
  <2>3. Append(inbox, k + 1) = inbox \o << k + 1 >> /\ Append(q, k + 1) = q \o << k + 1 >>
    BY <1>1, <2>1, <2>2
  <2> QED
    BY <2>1, <2>3, ConcatAssociative
<1>3. /\ p \in Seq(Nat) /\ Len(p) = Len(q) + 1 /\ DOMAIN p = 1..(Len(q) + 1)
      /\ p[Len(q) + 1] = k + 1 /\ \A i \in 1..Len(q) : p[i] = q[i]
  BY <1>1, <1>2, AppendProperties, LenProperties
<1>4. \A i \in 1..Len(q) : q[i] \in Nat /\ q[i] <= k
  BY <1>1, ElementOfSeq DEF ToSet
<1>5. \A i, j \in 1..Len(q) : i < j => q[i] < q[j]
  BY <1>1 DEF InOrder
<1>6. Append(inbox, k + 1) \in Seq(Nat)
  BY AppendProperties
<1> HIDE DEF p, q
<1>7. InOrder(p)
  <2>1. SUFFICES ASSUME NEW i \in 1..(Len(q) + 1), NEW j \in 1..(Len(q) + 1), i < j
                 PROVE  p[i] < p[j]
    BY <1>3 DEF InOrder
  <2>2. i \in 1..Len(q) /\ p[i] = q[i]
    BY <1>1, <1>3, <2>1
  <2>3. CASE j = Len(q) + 1
    BY <1>3, <1>4, <2>2, <2>3
  <2>4. CASE j \in 1..Len(q)
    BY <1>3, <1>5, <2>1, <2>2, <2>4
  <2> QED
    BY <1>1, <2>3, <2>4
<1>8. ToSet(p) = ToSet(q) \cup {k + 1}
  <2>1. ToSet(p) \subseteq ToSet(q) \cup {k + 1}
    <3>1. SUFFICES ASSUME NEW i \in 1..(Len(q) + 1) PROVE p[i] \in ToSet(q) \cup {k + 1}
      BY <1>3 DEF ToSet
    <3>2. i = Len(q) + 1 \/ i \in 1..Len(q)
      BY <1>1
    <3> QED
      BY <1>1, <1>3, <3>2 DEF ToSet
  <2>2. ToSet(q) \subseteq ToSet(p)
    <3>1. SUFFICES ASSUME NEW i \in 1..Len(q) PROVE q[i] \in ToSet(p)
      BY <1>1 DEF ToSet
    <3>2. i \in DOMAIN p /\ p[i] = q[i]
      BY <1>1, <1>3
    <3> QED
      BY <3>2 DEF ToSet
  <2>3. k + 1 \in ToSet(p)
    <3>1. Len(q) + 1 \in DOMAIN p
      BY <1>1, <1>3
    <3> QED
      BY <1>3, <3>1 DEF ToSet
  <2> QED
    BY <2>1, <2>2, <2>3
<1> QED
  BY <1>6, <1>7, <1>8 DEF p, q

(* The order of a tree.                                                    *)
LEMMA AppendNode ==
  ASSUME NEW S, NEW s \in Seq(S), IsInjective(s), NEW e \in S, e \notin ToSet(s)
  PROVE  /\ Append(s, e) \in Seq(S) /\ IsInjective(Append(s, e))
         /\ ToSet(Append(s, e)) = ToSet(s) \cup {e}
<1> DEFINE p == Append(s, e)
<1>1. Len(s) \in Nat /\ DOMAIN s = 1..Len(s)
  BY LenProperties
<1>2. /\ p \in Seq(S) /\ DOMAIN p = 1..(Len(s) + 1)
      /\ p[Len(s) + 1] = e /\ \A i \in 1..Len(s) : p[i] = s[i]
  BY <1>1, AppendProperties, LenProperties
<1>3. \A i \in 1..Len(s) : s[i] # e
  BY <1>1 DEF ToSet
<1> HIDE DEF p
<1>4. \A i \in 1..(Len(s) + 1) : i = Len(s) + 1 \/ i \in 1..Len(s)
  BY <1>1
<1>5. IsInjective(p)
  BY <1>1, <1>2, <1>3, <1>4 DEF IsInjective
<1>6. ToSet(p) = ToSet(s) \cup {e}
  <2>1. ToSet(p) \subseteq ToSet(s) \cup {e}
    BY <1>1, <1>2, <1>4 DEF ToSet
  <2>2. ToSet(s) \subseteq ToSet(p)
    <3>1. \A i \in 1..Len(s) : i \in DOMAIN p
      BY <1>1, <1>2
    <3> QED
      BY <1>1, <1>2, <3>1 DEF ToSet
  <2>3. Len(s) + 1 \in DOMAIN p
    BY <1>1, <1>2
  <2> QED
    BY <1>2, <2>1, <2>2, <2>3 DEF ToSet
<1> QED
  BY <1>2, <1>5, <1>6 DEF p

LEMMA RemoveNodeAt ==
  ASSUME NEW S, NEW s \in Seq(S), IsInjective(s), NEW k \in DOMAIN s
  PROVE  /\ RemoveAt(s, k) \in Seq(S) /\ IsInjective(RemoveAt(s, k))
         /\ ToSet(RemoveAt(s, k)) = ToSet(s) \ {s[k]}
<1> DEFINE p == RemoveAt(s, k)
           n == Len(s)
           old(i) == IF i < k THEN i ELSE i + 1
           before == SubSeq(s, 1, k - 1)
           after == SubSeq(s, k + 1, n)
<1>1. n \in Nat /\ DOMAIN s = 1..n /\ k \in 1..n /\ \A i \in 1..n : s[i] \in S
  BY LenProperties, ElementOfSeq
<1>2. /\ before \in Seq(S) /\ Len(before) = k - 1
      /\ \A i \in 1..(k - 1) : before[i] = s[i]
  BY <1>1, SubSeqProperties
<1>3. /\ after \in Seq(S) /\ Len(after) = n - k
      /\ \A i \in 1..(n - k) : after[i] = s[k + i]
  BY <1>1, SubSeqProperties
<1>4. /\ p \in Seq(S) /\ Len(p) = n - 1 /\ DOMAIN p = 1..(n - 1)
      /\ \A i \in 1..(n - 1) : p[i] = s[old(i)]
  <2>1. p = before \o after
    BY DEF RemoveAt
  <2> HIDE DEF p, n, before, after
  <2>2. /\ p \in Seq(S) /\ Len(p) = Len(before) + Len(after)
        /\ \A i \in 1..(Len(before) + Len(after)) :
             p[i] = IF i <= Len(before) THEN before[i] ELSE after[i - Len(before)]
    BY <1>2, <1>3, <2>1, ConcatProperties
  <2>3. Len(before) + Len(after) = n - 1
    BY <1>1, <1>2, <1>3
  <2>4. ASSUME NEW i \in 1..(n - 1) PROVE p[i] = s[old(i)]
    <3>1. CASE i < k
      <4>1. i \in 1..(k - 1) /\ i <= Len(before)
        BY <1>1, <1>2, <3>1
      <4> QED
        BY <1>2, <2>2, <2>3, <3>1, <4>1
    <3>2. CASE ~(i < k)
      <4>1. i - (k - 1) \in 1..(n - k) /\ k + (i - (k - 1)) = i + 1 /\ ~(i <= k - 1)
        BY <1>1, <3>2
      <4>2. p[i] = after[i - (k - 1)]
        BY <1>2, <2>2, <2>3, <4>1
      <4>3. after[i - (k - 1)] = s[k + (i - (k - 1))]
        BY <1>3, <4>1
      <4> QED
        BY <3>2, <4>1, <4>2, <4>3
    <3> QED
      BY <3>1, <3>2
  <2> QED
    BY <1>1, <2>2, <2>3, <2>4, LenProperties
<1>5. \A i \in 1..(n - 1) : old(i) \in 1..n /\ old(i) # k
  BY <1>1
<1>6. \A i, j \in 1..(n - 1) : old(i) = old(j) => i = j
  BY <1>1
<1> HIDE DEF p, n
<1>7. IsInjective(p)
  <2>1. SUFFICES ASSUME NEW i \in 1..(n - 1), NEW j \in 1..(n - 1), p[i] = p[j] PROVE i = j
    BY <1>4 DEF IsInjective
  <2>2. s[old(i)] = s[old(j)]
    BY <1>4, <2>1
  <2>3. old(i) = old(j)
    BY <1>1, <1>5, <2>2 DEF IsInjective
  <2> QED
    BY <1>6, <2>3
<1>8. ToSet(p) = ToSet(s) \ {s[k]}
  <2>1. ASSUME NEW i \in 1..(n - 1) PROVE p[i] \in ToSet(s) \ {s[k]}
    <3>1. old(i) \in DOMAIN s /\ old(i) # k /\ p[i] = s[old(i)]
      BY <1>1, <1>4, <1>5
    <3> QED
      BY <1>1, <3>1 DEF ToSet, IsInjective
  <2>2. ASSUME NEW i \in 1..n, s[i] # s[k] PROVE s[i] \in ToSet(p)
    <3>1. i # k
      BY <2>2
    <3>2. CASE i < k
      <4>1. i \in 1..(n - 1) /\ old(i) = i
        BY <1>1, <3>2
      <4> QED
        BY <1>4, <4>1 DEF ToSet
    <3>3. CASE i > k
      <4>1. i - 1 \in 1..(n - 1) /\ old(i - 1) = i
        BY <1>1, <3>3
      <4>2. p[i - 1] = s[i]
        BY <1>4, <4>1
      <4> QED
        BY <1>4, <4>1, <4>2 DEF ToSet
    <3> QED
      BY <1>1, <3>1, <3>2, <3>3
  <2> QED
    BY <1>1, <1>4, <2>1, <2>2 DEF ToSet
<1> QED
  BY <1>4, <1>7, <1>8 DEF p

\* The name a child gets is free.
LEMMA NewIdFree ==
  ASSUME NEW b, NEW n \in Ids, FreeIds(b, n) # {}
  PROVE  NewId(b, n) \in FreeIds(b, n)
<1> DEFINE F == FreeIds(b, n)
           T == {c[2] : c \in F}
<1>1. F \subseteq Roles \X Nat
  BY RoleAssumption DEF FreeIds
<1>2. T \subseteq Nat /\ T # {}
  <2>1. PICK c \in F : TRUE
    OBVIOUS
  <2>2. c[2] \in T
    OBVIOUS
  <2>3. \A d \in F : d[2] \in Nat
    BY <1>1
  <2> QED
    BY <2>2, <2>3
<1>3. PICK x \in T : \A y \in T : <<y, x>> \notin OpToRel(<, Nat)
  <2> HIDE DEF T
  <2> QED
    BY <1>2, NatLessThanWellFounded, WFMin
<1>4. \A y \in T : x <= y
  <2>1. \A y \in T : x \in Nat /\ y \in Nat
    BY <1>2
  <2>2. \A y \in T : ~(y < x)
    BY <1>2, <1>3 DEF OpToRel
  <2> QED
    BY <2>1, <2>2
<1>5. PICK c \in F : x = c[2]
  OBVIOUS
<1>6. \A d \in F : c[2] <= d[2]
  BY <1>4, <1>5
<1> QED
  BY <1>5, <1>6 DEF NewId

-----------------------------------------------------------------------------
(* The baselines.                                                          *)
HandoffGood(h) == BaseOK(h.base) /\ NodesOK(h)

LEMMA FixedFacts ==
  /\ Fixed \in Seq(Ids) /\ IsInjective(Fixed) /\ ToSet(Fixed) \subseteq Ids
  /\ RootId \in ToSet(Fixed)
  /\ \A i \in ToSet(Fixed) : i[2] = 0
  /\ Edges \subseteq ToSet(Fixed) \X ToSet(Fixed)
  /\ NoNode \notin Ids
<1>1. Len(Layout) \in Nat /\ DOMAIN Layout = 1..Len(Layout) /\ Len(Layout) # 0
  BY RoleAssumption, LenProperties, EmptySeq
<1>2. DOMAIN Fixed = 1..Len(Layout) /\ \A i \in 1..Len(Layout) : Fixed[i] = <<Layout[i], 0>>
  BY <1>1 DEF Fixed
<1>3. ToSet(Fixed) \subseteq Ids
  BY RoleAssumption
<1>4. \A i \in 1..Len(Layout) : Fixed[i] \in Ids
  BY <1>2, <1>3 DEF ToSet
<1>5. Fixed \in Seq(Ids)
  <2>1. Fixed \in [1..Len(Layout) -> Ids]
    BY <1>1, <1>4 DEF Fixed
  <2> QED
    BY <1>1, <2>1, SeqDef
<1>6. IsInjective(Fixed)
  BY <1>1, <1>2, RoleAssumption DEF IsInjective
<1>7. RootId \in ToSet(Fixed)
  <2>1. 1 \in DOMAIN Fixed /\ Head(Layout) = Layout[1]
    BY <1>1, <1>2, RoleAssumption, HeadTailProperties
  <2>2. RootId = Fixed[1]
    BY <1>1, <1>2, <2>1 DEF RootId, Root
  <2> QED
    BY <2>1, <2>2 DEF ToSet
<1>8. \A i \in ToSet(Fixed) : i[2] = 0
  BY <1>2 DEF ToSet
<1>9. NoNode \notin Ids
  <2>1. Ids \subseteq Roles \X Nat /\ "none" \notin Roles
    BY RoleAssumption
  <2>2. NoNode[1] = "none" /\ \A i \in Ids : i[1] \in Roles
    BY <2>1 DEF NoNode
  <2> QED
    BY <2>1, <2>2
<1> QED
  BY <1>3, <1>5, <1>6, <1>7, <1>8, <1>9 DEF Edges

LEMMA NoBaselineOK == BaseOK(NoBaseline)
<1>1. << >> \in Seq(Ids) /\ Len(<< >>) = 0 /\ DOMAIN << >> = 1..0
  BY EmptySeq, LenProperties
<1>2. IsInjective(<< >>)
  BY <1>1 DEF IsInjective
<1> QED
  BY <1>1, <1>2 DEF BaseOK, NoBaseline, Baselines, Members

\* The parts of a baseline, one by one.
PartsOK(b) ==
  /\ b.status \in {"missing", "approved", "stale"} /\ b.brief \in {0} \cup Briefs
  /\ b.order \in Seq(Ids) /\ IsInjective(b.order) /\ Members(b) \subseteq Ids
  /\ b.parent \in [Ids -> Ids \cup {NoNode}]
  /\ b.escalation \subseteq Ids /\ b.assigned \subseteq Ids /\ b.over \subseteq Ids
  /\ b.flow \subseteq Edges /\ b.flow \subseteq Members(b) \X Members(b)

LEMMA BaseParts ==
  ASSUME NEW b, BaseOK(b)
  PROVE  PartsOK(b)
<1>1. /\ b.status \in {"missing", "approved", "stale"} /\ b.brief \in {0} \cup Briefs
      /\ b.order \in Seq(Ids) /\ b.parent \in [Ids -> Ids \cup {NoNode}]
      /\ b.escalation \subseteq Ids /\ b.assigned \subseteq Ids /\ b.over \subseteq Ids
      /\ b.flow \subseteq Edges
  BY DEF BaseOK, Baselines
<1>2. Members(b) \subseteq Ids
  BY <1>1, ElementOfSeq, LenProperties DEF Members, ToSet
<1> QED
  BY <1>1, <1>2 DEF BaseOK, PartsOK

\* And the other way round.
LEMMA BaseFrom ==
  ASSUME NEW c, PartsOK(c),
         c = [status |-> c.status, brief |-> c.brief, order |-> c.order, parent |-> c.parent,
              escalation |-> c.escalation, assigned |-> c.assigned, over |-> c.over, flow |-> c.flow]
  PROVE  BaseOK(c)
BY DEF PartsOK, BaseOK, Baselines

LEMMA ApprovedTreeOK ==
  ASSUME NEW brf \in {0} \cup Briefs, NEW over \in SUBSET Ids
  PROVE  BaseOK([status |-> "approved", brief |-> brf, order |-> Fixed,
              parent |-> [n \in Ids |-> IF n \in ToSet(Fixed) \ {RootId} THEN RootId ELSE NoNode],
              escalation |-> {}, assigned |-> {i \in ToSet(Fixed) : i[1] \in Configured},
              over |-> over \cap ToSet(Fixed), flow |-> Edges])
<1> DEFINE parent == [n \in Ids |-> IF n \in ToSet(Fixed) \ {RootId} THEN RootId ELSE NoNode]
           assigned == {i \in ToSet(Fixed) : i[1] \in Configured}
           o == over \cap ToSet(Fixed)
           c == [status |-> "approved", brief |-> brf, order |-> Fixed, parent |-> parent,
                 escalation |-> {}, assigned |-> assigned, over |-> o, flow |-> Edges]
<1>1. parent \in [Ids -> Ids \cup {NoNode}] /\ assigned \subseteq Ids /\ o \subseteq Ids
  BY FixedFacts
<1> HIDE DEF parent, assigned, o
<1>2. /\ c.status = "approved" /\ c.brief = brf /\ c.order = Fixed /\ c.parent = parent
      /\ c.escalation = {} /\ c.assigned = assigned /\ c.over = o /\ c.flow = Edges
  OBVIOUS
<1>3. c = [status |-> c.status, brief |-> c.brief, order |-> c.order, parent |-> c.parent,
           escalation |-> c.escalation, assigned |-> c.assigned, over |-> c.over, flow |-> c.flow]
  OBVIOUS
<1> HIDE DEF c
<1>4. PartsOK(c)
  BY <1>1, <1>2, FixedFacts DEF PartsOK, Members
<1>5. BaseOK(c)
  BY <1>3, <1>4, BaseFrom
<1> QED
  BY <1>5 DEF c, parent, assigned, o

LEMMA RestatedOK ==
  ASSUME NEW b, BaseOK(b), NEW status \in {"missing", "approved", "stale"}
  PROVE  LET c == [b EXCEPT !.status = status] IN BaseOK(c) /\ c.over = b.over /\ Members(c) = Members(b)
<1> DEFINE c == [b EXCEPT !.status = status]
<1>1. b \in Baselines /\ PartsOK(b)
  BY BaseParts DEF BaseOK
<1>2. status \in {"missing", "approved", "stale"}
  OBVIOUS
<1>3. c = [status |-> status, brief |-> b.brief, order |-> b.order, parent |-> b.parent,
           escalation |-> b.escalation, assigned |-> b.assigned, over |-> b.over, flow |-> b.flow]
  BY <1>1 DEF Baselines
<1>4. /\ c.status = status /\ c.brief = b.brief /\ c.order = b.order /\ c.parent = b.parent
      /\ c.escalation = b.escalation /\ c.assigned = b.assigned /\ c.over = b.over /\ c.flow = b.flow
  BY <1>3
<1> HIDE DEF c
<1>5. PartsOK(c)
  BY <1>1, <1>2, <1>4 DEF PartsOK, Members
<1>6. BaseOK(c)
  BY <1>3, <1>4, <1>5, BaseFrom
<1>7. c.over = b.over /\ Members(c) = Members(b)
  BY <1>4 DEF Members
<1> QED
  BY <1>6, <1>7 DEF c

LEMMA ChildAddedOK ==
  ASSUME NEW b, BaseOK(b), NEW n \in Ids, n \notin Members(b), NEW p \in Ids
  PROVE  BaseOK([b EXCEPT !.order = Append(@, n), !.parent[n] = p])
<1> DEFINE order == Append(b.order, n)
           parent == [b.parent EXCEPT ![n] = p]
           c == [b EXCEPT !.order = order,
                          !.parent = parent]
<1>1. b \in Baselines /\ PartsOK(b)
  BY BaseParts DEF BaseOK
<1>2. /\ order \in Seq(Ids) /\ IsInjective(order) /\ ToSet(order) = Members(b) \cup {n}
      /\ parent \in [Ids -> Ids \cup {NoNode}]
  BY <1>1, AppendNode DEF PartsOK, Members
<1> HIDE DEF order, parent
<1>3. c = [status |-> b.status, brief |-> b.brief, order |-> order, parent |-> parent,
           escalation |-> b.escalation, assigned |-> b.assigned, over |-> b.over, flow |-> b.flow]
  <2>1. DOMAIN b = {"status", "brief", "order", "parent", "escalation", "assigned", "over", "flow"}
    BY <1>1 DEF Baselines
  <2>2. c = [f \in DOMAIN b |->
                IF f = "order" THEN order ELSE IF f = "parent" THEN parent ELSE b[f]]
    OBVIOUS
  <2> HIDE DEF c
  <2> QED
    BY <2>1, <2>2
<1>4. /\ c.status = b.status /\ c.brief = b.brief /\ c.order = order /\ c.parent = parent
      /\ c.escalation = b.escalation /\ c.assigned = b.assigned /\ c.over = b.over /\ c.flow = b.flow
  BY <1>3
<1> HIDE DEF c
<1>5. PartsOK(c)
  BY <1>1, <1>2, <1>4 DEF PartsOK, Members
<1>6. BaseOK(c)
  BY <1>3, <1>4, <1>5, BaseFrom
<1> QED
  BY <1>6 DEF c, order, parent

LEMMA AssignedOK ==
  ASSUME NEW b, BaseOK(b), NEW n \in Ids
  PROVE  BaseOK([b EXCEPT !.assigned = @ \cup {n}])
<1> DEFINE assigned == b.assigned \cup {n}
           c == [b EXCEPT !.assigned = assigned]
<1>1. b \in Baselines /\ PartsOK(b)
  BY BaseParts DEF BaseOK
<1>2. assigned \subseteq Ids
  BY <1>1 DEF PartsOK
<1> HIDE DEF assigned
<1>3. c = [status |-> b.status, brief |-> b.brief, order |-> b.order, parent |-> b.parent,
           escalation |-> b.escalation, assigned |-> assigned, over |-> b.over, flow |-> b.flow]
  BY <1>1 DEF Baselines
<1>4. /\ c.status = b.status /\ c.brief = b.brief /\ c.order = b.order /\ c.parent = b.parent
      /\ c.escalation = b.escalation /\ c.assigned = assigned /\ c.over = b.over /\ c.flow = b.flow
  BY <1>3
<1> HIDE DEF c
<1>5. PartsOK(c)
  BY <1>1, <1>2, <1>4 DEF PartsOK, Members
<1>6. BaseOK(c)
  BY <1>3, <1>4, <1>5, BaseFrom
<1> QED
  BY <1>6 DEF c, assigned

LEMMA ToleratedOK ==
  ASSUME NEW b, BaseOK(b), NEW n \in Ids
  PROVE  BaseOK([b EXCEPT !.over = IF n \in @ THEN @ \ {n} ELSE @ \cup {n}])
<1> DEFINE over == IF n \in b.over THEN b.over \ {n} ELSE b.over \cup {n}
           c == [b EXCEPT !.over = over]
<1>1. b \in Baselines /\ PartsOK(b)
  BY BaseParts DEF BaseOK
<1>2. over \subseteq Ids
  BY <1>1 DEF PartsOK
<1> HIDE DEF over
<1>3. c = [status |-> b.status, brief |-> b.brief, order |-> b.order, parent |-> b.parent,
           escalation |-> b.escalation, assigned |-> b.assigned, over |-> over, flow |-> b.flow]
  BY <1>1 DEF Baselines
<1>4. /\ c.status = b.status /\ c.brief = b.brief /\ c.order = b.order /\ c.parent = b.parent
      /\ c.escalation = b.escalation /\ c.assigned = b.assigned /\ c.over = over /\ c.flow = b.flow
  BY <1>3
<1> HIDE DEF c
<1>5. PartsOK(c)
  BY <1>1, <1>2, <1>4 DEF PartsOK, Members
<1>6. BaseOK(c)
  BY <1>3, <1>4, <1>5, BaseFrom
<1> QED
  BY <1>6 DEF c, over

LEMMA NodeRemovedOK ==
  ASSUME NEW b, BaseOK(b), NEW n \in Members(b), NEW reparent \in BOOLEAN
  PROVE  BaseOK(Without(b, n, reparent))
<1> DEFINE place == CHOOSE i \in DOMAIN b.order : b.order[i] = n
           order == RemoveAt(b.order, place)
           parent == [i \in Ids |-> IF i = n THEN NoNode
                      ELSE IF reparent /\ b.parent[i] = n THEN b.parent[n] ELSE b.parent[i]]
           escalation == b.escalation \ {n}
           assigned == b.assigned \ {n}
           over == b.over \ {n}
           flow == {e \in b.flow : n \notin {e[1], e[2]}}
           c == [b EXCEPT !.order = order,
                          !.parent = parent,
                          !.escalation = escalation,
                          !.assigned = assigned,
                          !.over = over,
                          !.flow = flow]
<1>1. b \in Baselines /\ PartsOK(b)
  BY BaseParts DEF BaseOK
<1>2. /\ order \in Seq(Ids) /\ IsInjective(order) /\ ToSet(order) = Members(b) \ {n}
      /\ parent \in [Ids -> Ids \cup {NoNode}]
      /\ escalation \subseteq Ids /\ assigned \subseteq Ids /\ over \subseteq Ids
      /\ flow \subseteq Edges /\ flow \subseteq (Members(b) \ {n}) \X (Members(b) \ {n})
  <2>1. place \in DOMAIN b.order /\ b.order[place] = n
    BY DEF Members, ToSet
  <2>2. order \in Seq(Ids) /\ IsInjective(order) /\ ToSet(order) = Members(b) \ {n}
    <3> HIDE DEF place
    <3> QED
      BY <1>1, <2>1, RemoveNodeAt DEF PartsOK, Members
  <2>3. parent \in [Ids -> Ids \cup {NoNode}]
    BY <1>1 DEF PartsOK
  <2>4. flow \subseteq (Members(b) \ {n}) \X (Members(b) \ {n})
    <3>1. \A e \in b.flow : e[1] \in Members(b) /\ e[2] \in Members(b) /\ e = <<e[1], e[2]>>
      BY <1>1 DEF PartsOK
    <3> QED
      BY <3>1
  <2> QED
    BY <1>1, <2>2, <2>3, <2>4 DEF PartsOK
<1> HIDE DEF place, order, parent, escalation, assigned, over, flow
<1>3. c = [status |-> b.status, brief |-> b.brief, order |-> order, parent |-> parent,
           escalation |-> escalation, assigned |-> assigned, over |-> over, flow |-> flow]
  <2>1. DOMAIN b = {"status", "brief", "order", "parent", "escalation", "assigned", "over", "flow"}
    BY <1>1 DEF Baselines
  <2>2. c = [f \in DOMAIN b |->
                IF f = "order" THEN order ELSE IF f = "parent" THEN parent
                ELSE IF f = "escalation" THEN escalation
                ELSE IF f = "assigned" THEN assigned ELSE IF f = "over" THEN over
                ELSE IF f = "flow" THEN flow ELSE b[f]]
    OBVIOUS
  <2> HIDE DEF c
  <2> QED
    BY <2>1, <2>2
<1>4. /\ c.status = b.status /\ c.brief = b.brief /\ c.order = order /\ c.parent = parent
      /\ c.escalation = escalation /\ c.assigned = assigned /\ c.over = over /\ c.flow = flow
  BY <1>3
<1> HIDE DEF c
<1>5. PartsOK(c)
  BY <1>1, <1>2, <1>4 DEF PartsOK, Members
<1>6. BaseOK(c)
  BY <1>3, <1>4, <1>5, BaseFrom
<1> QED
  BY <1>6 DEF Without, c, place, order, parent, escalation, assigned, over, flow

\* The tree with the child an escalation spawns.
LEMMA SpawnedBaseOK ==
  ASSUME NEW b, BaseOK(b), NEW n \in Members(b), NEW child \in Ids, child \notin Members(b)
  PROVE  /\ BaseOK(WithLane(b, n, child)) /\ WithLane(b, n, child).over = b.over
         /\ Members(WithLane(b, n, child)) = Members(b) \cup {child}
<1> DEFINE order == Append(b.order, child)
           parent == [b.parent EXCEPT ![child] = n]
           escalation == b.escalation \cup {child}
           assigned == b.assigned \cup (IF n \in b.assigned THEN {child} ELSE {})
           c == [b EXCEPT !.order = order,
                          !.parent = parent,
                          !.escalation = escalation,
                          !.assigned = assigned,
                          !.status = "approved"]
<1>1. b \in Baselines /\ PartsOK(b)
  BY BaseParts DEF BaseOK
<1>2. /\ order \in Seq(Ids) /\ IsInjective(order) /\ ToSet(order) = Members(b) \cup {child}
      /\ parent \in [Ids -> Ids \cup {NoNode}]
      /\ escalation \subseteq Ids /\ assigned \subseteq Ids
  BY <1>1, AppendNode DEF PartsOK, Members
<1> HIDE DEF order, parent, escalation, assigned
<1>3. c = [status |-> "approved", brief |-> b.brief, order |-> order, parent |-> parent,
           escalation |-> escalation, assigned |-> assigned, over |-> b.over, flow |-> b.flow]
  <2>1. DOMAIN b = {"status", "brief", "order", "parent", "escalation", "assigned", "over", "flow"}
    BY <1>1 DEF Baselines
  <2>2. c = [f \in DOMAIN b |->
                IF f = "order" THEN order ELSE IF f = "parent" THEN parent
                ELSE IF f = "escalation" THEN escalation
                ELSE IF f = "assigned" THEN assigned ELSE IF f = "status" THEN "approved"
                ELSE b[f]]
    OBVIOUS
  <2> HIDE DEF c
  <2> QED
    BY <2>1, <2>2
<1>4. /\ c.status = "approved" /\ c.brief = b.brief /\ c.order = order /\ c.parent = parent
      /\ c.escalation = escalation /\ c.assigned = assigned /\ c.over = b.over /\ c.flow = b.flow
  BY <1>3
<1> HIDE DEF c
<1>5. PartsOK(c)
  BY <1>1, <1>2, <1>4 DEF PartsOK, Members
<1>6. BaseOK(c)
  BY <1>3, <1>4, <1>5, BaseFrom
<1>7. c.over = b.over /\ Members(c) = Members(b) \cup {child}
  BY <1>2, <1>4 DEF Members
<1> QED
  BY <1>6, <1>7 DEF WithLane, c, order, parent, escalation, assigned

-----------------------------------------------------------------------------
(* The nodes.                                                              *)
States == {"idle", "ready", "running", "waiting", "escalated", "completed"}
Waits == {"none", "waiting_for_trigger", "message_received"}

LEMMA NodeParts ==
  ASSUME NEW node \in Nodes
  PROVE  /\ node.state \in States /\ node.wait \in Waits /\ node.triggers \subseteq Triggers
         /\ node.inbox \in Seq(Nat) /\ node.read \in Seq(Nat)
BY DEF Nodes, States, Waits

LEMMA NodeTriggers ==
  ASSUME NEW node \in Nodes, NEW t \in SUBSET Triggers
  PROVE  LET u == [node EXCEPT !.triggers = t]
         IN  u \in Nodes /\ u.state = node.state /\ Queue(u) = Queue(node) /\ u.read = node.read
BY DEF Nodes, Queue

LEMMA NodeMoved ==
  ASSUME NEW node \in Nodes, NEW s \in States
  PROVE  LET u == [node EXCEPT !.state = s, !.wait = "none"]
         IN  /\ u \in Nodes /\ u.state = s /\ Queue(u) = Queue(node)
             /\ u.read = node.read /\ u.inbox = node.inbox
<1> DEFINE u == [node EXCEPT !.state = s, !.wait = "none"]
<1>1. DOMAIN node = {"state", "wait", "triggers", "inbox", "read"}
  BY DEF Nodes
<1>2. /\ u.state = s /\ u.wait = "none" /\ u.triggers = node.triggers
      /\ u.inbox = node.inbox /\ u.read = node.read
  BY <1>1
<1>3. u = [state |-> s, wait |-> "none", triggers |-> node.triggers,
           inbox |-> node.inbox, read |-> node.read]
  <2>1. DOMAIN u = {"state", "wait", "triggers", "inbox", "read"}
    BY <1>1
  <2>2. u = [f \in DOMAIN node |-> IF f = "state" THEN s ELSE IF f = "wait" THEN "none" ELSE node[f]]
    OBVIOUS
  <2> HIDE DEF u
  <2> QED
    BY <1>1, <2>2
<1> HIDE DEF u
<1>4. u \in Nodes
  BY <1>3, NodeParts DEF Nodes, States
<1> QED
  BY <1>2, <1>4 DEF u, Queue

LEMMA NodeReads ==
  ASSUME NEW node \in Nodes, node.inbox # << >>
  PROVE  LET u == [node EXCEPT !.state = "running", !.wait = "none", !.inbox = Tail(@),
                               !.read = Append(@, Head(node.inbox))]
         IN  u \in Nodes /\ u.state = "running" /\ Queue(u) = Queue(node)
<1> DEFINE inbox == Tail(node.inbox)
           read == Append(node.read, Head(node.inbox))
           u == [node EXCEPT !.state = "running", !.wait = "none", !.inbox = inbox, !.read = read]
<1>1. DOMAIN node = {"state", "wait", "triggers", "inbox", "read"}
  BY DEF Nodes
<1>2. inbox \in Seq(Nat) /\ read \in Seq(Nat) /\ read \o inbox = node.read \o node.inbox
  BY NodeParts, ReadFirst
<1> HIDE DEF inbox, read
<1>3. u = [state |-> "running", wait |-> "none", triggers |-> node.triggers,
           inbox |-> inbox, read |-> read]
  <2>1. u = [f \in DOMAIN node |->
               IF f = "state" THEN "running" ELSE IF f = "wait" THEN "none"
               ELSE IF f = "inbox" THEN inbox ELSE IF f = "read" THEN read ELSE node[f]]
    OBVIOUS
  <2> HIDE DEF u
  <2> QED
    BY <1>1, <2>1
<1>4. u.state = "running" /\ u.inbox = inbox /\ u.read = read
  BY <1>3
<1> HIDE DEF u
<1>5. u \in Nodes
  BY <1>2, <1>3, NodeParts DEF Nodes
<1> QED
  BY <1>2, <1>4, <1>5 DEF u, inbox, read, Queue

LEMMA NodeWaits ==
  ASSUME NEW node \in Nodes, NEW t \in SUBSET Triggers
  PROVE  LET u == [node EXCEPT !.state = "waiting", !.wait = "waiting_for_trigger", !.triggers = t]
         IN  u \in Nodes /\ u.state = "waiting" /\ Queue(u) = Queue(node) /\ u.read = node.read
<1> DEFINE u == [node EXCEPT !.state = "waiting", !.wait = "waiting_for_trigger", !.triggers = t]
<1>1. DOMAIN node = {"state", "wait", "triggers", "inbox", "read"}
  BY DEF Nodes
<1>2. u = [state |-> "waiting", wait |-> "waiting_for_trigger", triggers |-> t,
           inbox |-> node.inbox, read |-> node.read]
  <2>1. u = [f \in DOMAIN node |->
               IF f = "state" THEN "waiting" ELSE IF f = "wait" THEN "waiting_for_trigger"
               ELSE IF f = "triggers" THEN t ELSE node[f]]
    OBVIOUS
  <2> HIDE DEF u
  <2> QED
    BY <1>1, <2>1
<1>3. u.state = "waiting" /\ u.inbox = node.inbox /\ u.read = node.read
  BY <1>2
<1> HIDE DEF u
<1>4. u \in Nodes
  BY <1>2, NodeParts DEF Nodes
<1> QED
  BY <1>3, <1>4 DEF u, Queue

\* A message leaves what was read alone, and completes nothing.
LEMMA NodeReceives ==
  ASSUME NEW node \in Nodes, NEW k \in Nat,
         InOrder(Queue(node)), \A m \in ToSet(Queue(node)) : m <= k
  PROVE  LET u == [node EXCEPT
                     !.inbox = Append(@, k + 1),
                     !.state = IF @ \in {"idle", "waiting"} THEN "ready" ELSE @,
                     !.wait = IF @ # "none" THEN "message_received" ELSE @]
         IN  /\ u \in Nodes /\ u.read = node.read
             /\ u.state = "completed" => node.state = "completed"
             /\ ToSet(Queue(u)) = ToSet(Queue(node)) \cup {k + 1} /\ InOrder(Queue(u))
<1> DEFINE inbox == Append(node.inbox, k + 1)
           state == IF node.state \in {"idle", "waiting"} THEN "ready" ELSE node.state
           wait == IF node.wait # "none" THEN "message_received" ELSE node.wait
           u == [node EXCEPT !.inbox = inbox, !.state = state, !.wait = wait]
<1>1. DOMAIN node = {"state", "wait", "triggers", "inbox", "read"}
  BY DEF Nodes
<1>2. /\ inbox \in Seq(Nat) /\ InOrder(node.read \o inbox)
      /\ ToSet(node.read \o inbox) = ToSet(node.read \o node.inbox) \cup {k + 1}
  <2>1. node.read \in Seq(Nat) /\ node.inbox \in Seq(Nat)
    BY NodeParts
  <2>2. InOrder(node.read \o node.inbox) /\ \A m \in ToSet(node.read \o node.inbox) : m <= k
    BY DEF Queue
  <2> QED
    BY <2>1, <2>2, NewMessage
<1>3. state \in States /\ wait \in Waits /\ (state = "completed" => node.state = "completed")
  BY NodeParts DEF States, Waits
<1> HIDE DEF inbox, state, wait
<1>4. u = [state |-> state, wait |-> wait, triggers |-> node.triggers,
           inbox |-> inbox, read |-> node.read]
  <2>1. u = [f \in DOMAIN node |->
               IF f = "inbox" THEN inbox ELSE IF f = "state" THEN state
               ELSE IF f = "wait" THEN wait ELSE node[f]]
    OBVIOUS
  <2> HIDE DEF u
  <2> QED
    BY <1>1, <2>1
<1>5. u.state = state /\ u.inbox = inbox /\ u.read = node.read
  BY <1>4
<1> HIDE DEF u
<1>6. u \in Nodes
  BY <1>2, <1>3, <1>4, NodeParts DEF Nodes, States, Waits
<1> QED
  BY <1>2, <1>3, <1>5, <1>6 DEF u, inbox, state, wait, Queue

LEMMA NodeFresh ==
  ASSUME NEW b, NEW n
  PROVE  /\ Fresh(b, n) \in Nodes /\ Queue(Fresh(b, n)) = << >>
         /\ Fresh(b, n).read = << >> /\ Fresh(b, n).state # "completed"
<1>1. << >> \in Seq(Nat) /\ << >> \o << >> = << >>
  BY EmptyQueue
<1>2. Defaults \subseteq Triggers
  BY DEF Defaults, Triggers
<1> QED
  BY <1>1, <1>2 DEF Fresh, Nodes, Queue

-----------------------------------------------------------------------------
(* What a command makes of a node. Without a pair in the handoff before it, *)
(* a node begins with an empty queue.                                      *)
Keeps(old, new, over) ==
  /\ Queue(new) = Queue(old)
  /\ over => new.read = old.read /\ (new.state = "completed" => old.state = "completed")
Begins(new, over) ==
  /\ Queue(new) = << >>
  /\ over => new.read = << >> /\ new.state # "completed"

\* From one handoff to the next; and within a tick, which takes no node out.
Follows(h, t) ==
  \A n \in DOMAIN t.nodes :
    \/ n \in DOMAIN h.nodes /\ Keeps(h.nodes[n], t.nodes[n], n \in t.base.over)
    \/ (n \notin DOMAIN h.nodes \/ n \notin ToSet(Fixed)) /\ Begins(t.nodes[n], n \in t.base.over)
Extends(h, t) ==
  /\ HandoffGood(t) /\ t.base.over = h.base.over
  /\ DOMAIN h.nodes \subseteq DOMAIN t.nodes
  /\ \A n \in DOMAIN t.nodes :
       \/ n \in DOMAIN h.nodes /\ Keeps(h.nodes[n], t.nodes[n], n \in t.base.over)
       \/ n \notin DOMAIN h.nodes /\ n \notin ToSet(Fixed) /\ Begins(t.nodes[n], n \in t.base.over)

LEMMA ExtendsItself ==
  ASSUME NEW h, HandoffGood(h)
  PROVE  Extends(h, h)
BY DEF Extends, Keeps

LEMMA ExtendsOn ==
  ASSUME NEW h, NEW s, NEW t, Extends(h, s), Extends(s, t)
  PROVE  Extends(h, t)
BY DEF Extends, Keeps, Begins

LEMMA FollowsOn ==
  ASSUME NEW h, NEW s, NEW t, Follows(h, s), Extends(s, t)
  PROVE  Follows(h, t)
BY DEF Follows, Extends, Keeps, Begins

\* _materialize_prince2_node_runtime() keeps the nodes that stay.
LEMMA PutFollows ==
  ASSUME NEW h, NodesOK(h), NEW b, BaseOK(b)
  PROVE  /\ HandoffGood(Put(h, b)) /\ Put(h, b).base = b
         /\ Follows(h, Put(h, b))
         /\ \A n \in Members(b) : n \notin DOMAIN h.nodes => Put(h, b).nodes[n] = Fresh(b, n)
         /\ \A n \in Members(b) \cap DOMAIN h.nodes :
              Keeps(h.nodes[n], Put(h, b).nodes[n], TRUE)
<1> DEFINE t == Put(h, b)
<1>1. t.base = b /\ t.nodes = Materialize(b, h.nodes)
  BY DEF Put
<1>2. DOMAIN t.nodes = Members(b)
  BY <1>1 DEF Materialize
<1>3. ASSUME NEW n \in Members(b), n \notin DOMAIN h.nodes
      PROVE  t.nodes[n] = Fresh(b, n) /\ t.nodes[n] \in Nodes /\ Begins(t.nodes[n], TRUE)
  <2>1. t.nodes[n] = Fresh(b, n)
    BY <1>1, <1>3 DEF Materialize
  <2> QED
    BY <2>1, NodeFresh DEF Begins
<1>4. ASSUME NEW n \in Members(b), n \in DOMAIN h.nodes
      PROVE  t.nodes[n] \in Nodes /\ Keeps(h.nodes[n], t.nodes[n], TRUE)
  <2> DEFINE w == IF h.nodes[n].triggers = {} THEN Defaults ELSE h.nodes[n].triggers
  <2>1. t.nodes[n] = [h.nodes[n] EXCEPT !.triggers = w]
    BY <1>1, <1>4 DEF Materialize
  <2>2. h.nodes[n] \in Nodes
    BY <1>4 DEF NodesOK
  <2>3. w \in SUBSET Triggers
    BY <2>2, NodeParts DEF Defaults, Triggers
  <2> HIDE DEF w, t
  <2>4. /\ t.nodes[n] \in Nodes /\ t.nodes[n].state = h.nodes[n].state
        /\ Queue(t.nodes[n]) = Queue(h.nodes[n]) /\ t.nodes[n].read = h.nodes[n].read
    BY <2>1, <2>2, <2>3, NodeTriggers
  <2> QED
    BY <2>4 DEF Keeps
<1> HIDE DEF t
<1>5. HandoffGood(t)
  BY <1>1, <1>2, <1>3, <1>4 DEF HandoffGood, NodesOK
<1>6. Follows(h, t)
  BY <1>2, <1>3, <1>4 DEF Follows, Keeps, Begins
<1> QED
  BY <1>1, <1>3, <1>4, <1>5, <1>6 DEF t

\* One node is given another value.
LEMMA WithNodeExtends ==
  ASSUME NEW h, HandoffGood(h), NEW n \in DOMAIN h.nodes, NEW node \in Nodes,
         Keeps(h.nodes[n], node, n \in h.base.over)
  PROVE  Extends(h, WithNode(h, n, node))
<1> DEFINE t == WithNode(h, n, node)
<1>1. t.base = h.base /\ t.nodes = [h.nodes EXCEPT ![n] = node]
  BY DEF WithNode
<1>2. /\ DOMAIN t.nodes = DOMAIN h.nodes
      /\ \A m \in DOMAIN t.nodes : t.nodes[m] = IF m = n THEN node ELSE h.nodes[m]
  BY <1>1
<1> HIDE DEF t
<1>3. HandoffGood(t)
  BY <1>1, <1>2 DEF HandoffGood, NodesOK
<1>4. \A m \in DOMAIN t.nodes : Keeps(h.nodes[m], t.nodes[m], m \in t.base.over)
  BY <1>1, <1>2 DEF Keeps
<1>5. Extends(h, t)
  BY <1>1, <1>2, <1>3, <1>4 DEF Extends
<1> QED
  BY <1>5 DEF t

LEMMA MovedExtends ==
  ASSUME NEW h, HandoffGood(h), NEW n \in DOMAIN h.nodes, NEW s \in States,
         s = "completed" => n \notin h.base.over \/ h.nodes[n].state = "completed"
  PROVE  /\ Extends(h, Moved(h, n, s)) /\ DOMAIN Moved(h, n, s).nodes = DOMAIN h.nodes
         /\ Moved(h, n, s).base = h.base
         /\ Moved(h, n, s).nodes[n].state = s /\ Moved(h, n, s).nodes[n].inbox = h.nodes[n].inbox
<1> DEFINE u == [h.nodes[n] EXCEPT !.state = s, !.wait = "none"]
<1>1. h.nodes[n] \in Nodes
  BY DEF HandoffGood, NodesOK
<1>2. /\ u \in Nodes /\ u.state = s /\ Queue(u) = Queue(h.nodes[n])
      /\ u.read = h.nodes[n].read /\ u.inbox = h.nodes[n].inbox
  BY <1>1, NodeMoved
<1>3. Moved(h, n, s) = WithNode(h, n, u)
  BY DEF Moved
<1> HIDE DEF u
<1>4. Keeps(h.nodes[n], u, n \in h.base.over)
  BY <1>2 DEF Keeps
<1>5. Extends(h, Moved(h, n, s))
  BY <1>2, <1>3, <1>4, WithNodeExtends
<1> QED
  BY <1>2, <1>3, <1>5 DEF WithNode

LEMMA SpawnedExtends ==
  ASSUME NEW h, HandoffGood(h), NEW n \in DOMAIN h.nodes, FreeIds(h.base, n) # {}
  PROVE  Extends(h, Spawned(h, n))
<1> DEFINE child == NewId(h.base, n)
           b == WithLane(h.base, n, child)
           t == Spawned(h, n)
<1>1. BaseOK(h.base) /\ NodesOK(h) /\ DOMAIN h.nodes = Members(h.base)
  BY DEF HandoffGood, NodesOK
<1>2. n \in Ids
  BY <1>1, BaseParts DEF PartsOK
<1>3. child \in Ids /\ child \notin Members(h.base) /\ child[2] > n[2]
  BY <1>2, NewIdFree DEF FreeIds
<1>4. child \notin ToSet(Fixed)
  <2>1. n[2] \in Nat
    BY <1>2, RoleAssumption
  <2> QED
    BY <1>3, <2>1, FixedFacts
<1>5. t = Put(h, b)
  BY DEF Spawned
<1> HIDE DEF child, t
<1>6. BaseOK(b) /\ b.over = h.base.over /\ Members(b) = Members(h.base) \cup {child}
  BY <1>1, <1>3, SpawnedBaseOK
<1> HIDE DEF b
<1>7. /\ HandoffGood(t) /\ t.base = b
      /\ t.nodes[child] = Fresh(b, child)
      /\ \A m \in DOMAIN h.nodes : Keeps(h.nodes[m], t.nodes[m], TRUE)
  <2>1. /\ HandoffGood(Put(h, b)) /\ Put(h, b).base = b
        /\ \A m \in Members(b) : m \notin DOMAIN h.nodes => Put(h, b).nodes[m] = Fresh(b, m)
        /\ \A m \in Members(b) \cap DOMAIN h.nodes : Keeps(h.nodes[m], Put(h, b).nodes[m], TRUE)
    <3>1. NodesOK(h) /\ BaseOK(b)
      BY <1>1, <1>6
    <3> QED
      BY <3>1, PutFollows
  <2>2. child \in Members(b) /\ child \notin DOMAIN h.nodes /\ DOMAIN h.nodes \subseteq Members(b)
    BY <1>1, <1>3, <1>6
  <2>3. t.nodes[child] = Fresh(b, child)
    BY <1>5, <2>1, <2>2
  <2>4. ASSUME NEW m \in DOMAIN h.nodes PROVE Keeps(h.nodes[m], t.nodes[m], TRUE)
    BY <1>5, <2>1, <2>2
  <2> QED
    BY <1>5, <2>1, <2>3, <2>4
<1>8. DOMAIN t.nodes = DOMAIN h.nodes \cup {child}
  BY <1>1, <1>6, <1>7 DEF HandoffGood, NodesOK
<1>9. Begins(t.nodes[child], TRUE)
  BY <1>7, NodeFresh DEF Begins
<1>10. Extends(h, t)
  BY <1>1, <1>3, <1>4, <1>6, <1>7, <1>8, <1>9 DEF Extends, Keeps, Begins
<1> QED
  BY <1>10 DEF t

\* tick_prince2_node(): a node beyond its tolerance is escalated and does no work.
LEMMA TickedExtends ==
  ASSUME NEW h, HandoffGood(h), NEW n \in DOMAIN h.nodes, ~NoName(h, n)
  PROVE  Extends(h, Ticked(h, n))
<1>1. h.nodes[n] \in Nodes
  BY DEF HandoffGood, NodesOK
<1>2. CASE State(h, n) = "escalated" /\ Lanes(h.base, n) # {}
  <2>1. Ticked(h, n) = Moved(h, n, "escalated")
    BY <1>2 DEF Ticked
  <2> QED
    BY <2>1, MovedExtends DEF States
<1>3. CASE State(h, n) = "escalated" /\ Lanes(h.base, n) = {}
  <2>1. Ticked(h, n) = Spawned(h, n)
    BY <1>3 DEF Ticked
  <2> QED
    BY <1>3, <2>1, SpawnedExtends DEF NoName
<1>4. CASE State(h, n) = "completed"
  <2>1. Ticked(h, n) = h
    BY <1>4 DEF Ticked
  <2> QED
    BY <2>1, ExtendsItself
<1>5. CASE State(h, n) \notin {"escalated", "completed"}
  <2>1. n \notin h.base.over
    BY <1>5 DEF State
  <2>2. CASE h.nodes[n].inbox = << >>
    <3>1. Ticked(h, n) = Moved(h, n, "completed")
      BY <1>5, <2>2 DEF Ticked
    <3> QED
      BY <2>1, <3>1, MovedExtends DEF States
  <2>3. CASE h.nodes[n].inbox # << >>
    <3> DEFINE u == [h.nodes[n] EXCEPT !.state = "running", !.wait = "none", !.inbox = Tail(@),
                                       !.read = Append(@, Head(h.nodes[n].inbox))]
    <3>1. Ticked(h, n) = WithNode(h, n, u)
      BY <1>5, <2>3 DEF Ticked
    <3>2. u \in Nodes /\ Queue(u) = Queue(h.nodes[n])
      BY <1>1, <2>3, NodeReads
    <3> HIDE DEF u
    <3>3. Keeps(h.nodes[n], u, n \in h.base.over)
      BY <2>1, <3>2 DEF Keeps
    <3> QED
      BY <3>1, <3>2, <3>3, WithNodeExtends
  <2> QED
    BY <2>2, <2>3
<1> QED
  BY <1>2, <1>3, <1>4, <1>5

LEMMA TurnExtends ==
  ASSUME NEW h, HandoffGood(h), NEW n \in DOMAIN h.nodes, ~NoName(h, n)
  PROVE  Extends(h, Turn(h, n))
<1> DEFINE called == h.nodes[n].state = "waiting" /\ h.nodes[n].inbox # << >>
           w == IF called THEN Moved(h, n, "ready") ELSE h
<1>1. /\ Extends(h, w) /\ DOMAIN w.nodes = DOMAIN h.nodes /\ w.base = h.base
      /\ w.nodes[n].state = IF called THEN "ready" ELSE h.nodes[n].state
  BY MovedExtends, ExtendsItself DEF States
<1>2. HandoffGood(w)
  BY <1>1 DEF Extends
<1>3. Turn(h, n) = h \/ Turn(h, n) = Ticked(w, n)
  BY DEF Turn
<1>4. State(w, n) = "escalated" => State(h, n) = "escalated"
  <2> HIDE DEF w
  <2> QED
    BY <1>1 DEF State
<1> HIDE DEF w, called
<1>5. ~NoName(w, n)
  BY <1>1, <1>4 DEF NoName
<1>6. Extends(h, Ticked(w, n))
  BY <1>1, <1>2, <1>5, TickedExtends, ExtendsOn
<1> QED
  BY <1>3, <1>6, ExtendsItself

-----------------------------------------------------------------------------
(* The turns of a batch. The recursion of Batch has a solution: were there   *)
(* lengths without one, there would be a least.                            *)
Recursive(h, k, g) == g = [i \in 0..k |-> IF i = 0 THEN h ELSE Turn(g[i - 1], h.base.order[i])]

LEMMA TurnsExist ==
  ASSUME NEW h, NEW k \in Nat
  PROVE  \E g : Recursive(h, k, g)
<1> DEFINE T == {m \in Nat : ~ \E g : Recursive(h, m, g)}
<1>1. SUFFICES ASSUME T # {} PROVE FALSE
  BY DEF Recursive
<1>2. PICK m \in T : \A y \in T : <<y, m>> \notin OpToRel(<, Nat)
  <2>1. T \subseteq Nat
    OBVIOUS
  <2> HIDE DEF T
  <2> QED
    BY <1>1, <2>1, NatLessThanWellFounded, WFMin
<1>3. m # 0
  <2>1. Recursive(h, 0, [i \in 0..0 |-> h])
    BY DEF Recursive
  <2> QED
    BY <2>1
<1>4. PICK g : Recursive(h, m - 1, g)
  <2>1. m - 1 \in Nat /\ <<m - 1, m>> \in OpToRel(<, Nat)
    BY <1>3 DEF OpToRel
  <2> QED
    BY <1>2, <2>1
<1> DEFINE next == [i \in 0..m |-> IF i < m THEN g[i] ELSE Turn(g[m - 1], h.base.order[m])]
<1>5. \A i \in 0..m : next[i] = IF i = 0 THEN h ELSE Turn(next[i - 1], h.base.order[i])
  <2>1. TAKE i \in 0..m
  <2>2. CASE i = 0
    BY <1>3, <1>4, <2>2 DEF Recursive
  <2>3. CASE i \in 1..(m - 1)
    <3>1. g[i] = Turn(g[i - 1], h.base.order[i])
      BY <1>4, <2>3 DEF Recursive
    <3> QED
      BY <2>3, <3>1
  <2>4. CASE i = m
    BY <1>3, <2>4
  <2> QED
    BY <2>1, <2>2, <2>3, <2>4
<1>6. Recursive(h, m, next)
  BY <1>5 DEF Recursive
<1> QED
  BY <1>6

LEMMA BatchFacts ==
  ASSUME NEW h, NEW k \in Nat
  PROVE  /\ Batch(h, k)[0] = h
         /\ \A i \in 1..k : Batch(h, k)[i] = Turn(Batch(h, k)[i - 1], h.base.order[i])
<1>1. Batch(h, k) = CHOOSE g : Recursive(h, k, g)
  BY DEF Batch, Recursive
<1>2. Recursive(h, k, Batch(h, k))
  BY <1>1, TurnsExist
<1> QED
  BY <1>2 DEF Recursive

LEMMA BatchExtends ==
  ASSUME NEW h, HandoffGood(h), NEW k \in Nat, k <= Len(h.base.order),
         ~ \E i \in 1..k : NoName(Batch(h, k)[i - 1], h.base.order[i])
  PROVE  Extends(h, Batch(h, k)[k])
<1> DEFINE g == Batch(h, k)
           T == {m \in 0..k : ~ Extends(h, g[m])}
<1>1. g[0] = h /\ \A i \in 1..k : g[i] = Turn(g[i - 1], h.base.order[i])
  BY BatchFacts
<1> HIDE DEF g
<1>2. SUFFICES ASSUME T # {} PROVE FALSE
  BY DEF g
<1>3. PICK m \in T : \A y \in T : <<y, m>> \notin OpToRel(<, Nat)
  <2>1. T \subseteq Nat
    OBVIOUS
  <2> HIDE DEF T
  <2> QED
    BY <1>2, <2>1, NatLessThanWellFounded, WFMin
<1>4. m # 0
  BY <1>1, ExtendsItself
<1>5. m - 1 \in 0..k /\ m \in 1..k
  BY <1>4
<1>6. Extends(h, g[m - 1])
  <2>1. <<m - 1, m>> \in OpToRel(<, Nat)
    BY <1>5 DEF OpToRel
  <2> QED
    BY <1>3, <1>5, <2>1
<1> DEFINE n == h.base.order[m]
<1>7. n \in DOMAIN h.nodes
  <2>1. h.base.order \in Seq(Ids) /\ DOMAIN h.nodes = ToSet(h.base.order)
    BY BaseParts DEF HandoffGood, NodesOK, PartsOK, Members
  <2>2. m \in DOMAIN h.base.order
    BY <1>5, <2>1, LenProperties
  <2> QED
    BY <2>1, <2>2 DEF ToSet
<1>8. HandoffGood(g[m - 1]) /\ n \in DOMAIN g[m - 1].nodes
  BY <1>6, <1>7 DEF Extends
<1>9. ~NoName(g[m - 1], n)
  BY <1>5 DEF g
<1> HIDE DEF n
<1>10. Extends(g[m - 1], Turn(g[m - 1], n))
  BY <1>8, <1>9, TurnExtends
<1>11. g[m] = Turn(g[m - 1], n)
  BY <1>1, <1>5 DEF n
<1> QED
  BY <1>6, <1>10, <1>11, ExtendsOn

(* The commands.                                                           *)
Good == BaseOK(prefs) /\ HandoffGood(handoff)

LEMMA FollowsItself ==
  ASSUME NEW h
  PROVE  Follows(h, h)
BY DEF Follows, Keeps

LEMMA SyncedFollows ==
  ASSUME Good
  PROVE  HandoffGood(Synced) /\ Follows(handoff, Synced) /\ Synced.base \in {prefs, handoff.base}
BY PutFollows, FollowsItself DEF Good, Synced, HandoffGood

LEMMA PersistFollows ==
  ASSUME Good, NEW b, BaseOK(b), Persist(b)
  PROVE  Good' /\ Follows(handoff, handoff')
<1>1. prefs' = b /\ handoff' \in {handoff, Put(handoff, b)}
  BY DEF Persist, CrashOr
<1>2. HandoffGood(handoff') /\ Follows(handoff, handoff')
  BY <1>1, PutFollows, FollowsItself DEF Good, HandoffGood
<1> QED
  BY <1>1, <1>2 DEF Good, HandoffGood, NodesOK, BaseOK, Members

LEMMA SaveFollows ==
  ASSUME Good, NEW t, Extends(Synced, t), Save(t)
  PROVE  Good' /\ Follows(handoff, handoff')
<1>1. handoff' = t /\ prefs' \in {prefs, t.base}
  BY DEF Save, CrashOr
<1>2. HandoffGood(t)
  BY DEF Extends
<1>3. Follows(handoff, t)
  BY SyncedFollows, FollowsOn
<1>4. BaseOK(prefs')
  BY <1>1, <1>2 DEF Good, HandoffGood
<1> QED
  BY <1>1, <1>2, <1>3, <1>4 DEF Good, HandoffGood, NodesOK, BaseOK, Members

\* What a command does to one node of the synchronised handoff.
LEMMA SyncedWithNode ==
  ASSUME Good, NEW n \in DOMAIN Synced.nodes, NEW node \in Nodes,
         Keeps(Synced.nodes[n], node, TRUE), handoff' = WithNode(Synced, n, node), prefs' = prefs
  PROVE  Good' /\ Follows(handoff, handoff')
<1>1. HandoffGood(Synced) /\ Follows(handoff, Synced)
  BY SyncedFollows
<1>2. Extends(Synced, handoff')
  BY <1>1, WithNodeExtends DEF Keeps
<1>3. HandoffGood(handoff') /\ Follows(handoff, handoff')
  BY <1>1, <1>2, FollowsOn DEF Extends
<1> QED
  BY <1>3 DEF Good, HandoffGood, NodesOK, BaseOK, Members

\* Every command but the sending of a message keeps the queues of the nodes that
\* stay, and lets no node beyond its tolerance read or complete anything.
NotSend ==
  \/ \E over \in Pressed, proposal \in BOOLEAN : Approve(over, proposal)
  \/ \E n, parent \in Ids : AddChild(n, parent)
  \/ \E n \in Ids : Assign(n) \/ Tolerance(n) \/ Tick(n) \/ Wait(n, WaitFor)
  \/ \E n \in Ids, reparent \in BOOLEAN : RemoveNode(n, reparent)
  \/ \E b \in Briefs : ChangeBrief(b)
  \/ \E n \in Ids, trigger \in Triggers : Wake(n, trigger)
  \/ \E limit \in Limits : TickAll(limit)
  \/ Sync

LEMMA NotSendFollows ==
  ASSUME Good, brief \in Briefs, NotSend
  PROVE  Good' /\ Follows(handoff, handoff')
<1>0. BaseOK(prefs) /\ PartsOK(prefs)
  BY BaseParts DEF Good
<1>1. ASSUME NEW over \in Pressed, NEW proposal \in BOOLEAN, Approve(over, proposal)
      PROVE  Good' /\ Follows(handoff, handoff')
  <2> DEFINE b == [status |-> "approved", brief |-> IF proposal THEN brief ELSE 0, order |-> Fixed,
              parent |-> [n \in Ids |-> IF n \in ToSet(Fixed) \ {RootId} THEN RootId ELSE NoNode],
              escalation |-> {}, assigned |-> {i \in ToSet(Fixed) : i[1] \in Configured},
              over |-> over \cap ToSet(Fixed), flow |-> Edges]
  <2>1. over \in SUBSET Ids /\ (IF proposal THEN brief ELSE 0) \in {0} \cup Briefs
    BY RoleAssumption
  <2>2. BaseOK(b)
    BY <2>1, ApprovedTreeOK
  <2>3. Persist(b)
    BY <1>1 DEF Approve
  <2> HIDE DEF b
  <2> QED
    BY <2>2, <2>3, PersistFollows
<1>2. ASSUME NEW n \in Ids, NEW parent \in Ids, AddChild(n, parent)
      PROVE  Good' /\ Follows(handoff, handoff')
  <2> DEFINE b == [prefs EXCEPT !.order = Append(@, n), !.parent[n] = parent]
  <2>1. BaseOK(b)
    BY <1>0, <1>2, ChildAddedOK DEF AddChild
  <2>2. Persist(Approved(b))
    BY <1>2 DEF AddChild
  <2> HIDE DEF b
  <2>3. BaseOK(Approved(b))
    BY <2>1, RestatedOK DEF Approved
  <2> QED
    BY <2>2, <2>3, PersistFollows
<1>3. ASSUME NEW n \in Ids, Assign(n)
      PROVE  Good' /\ Follows(handoff, handoff')
  <2> DEFINE b == [prefs EXCEPT !.assigned = @ \cup {n}]
  <2>1. BaseOK(b)
    BY <1>0, AssignedOK
  <2>2. Persist(Approved(b))
    BY <1>3 DEF Assign
  <2> HIDE DEF b
  <2>3. BaseOK(Approved(b))
    BY <2>1, RestatedOK DEF Approved
  <2> QED
    BY <2>2, <2>3, PersistFollows
<1>4. ASSUME NEW n \in Ids, Tolerance(n)
      PROVE  Good' /\ Follows(handoff, handoff')
  <2> DEFINE b == [prefs EXCEPT !.over = IF n \in @ THEN @ \ {n} ELSE @ \cup {n}]
  <2>1. BaseOK(b)
    BY <1>0, ToleratedOK
  <2>2. Persist(Approved(b))
    BY <1>4 DEF Tolerance
  <2> HIDE DEF b
  <2>3. BaseOK(Approved(b))
    BY <2>1, RestatedOK DEF Approved
  <2> QED
    BY <2>2, <2>3, PersistFollows
<1>5. ASSUME NEW n \in Ids, NEW reparent \in BOOLEAN, RemoveNode(n, reparent)
      PROVE  Good' /\ Follows(handoff, handoff')
  <2> DEFINE b == Without(prefs, n, reparent)
  <2>1. n \in Members(prefs)
    BY <1>5 DEF RemoveNode
  <2>2. BaseOK(b)
    BY <1>0, <2>1, NodeRemovedOK
  <2>3. Persist(Approved(b))
    BY <1>5 DEF RemoveNode
  <2> HIDE DEF b
  <2>4. BaseOK(Approved(b))
    BY <2>2, RestatedOK DEF Approved
  <2> QED
    BY <2>3, <2>4, PersistFollows
<1>6. ASSUME NEW b \in Briefs, ChangeBrief(b)
      PROVE  Good' /\ Follows(handoff, handoff')
  <2> DEFINE marked == [prefs EXCEPT !.status = "stale"]
  <2>1. BaseOK(marked)
    BY <1>0, RestatedOK
  <2>2. prefs' \in {prefs, marked} /\ handoff' \in {handoff, Put(handoff, marked)}
    BY <1>6 DEF ChangeBrief, CrashOr
  <2> HIDE DEF marked
  <2>3. HandoffGood(handoff') /\ Follows(handoff, handoff')
    BY <2>1, <2>2, PutFollows, FollowsItself DEF Good, HandoffGood
  <2>4. BaseOK(prefs')
    BY <1>0, <2>1, <2>2
  <2> QED
    BY <2>3, <2>4 DEF Good, HandoffGood, NodesOK, BaseOK, Members
<1>7. ASSUME NEW n \in Ids, Wait(n, WaitFor)
      PROVE  Good' /\ Follows(handoff, handoff')
  <2>1. n \in DOMAIN Synced.nodes /\ prefs' = prefs
    BY <1>7 DEF Wait
  <2>2. Synced.nodes[n] \in Nodes
    BY <2>1, SyncedFollows DEF HandoffGood, NodesOK
  <2>3. PICK t \in WaitFor \cup {Synced.nodes[n].triggers} :
          handoff' = WithNode(Synced, n, [Synced.nodes[n] EXCEPT
               !.state = "waiting", !.wait = "waiting_for_trigger", !.triggers = t])
    BY <1>7 DEF Wait
  <2> DEFINE u == [Synced.nodes[n] EXCEPT
                     !.state = "waiting", !.wait = "waiting_for_trigger", !.triggers = t]
  <2>4. t \in SUBSET Triggers
    BY <2>2, <2>3, NodeParts, RoleAssumption
  <2>5. /\ u \in Nodes /\ u.state = "waiting" /\ Queue(u) = Queue(Synced.nodes[n])
        /\ u.read = Synced.nodes[n].read
    BY <2>2, <2>4, NodeWaits
  <2>6. handoff' = WithNode(Synced, n, u)
    BY <2>3
  <2> HIDE DEF u
  <2>7. Keeps(Synced.nodes[n], u, TRUE)
    BY <2>5 DEF Keeps
  <2> QED
    BY <2>1, <2>5, <2>6, <2>7, SyncedWithNode
<1>8. ASSUME NEW n \in Ids, NEW trigger \in Triggers, Wake(n, trigger)
      PROVE  Good' /\ Follows(handoff, handoff')
  <2>1. n \in DOMAIN Synced.nodes /\ prefs' = prefs /\ handoff' = Moved(Synced, n, "ready")
    BY <1>8 DEF Wake
  <2>2. HandoffGood(Synced) /\ Follows(handoff, Synced)
    BY SyncedFollows
  <2>3. Extends(Synced, handoff')
    BY <2>1, <2>2, MovedExtends DEF States
  <2>4. HandoffGood(handoff') /\ Follows(handoff, handoff')
    BY <2>2, <2>3, FollowsOn DEF Extends
  <2> QED
    BY <2>1, <2>4 DEF Good, HandoffGood, NodesOK, BaseOK, Members
<1>9. ASSUME NEW n \in Ids, Tick(n)
      PROVE  Good' /\ Follows(handoff, handoff')
  <2>1. n \in DOMAIN Synced.nodes /\ ~NoName(Synced, n) /\ Save(Ticked(Synced, n))
    BY <1>9 DEF Tick, CanTick
  <2>2. Extends(Synced, Ticked(Synced, n))
    BY <2>1, SyncedFollows, TickedExtends
  <2> QED
    BY <2>1, <2>2, SaveFollows
<1>10. ASSUME NEW limit \in Limits, TickAll(limit)
       PROVE  Good' /\ Follows(handoff, handoff')
  <2> DEFINE last == IF limit < Len(Synced.base.order) THEN limit ELSE Len(Synced.base.order)
  <2>1. /\ ~ \E i \in 1..last : NoName(Batch(Synced, last)[i - 1], Synced.base.order[i])
        /\ Save(Batch(Synced, last)[last])
    BY <1>10 DEF TickAll
  <2>2. HandoffGood(Synced)
    BY SyncedFollows
  <2>3. Len(Synced.base.order) \in Nat
    BY <2>2, BaseParts, LenProperties DEF HandoffGood, PartsOK
  <2>4. last \in Nat /\ last <= Len(Synced.base.order)
    BY <2>3, RoleAssumption
  <2> HIDE DEF last
  <2>5. Extends(Synced, Batch(Synced, last)[last])
    BY <2>1, <2>2, <2>4, BatchExtends
  <2> QED
    BY <2>1, <2>5, SaveFollows
<1>11. ASSUME Sync
       PROVE  Good' /\ Follows(handoff, handoff')
  <2>1. prefs' = prefs /\ handoff' = Synced
    BY <1>11 DEF Sync
  <2> QED
    BY <2>1, SyncedFollows DEF Good, HandoffGood, NodesOK, BaseOK, Members
<1> QED
  BY <1>1, <1>2, <1>3, <1>4, <1>5, <1>6, <1>7, <1>8, <1>9, <1>10, <1>11 DEF NotSend

-----------------------------------------------------------------------------
(* The queues.                                                             *)
LEMMA NotSendFrame ==
  ASSUME TypeInv, NotSend
  PROVE  /\ Forget /\ sent' = sent /\ brief' \in Briefs /\ changes' \in Nat /\ faults' \in Nat
<1>1. faults' \in {faults, faults + 1} /\ brief' \in {brief} \cup Briefs
      /\ changes' \in {changes, changes + 1} /\ sent' = sent /\ Forget
  BY DEF NotSend, Approve, AddChild, Assign, Tolerance, Tick, Wait, RemoveNode, ChangeBrief, Wake,
         TickAll, Sync, Save, Persist, CrashOr, Change
<1> QED
  BY <1>1 DEF TypeInv

\* A node that follows one of the handoff shows its messages.
LEMMA FollowsHistory ==
  ASSUME TypeInv, QueueIsHistory, Addressed, NEW t, Follows(handoff, t), NEW n \in DOMAIN t.nodes
  PROVE  ToSet(Queue(t.nodes[n])) = SentTo(n) /\ InOrder(Queue(t.nodes[n]))
<1>1. CASE n \in DOMAIN handoff.nodes /\ Queue(t.nodes[n]) = Queue(handoff.nodes[n])
  BY <1>1 DEF QueueIsHistory
<1>2. CASE /\ Queue(t.nodes[n]) = << >>
           /\ n \notin DOMAIN handoff.nodes \/ n \notin ToSet(Fixed)
  <2>1. SentTo(n) = {}
    BY <1>2 DEF SentTo, Addressed
  <2> QED
    BY <1>2, <2>1, EmptyQueue
<1> QED
  BY <1>1, <1>2 DEF Follows, Keeps, Begins

LEMMA NotSendHistory ==
  ASSUME IInv, NotSend
  PROVE  IInv'
<1>1. TypeInv /\ QueueIsHistory /\ Addressed /\ Good /\ brief \in Briefs
  BY DEF IInv, TypeInv, Good, HandoffGood
<1>2. Good' /\ Follows(handoff, handoff')
  BY <1>1, NotSendFollows
<1>3. Forget /\ sent' = sent /\ brief' \in Briefs /\ changes' \in Nat /\ faults' \in Nat
  BY <1>1, NotSendFrame
<1>4. dropped' = dropped \cup {m \in DOMAIN sent : sent[m] \notin DOMAIN handoff'.nodes}
  BY <1>3 DEF Forget
<1>5. TypeInv'
  BY <1>1, <1>2, <1>3, <1>4 DEF TypeInv, Good, HandoffGood
<1>6. ASSUME NEW n \in DOMAIN handoff'.nodes
      PROVE  ToSet(Queue(handoff'.nodes[n])) = SentTo(n)' /\ InOrder(Queue(handoff'.nodes[n]))
  <2>1. SentTo(n)' = SentTo(n)
    BY <1>3, <1>4 DEF SentTo
  <2> QED
    BY <1>1, <1>2, <2>1, FollowsHistory
<1>7. QueueIsHistory'
  BY <1>6 DEF QueueIsHistory, InOrder, ToSet, Queue
<1>8. Addressed'
  BY <1>1, <1>3, <1>4 DEF Addressed
<1> QED
  BY <1>5, <1>7, <1>8 DEF IInv

\* What the sending of a message does to its addressee and to the others.
LEMMA SendFollows ==
  ASSUME IInv, NEW source \in Ids, NEW target \in Ids, Send(source, target)
  PROVE  /\ Good' /\ target \in DOMAIN handoff'.nodes /\ target \in ToSet(Fixed)
         /\ DOMAIN handoff'.nodes = DOMAIN Synced.nodes /\ Follows(handoff, Synced)
         /\ handoff'.base = Synced.base
         /\ \A n \in DOMAIN Synced.nodes \ {target} : handoff'.nodes[n] = Synced.nodes[n]
         /\ handoff'.nodes[target].read = Synced.nodes[target].read
         /\ handoff'.nodes[target].state = "completed" => Synced.nodes[target].state = "completed"
         /\ ToSet(Queue(handoff'.nodes[target])) = SentTo(target) \cup {Len(sent) + 1}
         /\ InOrder(Queue(handoff'.nodes[target]))
<1>1. TypeInv /\ QueueIsHistory /\ Addressed /\ Good
  BY DEF IInv, TypeInv, Good, HandoffGood
<1>2. HandoffGood(Synced) /\ Follows(handoff, Synced)
  BY <1>1, SyncedFollows
<1>3. <<source, target>> \in Synced.base.flow /\ prefs' = prefs
  BY DEF Send
<1>4. target \in DOMAIN Synced.nodes /\ target \in ToSet(Fixed)
  <2>1. Synced.base.flow \subseteq Edges
        /\ Synced.base.flow \subseteq Members(Synced.base) \X Members(Synced.base)
        /\ DOMAIN Synced.nodes = Members(Synced.base)
    BY <1>2, BaseParts DEF HandoffGood, NodesOK, PartsOK
  <2> QED
    BY <1>3, <2>1, FixedFacts
<1> DEFINE old == Synced.nodes[target]
           node == [old EXCEPT
                      !.inbox = Append(@, Len(sent) + 1),
                      !.state = IF @ \in {"idle", "waiting"} THEN "ready" ELSE @,
                      !.wait = IF @ # "none" THEN "message_received" ELSE @]
<1>5. handoff' = WithNode(Synced, target, node)
  BY DEF Send
<1>6. old \in Nodes
  BY <1>2, <1>4 DEF HandoffGood, NodesOK
<1>7. ToSet(Queue(old)) = SentTo(target) /\ InOrder(Queue(old))
  BY <1>1, <1>2, <1>4, FollowsHistory
<1>8. Len(sent) \in Nat /\ \A m \in SentTo(target) : m <= Len(sent)
  <2>1. Len(sent) \in Nat /\ DOMAIN sent = 1..Len(sent)
    BY <1>1, LenProperties DEF TypeInv
  <2> QED
    BY <2>1 DEF SentTo
<1> HIDE DEF old
<1>9. /\ node \in Nodes /\ node.read = old.read
      /\ node.state = "completed" => old.state = "completed"
      /\ ToSet(Queue(node)) = ToSet(Queue(old)) \cup {Len(sent) + 1} /\ InOrder(Queue(node))
  BY <1>6, <1>7, <1>8, NodeReceives
<1> HIDE DEF node
<1>10. /\ handoff'.base = Synced.base /\ DOMAIN handoff'.nodes = DOMAIN Synced.nodes
       /\ \A n \in DOMAIN Synced.nodes :
            handoff'.nodes[n] = IF n = target THEN node ELSE Synced.nodes[n]
  BY <1>5 DEF WithNode
<1>11. Good'
  <2>1. HandoffGood(handoff')
    BY <1>2, <1>9, <1>10 DEF HandoffGood, NodesOK
  <2> QED
    BY <1>1, <1>3, <2>1 DEF Good, HandoffGood, NodesOK, BaseOK, Members
<1> QED
  BY <1>2, <1>4, <1>7, <1>9, <1>10, <1>11 DEF old

LEMMA SendHistory ==
  ASSUME IInv, NEW source \in Ids, NEW target \in Ids, Send(source, target)
  PROVE  IInv'
<1>1. TypeInv /\ QueueIsHistory /\ Addressed
  BY DEF IInv
<1>2. /\ Good' /\ target \in DOMAIN handoff'.nodes /\ target \in ToSet(Fixed)
      /\ DOMAIN handoff'.nodes = DOMAIN Synced.nodes /\ Follows(handoff, Synced)
      /\ \A n \in DOMAIN Synced.nodes \ {target} : handoff'.nodes[n] = Synced.nodes[n]
      /\ ToSet(Queue(handoff'.nodes[target])) = SentTo(target) \cup {Len(sent) + 1}
      /\ InOrder(Queue(handoff'.nodes[target]))
  BY SendFollows
<1>3. Forget /\ sent' = Append(sent, target) /\ UNCHANGED <<brief, changes, faults>>
  BY DEF Send
<1>4. Len(sent) \in Nat /\ DOMAIN sent = 1..Len(sent) /\ sent \in Seq(Ids)
  BY <1>1, LenProperties DEF TypeInv
<1>5. /\ sent' \in Seq(Ids) /\ DOMAIN sent' = 1..(Len(sent) + 1)
      /\ sent'[Len(sent) + 1] = target /\ \A m \in 1..Len(sent) : sent'[m] = sent[m]
  BY <1>3, <1>4, AppendProperties, LenProperties
<1>6. dropped' = dropped \cup {m \in DOMAIN sent : sent[m] \notin DOMAIN handoff'.nodes}
  BY <1>3 DEF Forget
<1>7. dropped' \subseteq 1..Len(sent)
  BY <1>1, <1>4, <1>6 DEF TypeInv
<1>8. \A m \in 1..(Len(sent) + 1) : m = Len(sent) + 1 \/ m \in 1..Len(sent)
  BY <1>4
<1>9. TypeInv'
  <2>1. dropped' \subseteq DOMAIN sent'
    BY <1>4, <1>5, <1>7
  <2> QED
    BY <1>1, <1>2, <1>3, <1>5, <2>1 DEF TypeInv, Good, HandoffGood
<1>10. ASSUME NEW n \in DOMAIN handoff'.nodes
       PROVE  ToSet(Queue(handoff'.nodes[n])) = SentTo(n)' /\ InOrder(Queue(handoff'.nodes[n]))
  <2>1. Len(sent) + 1 \notin dropped'
    BY <1>4, <1>7
  <2>2. SentTo(n)' = IF n = target THEN SentTo(n) \cup {Len(sent) + 1} ELSE SentTo(n)
    <3>1. \A m \in 1..Len(sent) : m \in SentTo(n)' <=> m \in SentTo(n)
      BY <1>4, <1>5, <1>6, <1>8 DEF SentTo
    <3>2. Len(sent) + 1 \in SentTo(n)' <=> n = target
      BY <1>4, <1>5, <2>1 DEF SentTo
    <3>3. SentTo(n)' \subseteq 1..(Len(sent) + 1) /\ SentTo(n) \subseteq 1..Len(sent)
      BY <1>4, <1>5 DEF SentTo
    <3>4. \A m \in 1..(Len(sent) + 1) :
            m \in SentTo(n)' <=> m \in SentTo(n) \/ (n = target /\ m = Len(sent) + 1)
      BY <1>4, <1>8, <3>1, <3>2, <3>3
    <3>5. Len(sent) + 1 \in 1..(Len(sent) + 1) /\ 1..Len(sent) \subseteq 1..(Len(sent) + 1)
      BY <1>4
    <3> QED
      BY <3>3, <3>4, <3>5
  <2>3. CASE n = target
    BY <1>2, <2>2, <2>3
  <2>4. CASE n # target
    BY <1>1, <1>2, <2>2, <2>4, FollowsHistory
  <2> QED
    BY <2>3, <2>4
<1>11. QueueIsHistory'
  BY <1>10 DEF QueueIsHistory, InOrder, ToSet, Queue
<1>12. Addressed'
  BY <1>1, <1>2, <1>4, <1>5, <1>6, <1>8 DEF Addressed
<1> QED
  BY <1>9, <1>11, <1>12 DEF IInv

LEMMA InitHistory == Init => IInv
<1> SUFFICES ASSUME Init PROVE IInv
  OBVIOUS
<1>1. << >> \in Seq(Ids) /\ Len(<< >>) = 0 /\ DOMAIN << >> = 1..0
  BY EmptySeq, LenProperties
<1>2. DOMAIN handoff.nodes = {} /\ handoff.base = NoBaseline
  BY DEF Init, NoHandoff
<1>3. Members(NoBaseline) = {}
  BY <1>1 DEF Members, NoBaseline, ToSet
<1>4. TypeInv
  BY <1>1, <1>2, <1>3, NoBaselineOK DEF Init, TypeInv, NodesOK, Briefs, NoHandoff
<1> QED
  BY <1>1, <1>2, <1>4 DEF IInv, QueueIsHistory, Addressed, Init

LEMMA NextSplit ==
  ASSUME Next
  PROVE  NotSend \/ \E source, target \in Ids : Send(source, target)
BY DEF Next, NotSend

-----------------------------------------------------------------------------
(* The inductive invariant: types, the history of the queues, and where the *)
(* messages went.                                                          *)
THEOREM Invariance == Spec => []IInv
<1>1. ASSUME IInv, [Next]_vars PROVE IInv'
  <2>1. CASE UNCHANGED vars
    <3>1. UNCHANGED <<prefs, handoff, brief, changes, faults, sent, dropped>>
      BY <2>1 DEF vars, history
    <3>2. TypeInv'
      BY <1>1, <3>1 DEF IInv, TypeInv, BaseOK, NodesOK, Members
    <3>3. QueueIsHistory' /\ Addressed'
      BY <1>1, <3>1 DEF IInv, QueueIsHistory, SentTo, Addressed
    <3> QED
      BY <3>2, <3>3 DEF IInv
  <2> QED
    BY <1>1, <2>1, NextSplit, NotSendHistory, SendHistory
<1> QED
  BY <1>1, InitHistory, PTL DEF Spec

(* Every variable keeps its type: in particular the nodes of the handoff    *)
(* are those of its baseline, and no node is in a tree twice.              *)
THEOREM TypeCorrect == Spec => []TypeOK
<1>1. IInv => TypeOK
  BY DEF IInv, TypeInv, TypeOK, BaseOK, NodesOK, HandoffOK
<1> QED
  BY Invariance, <1>1, PTL

(* However often _materialize_prince2_node_runtime() makes the nodes anew,  *)
(* what a node has read and has in its inbox is what was sent to it, each  *)
(* message once and in order.                                              *)
THEOREM QueuesAreHistory == Spec => []QueueIsHistory
<1>1. IInv => QueueIsHistory
  BY DEF IInv
<1> QED
  BY Invariance, <1>1, PTL

\* What no step may do to a node beyond its tolerance.
LEMMA IdleStep ==
  ASSUME IInv, Next, NEW n \in DOMAIN handoff.nodes, n \in DOMAIN handoff'.nodes,
         n \in handoff'.base.over
  PROVE  /\ Len(handoff'.nodes[n].read) <= Len(handoff.nodes[n].read)
         /\ handoff'.nodes[n].state = "completed" => handoff.nodes[n].state = "completed"
<1> DEFINE a == handoff.nodes[n]
           b == handoff'.nodes[n]
<1>1. Good /\ brief \in Briefs /\ a \in Nodes
  BY DEF IInv, TypeInv, Good, HandoffGood, NodesOK
<1>2. Len(a.read) \in Nat /\ Len(<< >>) = 0
  BY <1>1, NodeParts, LenProperties, EmptySeq
<1>3. \/ b.read = a.read /\ (b.state = "completed" => a.state = "completed")
      \/ b.read = << >> /\ b.state # "completed"
  <2>1. CASE NotSend
    BY <1>1, <2>1, NotSendFollows DEF Follows, Keeps, Begins
  <2>2. ASSUME NEW source \in Ids, NEW target \in Ids, Send(source, target)
        PROVE  \/ b.read = a.read /\ (b.state = "completed" => a.state = "completed")
               \/ b.read = << >> /\ b.state # "completed"
    <3>1. /\ n \in DOMAIN Synced.nodes /\ n \in Synced.base.over /\ Follows(handoff, Synced)
          /\ b.read = Synced.nodes[n].read
          /\ b.state = "completed" => Synced.nodes[n].state = "completed"
      BY <2>2, SendFollows
    <3> QED
      BY <3>1 DEF Follows, Keeps, Begins
  <2> QED
    BY <2>1, <2>2, NextSplit
<1> QED
  BY <1>2, <1>3

(* tick_prince2_node() and tick_prince2_runtime() let no node beyond its    *)
(* tolerance read a message or complete, in a batch of any length.         *)
THEOREM BeyondToleranceIdle == Spec => NoWorkBeyondTolerance
<1> DEFINE Idle ==
      \A n \in DOMAIN handoff.nodes \cap DOMAIN handoff'.nodes :
        n \in handoff'.base.over =>
          /\ Len(handoff'.nodes[n].read) <= Len(handoff.nodes[n].read)
          /\ handoff'.nodes[n].state = "completed" => handoff.nodes[n].state = "completed"
<1>1. IInv /\ [Next]_vars => [Idle]_vars
  BY IdleStep
<1> QED
  BY <1>1, Invariance, PTL DEF Spec, NoWorkBeyondTolerance
=============================================================================
