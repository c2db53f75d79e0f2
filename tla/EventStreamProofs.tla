-------------------------- MODULE EventStreamProofs --------------------------
(***************************************************************************)
(* Safety of the event stream for any threads, processes and events: the   *)
(* inductive invariant IInv of EventStream and what follows from it.       *)
(***************************************************************************)
EXTENDS EventStream, SequenceTheorems, FiniteSetTheorems, TLAPS

-----------------------------------------------------------------------------
(* Lemmas about files. *)

(* What Front and Last return, in the form the steps below use. *)
LEMMA FrontFacts ==
  ASSUME NEW S, NEW s \in Seq(S), s # << >>
  PROVE  /\ Front(s) \in Seq(S) /\ Len(Front(s)) = Len(s) - 1
         /\ \A i \in 1..Len(s) - 1 : Front(s)[i] = s[i]
         /\ Len(s) \in Nat \ {0} /\ Last(s) \in S
<1>1. Len(s) \in Nat \ {0}
  BY EmptySeq
<1>2. \A i \in 1..Len(s) - 1 : s[i] \in S
  BY <1>1, ElementOfSeq
<1>3. /\ Front(s) \in Seq(S) /\ Len(Front(s)) = Len(s) - 1
      /\ \A i \in 1..Len(s) - 1 : Front(s)[i] = s[i]
  <2> DEFINE n == Len(s) - 1
  <2>1. n \in Nat /\ \A i \in 1..n : s[i] \in S
    BY <1>1, <1>2
  <2> HIDE DEF n
  <2>2. /\ SubSeq(s, 1, n) \in Seq(S)
        /\ Len(SubSeq(s, 1, n)) = IF 1 <= n THEN n - 1 + 1 ELSE 0
        /\ \A i \in 1..n - 1 + 1 : SubSeq(s, 1, n)[i] = s[1 + i - 1]
    BY <2>1, SubSeqProperties
  <2>3. Len(SubSeq(s, 1, n)) = n /\ \A i \in 1..n : SubSeq(s, 1, n)[i] = s[i]
    BY <2>1, <2>2
  <2> QED
    BY <2>2, <2>3 DEF Front, n
<1>4. Last(s) \in S
  BY <1>1, ElementOfSeq DEF Last
<1> QED
  BY <1>1, <1>3, <1>4

LEMMA ChainedType ==
  ASSUME NEW n \in Nat, NEW p \in Seq(Events), NEW e \in Events
  PROVE  Chained(n, p, e) \in Line
<1>1. Append(p, e) \in Seq(Events)
  BY AppendProperties
<1> QED
  BY <1>1 DEF Chained, Digest, Line

LEMMA LegacyType ==
  ASSUME NEW e \in Events
  PROVE  Legacy(e) \in Line
  BY EmptySeq DEF Legacy, Genesis, Line

LEMMA JunkType == Junk \in Line
  BY DEF Line

(* The record append() writes is well formed. *)
LEMMA NextLineType ==
  ASSUME NEW f \in Seq(Line), Valid(f), NEW e \in Events
  PROVE  NextLine(f, e) \in Line
<1>1. CASE f # << >> /\ IsLegacy(f)
  BY <1>1, LegacyType DEF NextLine
<1>2. CASE f = << >>
  <2>1. Genesis \in Seq(Events) /\ Len(f) = 0
    BY <1>2, EmptySeq DEF Genesis
  <2>2. NextLine(f, e) = Chained(0 + 1, Genesis, e)
    BY <1>2, <2>1 DEF NextLine
  <2> QED
    BY <2>1, <2>2, ChainedType
<1>3. CASE f # << >> /\ ~IsLegacy(f)
  <2>1. Last(f) \in Line /\ Len(f) \in Nat \ {0}
    BY <1>3, FrontFacts
  <2>2. Last(f).kind = "chained"
    BY <1>3, <2>1 DEF Valid, IsChain, Linked, Last
  <2>3. Last(f).hash \in Seq(Events)
    BY <2>1, <2>2 DEF Line, Junk
  <2> QED
    BY <1>3, <2>1, <2>3, ChainedType DEF NextLine
<1> QED
  BY <1>1, <1>2, <1>3

(* A valid stream stays valid when append() has written its record. *)
LEMMA AppendKeepsValid ==
  ASSUME NEW f \in Seq(Line), Valid(f), NEW e \in Events
  PROVE  Valid(Append(f, NextLine(f, e)))
<1> DEFINE l == NextLine(f, e)
           g == Append(f, l)
<1>1. l \in Line
  BY NextLineType
<1>2. /\ Len(f) \in Nat /\ Len(g) = Len(f) + 1
      /\ \A i \in 1..Len(f) : g[i] = f[i]
      /\ g[Len(f) + 1] = l
  BY <1>1, AppendProperties, LenProperties
<1> HIDE DEF g
<1>3. CASE f # << >> /\ IsLegacy(f)
  <2>1. l.kind = "legacy"
    BY <1>3 DEF NextLine, Legacy
  <2>2. IsLegacy(g)
    BY <1>2, <1>3, <2>1 DEF IsLegacy
  <2> QED
    BY <2>2 DEF Valid, g
<1>4. CASE f = << >> \/ ~IsLegacy(f)
  <2>1. \A i \in 1..Len(f) : Linked(f, i)
    BY <1>4, EmptySeq DEF Valid, IsChain
  <2>2. l = Chained(Len(f) + 1, IF f = << >> THEN Genesis ELSE Last(f).hash, e)
    BY <1>4 DEF NextLine
  <2>3. \A i \in 1..Len(f) : Linked(g, i)
    BY <1>2, <2>1 DEF Linked
  <2>4. Linked(g, Len(f) + 1)
    <3>1. CASE f = << >>
      BY <1>2, <2>2, <3>1 DEF Linked, Chained
    <3>2. CASE f # << >>
      <4>1. Len(f) # 0
        BY <3>2, EmptySeq
      <4>2. g[Len(f)] = Last(f)
        BY <1>2, <4>1 DEF Last
      <4> QED
        BY <1>2, <2>2, <3>2, <4>1, <4>2 DEF Linked, Chained
    <3> QED
      BY <3>1, <3>2
  <2>5. IsChain(g)
    BY <1>2, <2>3, <2>4 DEF IsChain
  <2> QED
    BY <2>5 DEF Valid, g
<1> QED
  BY <1>3, <1>4

(* A valid stream is of one format. *)
LEMMA ValidNotMixed ==
  ASSUME NEW f, Valid(f)
  PROVE  ~Mixed(f)
  BY DEF Valid, IsChain, IsLegacy, Linked, Mixed
(* The bytes of a torn record do not turn one format into two. *)
LEMMA JunkKeepsFormat ==
  ASSUME NEW f \in Seq(Line), ~Mixed(f)
  PROVE  ~Mixed(Append(f, Junk))
<1>1. /\ Len(f) \in Nat /\ Len(Append(f, Junk)) = Len(f) + 1
      /\ \A i \in 1..Len(f) : Append(f, Junk)[i] = f[i]
      /\ Append(f, Junk)[Len(f) + 1] = Junk
  BY JunkType, AppendProperties, LenProperties
<1>2. Junk.kind = "junk"
  BY DEF Junk
<1> QED
  BY <1>1, <1>2 DEF Mixed

LEMMA FrontKeepsFormat ==
  ASSUME NEW f \in Seq(Line), f # << >>, ~Mixed(f)
  PROVE  ~Mixed(Front(f))
<1>1. /\ Len(Front(f)) = Len(f) - 1 /\ Len(f) \in Nat \ {0}
      /\ \A i \in 1..Len(f) - 1 : Front(f)[i] = f[i]
  BY FrontFacts
<1> QED
  BY <1>1 DEF Mixed

LEMMA FrontOfAppend ==
  ASSUME NEW S, NEW s \in Seq(S), NEW e \in S
  PROVE  Front(Append(s, e)) = s
<1> DEFINE g == Append(s, e)
<1>1. /\ g \in Seq(S) /\ g # << >> /\ Len(g) = Len(s) + 1 /\ Len(s) \in Nat
      /\ \A i \in 1..Len(s) : g[i] = s[i]
  BY AppendProperties, LenProperties
<1> HIDE DEF g
<1>2. /\ Front(g) \in Seq(S) /\ Len(Front(g)) = Len(s)
      /\ \A i \in 1..Len(s) : Front(g)[i] = s[i]
  BY <1>1, FrontFacts
<1>3. Front(g) = s
  BY <1>2, SeqEqual
<1> QED
  BY <1>3 DEF g

(* migrate_legacy_to_chain() turns a legacy log into a valid chain. *)
LEMMA MigratedIsChain ==
  ASSUME NEW f \in Seq(Line), IsLegacy(f)
  PROVE  Migrated(f) \in Seq(Line) /\ IsChain(Migrated(f))
<1> DEFINE n == Len(f)
           E == EventsOf(f)
           g == Migrated(f)
<1>1. n \in Nat /\ \A i \in 1..n : f[i].event \in Events
  <2>1. \A i \in 1..n : f[i] \in Line /\ f[i].kind = "legacy"
    BY ElementOfSeq DEF IsLegacy
  <2> QED
    BY <2>1, LenProperties DEF Line, Junk
<1>2. E \in Seq(Events) /\ Len(E) = n /\ \A i \in 1..n : E[i] = f[i].event
  <2>1. E \in Seq(Events)
    BY <1>1, IsASeq DEF EventsOf
  <2> QED
    BY <1>1, <2>1, LenProperties DEF EventsOf
<1>3. \A i \in 1..n : SubSeq(E, 1, i - 1) \in Seq(Events)
  <2> SUFFICES ASSUME NEW i \in 1..n PROVE SubSeq(E, 1, i - 1) \in Seq(Events)
    OBVIOUS
  <2>1. i - 1 \in Int /\ \A j \in 1..i - 1 : E[j] \in Events
    BY <1>1, <1>2
  <2> QED
    BY <2>1, SubSeqProperties
<1>4. ASSUME NEW i \in 1..n
      PROVE  Chained(i, SubSeq(E, 1, i - 1), f[i].event) \in Line
  <2>1. i \in Nat /\ SubSeq(E, 1, i - 1) \in Seq(Events) /\ f[i].event \in Events
    BY <1>1, <1>3
  <2> QED
    BY <2>1, ChainedType
<1>5. g \in Seq(Line)
  BY <1>1, <1>4, IsASeq DEF Migrated
<1>6. Len(g) = n /\ \A i \in 1..n : g[i] = Chained(i, SubSeq(E, 1, i - 1), f[i].event)
  BY <1>1, <1>5, LenProperties DEF Migrated
<1>7. \A i \in 1..n : i # 1 => SubSeq(E, 1, i - 1) = g[i - 1].hash
  <2> SUFFICES ASSUME NEW i \in 1..n, i # 1
               PROVE  SubSeq(E, 1, i - 1) = g[i - 1].hash
    OBVIOUS
  <2>1. i - 1 \in 1..Len(E)
    BY <1>1, <1>2
  <2>2. SubSeq(E, 1, i - 1) = SubSeq(E, 1, i - 1 - 1) \o <<E[i - 1]>>
    BY <1>2, <2>1, SubSeqRecursiveSecond
  <2>3. SubSeq(E, 1, i - 1 - 1) \in Seq(Events) /\ E[i - 1] = f[i - 1].event
        /\ E[i - 1] \in Events
    BY <1>1, <1>2, <1>3, <2>1
  <2>4. SubSeq(E, 1, i - 1) = Append(SubSeq(E, 1, i - 1 - 1), f[i - 1].event)
    BY <2>2, <2>3, AppendIsConcat
  <2>5. g[i - 1].hash = Append(SubSeq(E, 1, i - 1 - 1), f[i - 1].event)
    <3>1. g[i - 1] = Chained(i - 1, SubSeq(E, 1, i - 1 - 1), f[i - 1].event)
      BY <1>2, <1>6, <2>1
    <3> QED
      BY <3>1 DEF Chained, Digest
  <2> QED
    BY <2>4, <2>5
<1>8. n > 0 => SubSeq(E, 1, 1 - 1) = Genesis
  BY SubSeqEmpty DEF Genesis
<1> HIDE DEF n, E, g
<1>9. ASSUME NEW i \in 1..n
      PROVE  Linked(g, i)
  <2>1. /\ g[i].kind = "chained" /\ g[i].seq = i
        /\ g[i].prev = SubSeq(E, 1, i - 1) /\ g[i].hash = Digest(g[i].prev, f[i].event)
        /\ g[i].event = f[i].event
    <3>1. g[i] = Chained(i, SubSeq(E, 1, i - 1), f[i].event)
      BY <1>6, <1>9
    <3> QED
      BY <3>1 DEF Chained
  <2>2. g[i].prev = IF i = 1 THEN Genesis ELSE g[i - 1].hash
    BY <1>1, <1>7, <1>8, <1>9, <2>1
  <2> QED
    BY <2>1, <2>2 DEF Linked
<1> QED
  BY <1>5, <1>6, <1>9 DEF IsChain, g

-----------------------------------------------------------------------------
(* The inductive invariant. *)

(* A step that touches neither the file nor a writer past its check keeps  *)
(* IInv once it keeps the types and the locks.                             *)
LEMMA QuietStep ==
  ASSUME IInv, TypeOK', OneWriter', UNCHANGED <<shared, torn>>,
         \A u \in Threads : pc'[u] = "finish" <=> pc[u] = "finish",
         \A u \in Threads : pc'[u] \in {"write", "finish", "replace"} =>
            pc'[u] = pc[u] /\ op'[u] = op[u] /\ line'[u] = line[u],
         \A u \in Threads : pc'[u] = "lock" => rlock'[ProcessOf[u]] = u
  PROVE  IInv'
<1>1. file' = file /\ eol' = eol /\ temp' = temp /\ torn' = torn
  BY DEF shared
<1>2. NoMixing' /\ DamageNeedsFault' /\ (eol' \/ file' # << >>)
  BY <1>1 DEF IInv, NoMixing, DamageNeedsFault, Damaged
<1>3. \A u \in Threads : WriterInv(u)'
  BY <1>1 DEF IInv, WriterInv
<1> QED
  BY <1>2, <1>3 DEF IInv

LEMMA InitIInv == Init => IInv
<1> SUFFICES ASSUME Init PROVE IInv
  OBVIOUS
<1>1. file \in Seq(Line) /\ Valid(file) /\ EventsOf(file) \in Seq(Events)
  <2>1. CASE file = << >>
    BY <2>1, EmptySeq DEF Valid, IsChain, EventsOf
  <2>2. ASSUME NEW e \in Events, file = <<Legacy(e)>>
        PROVE  file \in Seq(Line) /\ Valid(file) /\ EventsOf(file) \in Seq(Events)
    <3>1. file \in Seq(Line) /\ Len(file) = 1 /\ file[1] = Legacy(e)
      BY <2>2, LegacyType
    <3>2. EventsOf(file) \in Seq(Events)
      BY <3>1, IsASeq DEF EventsOf, Legacy
    <3> QED
      BY <3>1, <3>2 DEF Valid, IsLegacy, Legacy
  <2> QED
    BY <2>1, <2>2 DEF Init
<1>2. TypeOK
  BY <1>1, EmptySeq, JunkType DEF Init, TypeOK, PCs
<1>3. ~Mixed(file)
  BY <1>1, ValidNotMixed
<1>4. OneWriter /\ NoMixing /\ DamageNeedsFault /\ \A t \in Threads : WriterInv(t)
  BY <1>1, <1>3 DEF Init, OneWriter, Holding, NoMixing, DamageNeedsFault, Damaged, WriterInv
<1> QED
  BY <1>2, <1>4 DEF IInv, Init

(* The steps that only move a thread or a lock. *)
LEMMA LockSteps ==
  ASSUME IInv, NEW t \in Threads,
         \/ \E e \in Events \cup {NoEvent} : Call(t, e)
         \/ TakeThreadLock(t) \/ TakeProcessLock(t) \/ LockTimeout(t)
         \/ RefuseAppend(t) \/ SkipMigrate(t) \/ RefuseMigrate(t) \/ Release(t)
  PROVE  IInv'
<1> USE DEF Goto, Holding
<1> ProcessOf \in [Threads -> Processes] /\ NoThread \notin Threads
  BY ConstantsAssumption
<1>1. CASE \E e \in Events \cup {NoEvent} : Call(t, e)
  <2>1. TypeOK' BY <1>1 DEF IInv, TypeOK, Call, PCs, shared, locks, ghosts
  <2>2. OneWriter' BY <1>1 DEF IInv, TypeOK, OneWriter, Call, locks
  <2>3. \A u \in Threads : pc'[u] = "lock" => rlock'[ProcessOf[u]] = u
    BY <1>1 DEF IInv, TypeOK, WriterInv, Call, locks
  <2> QED BY <1>1, <2>1, <2>2, <2>3, QuietStep DEF Call, ghosts, IInv, TypeOK
<1>2. CASE TakeThreadLock(t)
  <2>1. TypeOK' BY <1>2 DEF IInv, TypeOK, TakeThreadLock, PCs, shared, ghosts
  <2>2. OneWriter' BY <1>2 DEF IInv, TypeOK, OneWriter, TakeThreadLock
  <2>3. \A u \in Threads : pc'[u] = "lock" => rlock'[ProcessOf[u]] = u
    BY <1>2 DEF IInv, TypeOK, WriterInv, TakeThreadLock
  <2> QED BY <1>2, <2>1, <2>2, <2>3, QuietStep DEF TakeThreadLock, ghosts, IInv, TypeOK
<1>3. CASE TakeProcessLock(t)
  <2>1. TypeOK' BY <1>3 DEF IInv, TypeOK, TakeProcessLock, PCs, shared, ghosts
  <2>2. OneWriter' BY <1>3 DEF IInv, TypeOK, OneWriter, WriterInv, TakeProcessLock
  <2>3. \A u \in Threads : pc'[u] = "lock" => rlock'[ProcessOf[u]] = u
    BY <1>3 DEF IInv, TypeOK, WriterInv, TakeProcessLock
  <2> QED BY <1>3, <2>1, <2>2, <2>3, QuietStep DEF TakeProcessLock, ghosts, IInv, TypeOK
<1>4. CASE LockTimeout(t)
  <2>1. TypeOK' BY <1>4 DEF IInv, TypeOK, LockTimeout, PCs, shared, ghosts
  <2>2. OneWriter' BY <1>4 DEF IInv, TypeOK, OneWriter, WriterInv, LockTimeout
  <2>3. \A u \in Threads : pc'[u] = "lock" => rlock'[ProcessOf[u]] = u
    BY <1>4 DEF IInv, TypeOK, WriterInv, LockTimeout
  <2> QED BY <1>4, <2>1, <2>2, <2>3, QuietStep DEF LockTimeout, ghosts, IInv, TypeOK
<1>5. CASE RefuseAppend(t) \/ SkipMigrate(t) \/ RefuseMigrate(t)
  <2> USE DEF RefuseAppend, SkipMigrate, RefuseMigrate
  <2>1. TypeOK' BY <1>5 DEF IInv, TypeOK, PCs, shared, locks, ghosts
  <2>2. OneWriter' BY <1>5 DEF IInv, TypeOK, OneWriter, locks
  <2>3. \A u \in Threads : pc'[u] = "lock" => rlock'[ProcessOf[u]] = u
    BY <1>5 DEF IInv, TypeOK, WriterInv, locks
  <2> QED BY <1>5, <2>1, <2>2, <2>3, QuietStep DEF ghosts, IInv, TypeOK
<1>6. CASE Release(t)
  <2>1. TypeOK' BY <1>6, JunkType DEF IInv, TypeOK, Release, PCs, shared, ghosts
  <2>2. OneWriter' BY <1>6 DEF IInv, TypeOK, OneWriter, Release
  <2>3. \A u \in Threads : pc'[u] = "lock" => rlock'[ProcessOf[u]] = u
    BY <1>6 DEF IInv, TypeOK, OneWriter, WriterInv, Release
  <2> QED BY <1>6, <2>1, <2>2, <2>3, QuietStep DEF Release, ghosts, IInv, TypeOK
<1> QED
  BY <1>1, <1>2, <1>3, <1>4, <1>5, <1>6

(* The thread in the critical section is alone there. *)
LEMMA Alone ==
  ASSUME IInv, NEW t \in Threads, pc[t] \in Holding, NEW u \in Threads, u # t
  PROVE  pc[u] \notin Holding
  BY DEF IInv, OneWriter

(* The steps that act on a stream just verified. *)
LEMMA CheckSteps ==
  ASSUME IInv, NEW t \in Threads, CheckAppend(t) \/ CheckMigrate(t)
  PROVE  IInv'
<1> USE DEF Goto, Holding
<1>1. CASE CheckAppend(t)
  <2>1. NextLine(file, op[t]) \in Line /\ op[t] \in Events /\ Valid(file)
    BY <1>1, NextLineType DEF CheckAppend, CanAppend, IInv, TypeOK
  <2>2. TypeOK' BY <1>1, <2>1 DEF IInv, TypeOK, CheckAppend, PCs, shared, locks, ghosts
  <2>3. OneWriter' BY <1>1 DEF IInv, TypeOK, OneWriter, CheckAppend, locks
  <2>4. NoMixing' /\ DamageNeedsFault' /\ (eol' \/ file' # << >>)
    BY <1>1, <2>1 DEF IInv, NoMixing, DamageNeedsFault, Damaged, CheckAppend, shared, ghosts
  <2>5. ASSUME NEW u \in Threads PROVE WriterInv(u)'
    <3>1. CASE u = t
      BY <1>1, <2>1, <3>1 DEF IInv, TypeOK, WriterInv, CheckAppend, shared, locks
    <3>2. CASE u # t
      BY <1>1, <3>2, Alone DEF IInv, TypeOK, WriterInv, CheckAppend, shared, locks
    <3> QED BY <3>1, <3>2
  <2> QED BY <2>2, <2>3, <2>4, <2>5 DEF IInv
<1>2. CASE CheckMigrate(t)
  <2>1. Migrated(file) \in Seq(Line)
    BY <1>2, MigratedIsChain DEF CheckMigrate, IInv, TypeOK
  <2>2. TypeOK' BY <1>2, <2>1 DEF IInv, TypeOK, CheckMigrate, PCs, locks, ghosts
  <2>3. OneWriter' BY <1>2 DEF IInv, TypeOK, OneWriter, CheckMigrate, locks
  <2>4. NoMixing' /\ DamageNeedsFault' /\ (eol' \/ file' # << >>)
    BY <1>2 DEF IInv, TypeOK, NoMixing, DamageNeedsFault, Damaged, CheckMigrate, ghosts
  <2>5. ASSUME NEW u \in Threads PROVE WriterInv(u)'
    <3>1. CASE u = t
      BY <1>2, <3>1 DEF IInv, TypeOK, WriterInv, CheckMigrate, locks
    <3>2. CASE u # t
      BY <1>2, <3>2, Alone DEF IInv, TypeOK, WriterInv, CheckMigrate, locks
    <3> QED BY <3>1, <3>2
  <2> QED BY <2>2, <2>3, <2>4, <2>5 DEF IInv
<1> QED
  BY <1>1, <1>2

(* What the pieces of a write leave in the file. *)
LEMMA BeginWriteKeepsInv ==
  ASSUME IInv, NEW t \in Threads, NEW cut \in {"part", "whole"}, BeginWrite(t, cut)
  PROVE  IInv'
<1> USE DEF Goto, Holding
<1>1. /\ pc[t] = "write" /\ op[t] \in Events /\ Valid(file)
      /\ line[t] = NextLine(file, op[t]) /\ line[t] \in Line /\ file \in Seq(Line)
  BY DEF BeginWrite, IInv, WriterInv, TypeOK
<1>2. /\ file' \in Seq(Line) /\ file' # << >> /\ line'[t] \in Line
      /\ ~Mixed(file') /\ ~Mixed(Append(Front(file'), line'[t]))
      /\ torn' \/ Valid(Append(Front(file'), line'[t]))
  <2>1. CASE eol
    <3> DEFINE x == IF cut = "whole" THEN line[t] ELSE Junk
    <3>1. file' = Append(file, x) /\ line' = line /\ x \in Line
      BY <1>1, <2>1, JunkType DEF BeginWrite
    <3>2. Front(file') = file /\ file' \in Seq(Line) /\ file' # << >>
      BY <1>1, <3>1, FrontOfAppend, AppendProperties
    <3>3. Valid(Append(file, line[t])) /\ ~Mixed(Append(file, line[t]))
      BY <1>1, AppendKeepsValid, ValidNotMixed
    <3>4. ~Mixed(Append(file, Junk))
      BY <1>1, JunkKeepsFormat, ValidNotMixed
    <3> QED BY <1>1, <3>1, <3>2, <3>3, <3>4
  <2>2. CASE ~eol
    <3>1. /\ file' = Append(Front(file), Junk) /\ torn' = TRUE
          /\ line' = [line EXCEPT ![t] = Junk]
      BY <2>2 DEF BeginWrite
    <3>2. line'[t] = Junk
      BY <3>1 DEF IInv, TypeOK
    <3>3. Front(file) \in Seq(Line) /\ ~Mixed(Front(file))
      BY <1>1, <2>2, FrontFacts, FrontKeepsFormat DEF IInv, NoMixing
    <3>4. Front(file') = Front(file) /\ file' \in Seq(Line) /\ file' # << >>
      BY <3>1, <3>3, JunkType, FrontOfAppend, AppendProperties
    <3>5. ~Mixed(Append(Front(file), Junk))
      BY <3>3, JunkKeepsFormat
    <3> QED BY <3>1, <3>2, <3>4, <3>5, JunkType
  <2> QED BY <2>1, <2>2
<1>3. /\ Append(history, op[t]) \in Seq(Events)
  BY <1>1, AppendProperties DEF IInv, TypeOK
<1>4. TypeOK'
  <2>1. line' \in [Threads -> Line]
    BY <1>2, JunkType DEF BeginWrite, IInv, TypeOK
  <2> QED BY <1>2, <1>3, <2>1 DEF BeginWrite, IInv, TypeOK, PCs, locks
<1>5. OneWriter' BY DEF BeginWrite, IInv, TypeOK, OneWriter, locks
<1>6. NoMixing' /\ (eol' \/ file' # << >>) BY <1>2 DEF NoMixing
<1>7. DamageNeedsFault' BY DEF BeginWrite, DamageNeedsFault, Damaged, IInv, TypeOK
<1>8. ASSUME NEW u \in Threads PROVE WriterInv(u)'
  <2>1. CASE u = t
    BY <1>1, <1>2, <2>1 DEF BeginWrite, IInv, TypeOK, WriterInv, locks
  <2>2. CASE u # t
    BY <1>1, <2>2, Alone DEF BeginWrite, IInv, TypeOK, WriterInv, locks
  <2> QED BY <2>1, <2>2
<1> QED BY <1>4, <1>5, <1>6, <1>7, <1>8 DEF IInv

LEMMA EndSteps ==
  ASSUME IInv, NEW t \in Threads, EndWrite(t) \/ ReplaceFile(t)
  PROVE  IInv'
<1> USE DEF Goto, Holding
<1>1. CASE EndWrite(t)
  <2>1. /\ file # << >> /\ op[t] \in Events /\ ~Mixed(file')
        /\ (torn \/ Valid(file')) /\ file' = Append(Front(file), line[t])
    BY <1>1 DEF EndWrite, IInv, WriterInv
  <2>2. file' \in Seq(Line)
    <3>1. line[t] \in Line /\ file \in Seq(Line)
      BY DEF IInv, TypeOK
    <3>2. Front(file) \in Seq(Line)
      BY <2>1, <3>1, FrontFacts
    <3> QED BY <2>1, <3>1, <3>2, AppendProperties
  <2>3. TypeOK' BY <1>1, <2>2 DEF EndWrite, IInv, TypeOK, PCs, locks
  <2>4. OneWriter' BY <1>1 DEF EndWrite, IInv, TypeOK, OneWriter, locks
  <2>5. NoMixing' /\ DamageNeedsFault' /\ (eol' \/ file' # << >>)
    BY <1>1, <2>1 DEF EndWrite, NoMixing, DamageNeedsFault, Damaged
  <2>6. ASSUME NEW u \in Threads PROVE WriterInv(u)'
    <3>1. CASE u = t
      BY <1>1, <3>1 DEF EndWrite, IInv, TypeOK, WriterInv, locks
    <3>2. CASE u # t
      BY <1>1, <3>2, Alone DEF EndWrite, IInv, TypeOK, WriterInv, locks
    <3> QED BY <3>1, <3>2
  <2> QED BY <2>3, <2>4, <2>5, <2>6 DEF IInv
<1>2. CASE ReplaceFile(t)
  <2>1. file' \in Seq(Line) /\ Valid(file') /\ ~Mixed(file')
    <3>1. IsLegacy(file) /\ file' = Migrated(file)
      BY <1>2 DEF ReplaceFile, IInv, WriterInv
    <3>2. file' \in Seq(Line) /\ Valid(file')
      BY <3>1, MigratedIsChain DEF IInv, TypeOK, Valid
    <3> QED BY <3>2, ValidNotMixed
  <2>2. TypeOK' BY <1>2, <2>1 DEF ReplaceFile, IInv, TypeOK, PCs, locks, ghosts
  <2>3. OneWriter' BY <1>2 DEF ReplaceFile, IInv, TypeOK, OneWriter, locks
  <2>4. NoMixing' /\ DamageNeedsFault' /\ (eol' \/ file' # << >>)
    BY <1>2, <2>1 DEF ReplaceFile, NoMixing, DamageNeedsFault, Damaged
  <2>5. ASSUME NEW u \in Threads PROVE WriterInv(u)'
    <3>1. CASE u = t
      BY <1>2, <3>1 DEF ReplaceFile, IInv, TypeOK, WriterInv, locks
    <3>2. CASE u # t
      BY <1>2, <3>2, Alone DEF ReplaceFile, IInv, TypeOK, WriterInv, locks
    <3> QED BY <3>1, <3>2
  <2> QED BY <2>2, <2>3, <2>4, <2>5 DEF IInv
<1> QED
  BY <1>1, <1>2

(* A failed write and the death of a process. *)
LEMMA FaultSteps ==
  ASSUME IInv, (\E t \in Threads : FailWrite(t)) \/ (\E p \in Processes : Crash(p))
  PROVE  IInv'
<1> USE DEF Goto, Holding
<1>1. ASSUME NEW t \in Threads, FailWrite(t)
      PROVE  IInv'
  <2>1. TypeOK'
    <3>1. torn' \in BOOLEAN
      BY <1>1 DEF FailWrite
    <3>2. pc' = [pc EXCEPT ![t] = "release"]
      BY <1>1 DEF FailWrite
    <3>3. pc' \in [Threads -> PCs]
      BY <3>2 DEF IInv, TypeOK, PCs
    <3>4. /\ UNCHANGED <<file, eol, temp, lock, rlock, op, line, history, calls>>
          /\ faults' = faults + 1
      BY <1>1 DEF FailWrite, shared, locks
    <3> QED BY <3>1, <3>3, <3>4 DEF IInv, TypeOK
  <2>2. OneWriter' BY <1>1 DEF FailWrite, IInv, TypeOK, OneWriter, locks
  <2>3. NoMixing' /\ (eol' \/ file' # << >>) BY <1>1 DEF FailWrite, IInv, NoMixing, shared
  <2>4. DamageNeedsFault'
    BY <1>1 DEF FailWrite, IInv, TypeOK, DamageNeedsFault, Damaged, shared
  <2>5. ASSUME NEW u \in Threads PROVE WriterInv(u)'
    <3>1. CASE u = t
      BY <1>1, <3>1 DEF FailWrite, IInv, TypeOK, WriterInv, shared, locks
    <3>2. CASE u # t
      BY <1>1, <3>2, Alone DEF FailWrite, IInv, TypeOK, WriterInv, shared, locks
    <3> QED BY <3>1, <3>2
  <2> QED BY <2>1, <2>2, <2>3, <2>4, <2>5 DEF IInv
<1>2. ASSUME NEW p \in Processes, Crash(p)
      PROVE  IInv'
  <2>0. ProcessOf \in [Threads -> Processes] /\ NoThread \notin Threads
    BY ConstantsAssumption
  <2>1. TypeOK' BY <1>2, JunkType DEF Crash, IInv, TypeOK, PCs, shared
  <2>2. OneWriter' BY <1>2, <2>0 DEF Crash, IInv, TypeOK, OneWriter
  <2>3. NoMixing' /\ (eol' \/ file' # << >>) BY <1>2 DEF Crash, IInv, NoMixing, shared
  <2>4. DamageNeedsFault'
    BY <1>2, <2>0 DEF Crash, IInv, TypeOK, DamageNeedsFault, Damaged, shared
  <2>5. ASSUME NEW u \in Threads PROVE WriterInv(u)'
    BY <1>2, <2>0 DEF Crash, IInv, TypeOK, WriterInv, shared
  <2> QED BY <2>1, <2>2, <2>3, <2>4, <2>5 DEF IInv
<1> QED
  BY <1>1, <1>2

LEMMA ReadSteps ==
  ASSUME IInv, NEW r \in Readers, BeginRead(r) \/ EndRead(r)
  PROVE  IInv'
<1>1. UNCHANGED <<file, eol, temp, lock, rlock, pc, op, line, history, torn, calls, faults>>
  BY DEF BeginRead, EndRead, shared, locks, writers, ghosts
<1> QED
  BY <1>1 DEF IInv, TypeOK, OneWriter, NoMixing, DamageNeedsFault, Damaged, WriterInv

LEMMA NextIInv == IInv /\ [Next]_vars => IInv'
<1> SUFFICES ASSUME IInv, [Next]_vars PROVE IInv'
  OBVIOUS
<1>1. CASE UNCHANGED vars
  BY <1>1 DEF vars, shared, locks, writers, ghosts, IInv, TypeOK, OneWriter, NoMixing,
     DamageNeedsFault, Damaged, WriterInv
<1>2. ASSUME NEW t \in Threads, (\E e \in Events \cup {NoEvent} : Call(t, e)) \/ Step(t)
      PROVE  IInv'
  BY <1>2, LockSteps, CheckSteps, BeginWriteKeepsInv, EndSteps DEF Step
<1> QED
  BY <1>1, <1>2, FaultSteps, ReadSteps DEF Next

THEOREM Invariance == Spec => []IInv
  BY InitIInv, NextIInv, PTL DEF Spec

-----------------------------------------------------------------------------
(* The properties. *)

(* Every variable of the stream and its writers keeps its type. *)
THEOREM TypeCorrect == Spec => []TypeOK
<1>1. IInv => TypeOK
  BY DEF IInv
<1> QED
  BY <1>1, Invariance, PTL

(* Verify, hash and write of one call exclude those of any other, for      *)
(* both lock backends and whatever processes die: see OneWriter.           *)
THEOREM WritersExcluded == Spec => []OneWriter
<1>1. IInv => OneWriter
  BY DEF IInv
<1> QED
  BY <1>1, Invariance, PTL

(* append() and migrate_legacy_to_chain() never mix the two formats. *)
THEOREM FormatsNeverMix == Spec => []NoMixing
<1>1. IInv => NoMixing
  BY DEF IInv
<1> QED
  BY <1>1, Invariance, PTL

(* Without a cut-short write the stream always verifies. *)
THEOREM WritersKeepIntegrity == Spec => []DamageNeedsFault
<1>1. IInv => DamageNeedsFault
  BY DEF IInv
<1> QED
  BY <1>1, Invariance, PTL

(* The three together: writers alone never harm the stream.                *)
THEOREM WritersStayApart == Spec => []WritersApart
<1>1. IInv => WritersApart
  BY DEF IInv, WritersApart
<1> QED
  BY <1>1, Invariance, PTL

-----------------------------------------------------------------------------
(* The content of the file: files that are valid but for one last line.    *)

LEMMA FrontAndLast ==
  ASSUME NEW S, NEW s \in Seq(S), s # << >>
  PROVE  s = Append(Front(s), Last(s))
<1>1. PICK r \in Seq(S), e \in S : s = Append(r, e)
  BY SequenceEmptyOrAppend
<1>2. Front(s) = r
  BY <1>1, FrontOfAppend
<1>3. Len(s) = Len(r) + 1 /\ s[Len(r) + 1] = e
  BY <1>1, AppendProperties
<1>4. Last(s) = e
  BY <1>3 DEF Last
<1> QED
  BY <1>1, <1>2, <1>4

LEMMA NotJunk ==
  ASSUME NEW f, Valid(f), NEW i \in 1..Len(f)
  PROVE  f[i] # Junk
  BY DEF Valid, IsChain, IsLegacy, Linked, Junk

LEMMA JunkKind ==
  ASSUME NEW l \in Line
  PROVE  l.kind = "junk" <=> l = Junk
  BY DEF Line, Junk

(* A line is linked to what precedes it, whatever follows. *)
LEMMA LinkedInFront ==
  ASSUME NEW f \in Seq(Line), f # << >>, NEW i \in 1..Len(f) - 1
  PROVE  Linked(Front(f), i) <=> Linked(f, i)
<1>1. /\ Len(f) \in Nat /\ Front(f)[i] = f[i]
      /\ i # 1 => Front(f)[i - 1] = f[i - 1]
  BY FrontFacts
<1> QED
  BY <1>1 DEF Linked

LEMMA ValidFront ==
  ASSUME NEW f \in Seq(Line), f # << >>, Valid(f)
  PROVE  Valid(Front(f))
<1>1. /\ Len(Front(f)) = Len(f) - 1 /\ Len(f) \in Nat \ {0}
      /\ \A i \in 1..Len(f) - 1 : Front(f)[i] = f[i]
  BY FrontFacts
<1>2. CASE IsLegacy(f)
  BY <1>1, <1>2 DEF Valid, IsLegacy
<1>3. CASE IsChain(f)
  BY <1>1, <1>3, LinkedInFront DEF Valid, IsChain
<1> QED
  BY <1>2, <1>3 DEF Valid

(* The verified lines of a chain are the longest linked prefix. *)
LEMMA ChainLengthIs ==
  ASSUME NEW f \in Seq(Line), NEW n \in 0..Len(f),
         \A i \in 1..n : Linked(f, i), n < Len(f) => ~Linked(f, n + 1)
  PROVE  ChainLength(f) = n
<1> DEFINE P(m) == /\ \A i \in 1..m : Linked(f, i)
                   /\ m < Len(f) => ~Linked(f, m + 1)
<1>1. Len(f) \in Nat
  BY LenProperties
<1>2. ASSUME NEW m \in 0..Len(f), P(m) PROVE m = n
  <2>1. ~(m < n) BY <1>1, <1>2
  <2>2. ~(n < m) BY <1>1, <1>2
  <2> QED BY <1>1, <2>1, <2>2
<1>3. P(n) /\ ChainLength(f) = CHOOSE m \in 0..Len(f) : P(m)
  BY DEF ChainLength
<1> HIDE DEF P
<1> QED
  BY <1>2, <1>3

(* The first line of another kind, in a legacy file with a junk end. *)
LEMMA TurnIsLast ==
  ASSUME NEW f \in Seq(Line), f # << >>, Last(f) = Junk, IsLegacy(Front(f))
  PROVE  SelectInSeq(f, LAMBDA l : l.kind # "legacy") = Len(f)
<1>1. /\ Len(Front(f)) = Len(f) - 1 /\ Len(f) \in Nat \ {0}
      /\ \A i \in 1..Len(f) - 1 : Front(f)[i] = f[i]
  BY FrontFacts
<1>2. f[Len(f)].kind = "junk"
  BY DEF Last, Junk
<1>3. {i \in 1..Len(f) : f[i].kind # "legacy"} = {Len(f)}
  BY <1>1, <1>2 DEF IsLegacy
<1>4. Min({Len(f)}) = Len(f)
  BY <1>1 DEF Min
<1> QED
  BY <1>3, <1>4 DEF SelectInSeq

LEMMA NoTurn ==
  ASSUME NEW f, IsLegacy(f)
  PROVE  SelectInSeq(f, LAMBDA l : l.kind # "legacy") = 0
  BY DEF SelectInSeq, IsLegacy

LEMMA EventsOfType ==
  ASSUME NEW f \in Seq(Line), Valid(f)
  PROVE  /\ EventsOf(f) \in Seq(Events) /\ Len(EventsOf(f)) = Len(f)
         /\ \A i \in 1..Len(f) : EventsOf(f)[i] = f[i].event
<1>1. Len(f) \in Nat /\ \A i \in 1..Len(f) : f[i].event \in Events
  <2>1. \A i \in 1..Len(f) : f[i] \in Line /\ f[i] # Junk
    BY ElementOfSeq, NotJunk
  <2> QED BY <2>1, LenProperties DEF Line
<1>2. EventsOf(f) \in Seq(Events)
  BY <1>1, IsASeq DEF EventsOf
<1> QED
  BY <1>1, <1>2, LenProperties DEF EventsOf

(* Of a valid file every terminated record is durable. *)
LEMMA DurableOfValid ==
  ASSUME NEW f \in Seq(Line), Valid(f)
  PROVE  /\ Durable(f, TRUE) = EventsOf(f)
         /\ f # << >> => Durable(f, FALSE) = EventsOf(Front(f))
<1> DEFINE turn == SelectInSeq(f, LAMBDA l : l.kind # "legacy")
           n == IF f # << >> /\ f[1].kind = "legacy"
                  THEN IF turn = 0 THEN Len(f) ELSE turn - 1
                  ELSE ChainLength(f)
<1>1. Len(f) \in Nat
  BY LenProperties
<1>2. n = Len(f)
  <2>1. CASE f # << >> /\ f[1].kind = "legacy"
    <3>1. 1 \in 1..Len(f)
      BY <1>1, <2>1, EmptySeq
    <3>2. IsLegacy(f)
      BY <2>1, <3>1 DEF Valid, IsChain, Linked
    <3> QED BY <2>1, <3>2, NoTurn
  <2>2. CASE ~(f # << >> /\ f[1].kind = "legacy")
    <3>1. IsChain(f)
      <4>1. CASE f = << >>
        BY <4>1, EmptySeq DEF IsChain
      <4>2. CASE f # << >>
        <5>1. 1 \in 1..Len(f)
          BY <1>1, <4>2, EmptySeq
        <5> QED BY <2>2, <4>2, <5>1 DEF Valid, IsLegacy
      <4> QED BY <4>1, <4>2
    <3>2. ChainLength(f) = Len(f)
      BY <1>1, <3>1, ChainLengthIs DEF IsChain
    <3> QED BY <2>2, <3>2
  <2> QED BY <2>1, <2>2
<1>3. \A b \in BOOLEAN : Durable(f, b) = EventsOf(SubSeq(f, 1, IF n = Len(f) /\ ~b THEN n - 1 ELSE n))
  BY DEF Durable
<1> HIDE DEF n
<1>4. SubSeq(f, 1, Len(f)) = f
  BY SubSeqFull
<1> QED
  BY <1>2, <1>3, <1>4 DEF Front

(* Of a file with a junk last line, all but that line. *)
LEMMA DurableOfTorn ==
  ASSUME NEW f \in Seq(Line), f # << >>, Valid(Front(f)), Last(f) = Junk, NEW b \in BOOLEAN
  PROVE  Durable(f, b) = EventsOf(Front(f))
<1> DEFINE turn == SelectInSeq(f, LAMBDA l : l.kind # "legacy")
           n == IF f # << >> /\ f[1].kind = "legacy"
                  THEN IF turn = 0 THEN Len(f) ELSE turn - 1
                  ELSE ChainLength(f)
<1>1. /\ Len(Front(f)) = Len(f) - 1 /\ Len(f) \in Nat \ {0}
      /\ \A i \in 1..Len(f) - 1 : Front(f)[i] = f[i]
  BY FrontFacts
<1>2. f[Len(f)].kind = "junk"
  BY DEF Last, Junk
<1>3. n = Len(f) - 1
  <2>1. CASE f[1].kind = "legacy"
    <3>1. 1 \in 1..Len(f) - 1
      BY <1>1, <1>2, <2>1
    <3>2. Front(f)[1].kind = "legacy" /\ 1 \in 1..Len(Front(f))
      BY <1>1, <2>1, <3>1
    <3>3. IsLegacy(Front(f))
      BY <3>2 DEF Valid, IsChain, Linked
    <3>4. turn = Len(f)
      BY <3>3, TurnIsLast
    <3> QED BY <1>1, <2>1, <3>4
  <2>2. CASE f[1].kind # "legacy"
    <3>1. \A i \in 1..Len(f) - 1 : Linked(f, i)
      <4>1. CASE Len(f) = 1
        BY <4>1
      <4>2. CASE Len(f) # 1
        <5>1. 1 \in 1..Len(Front(f)) /\ Front(f)[1].kind # "legacy"
          BY <1>1, <2>2, <4>2
        <5>2. IsChain(Front(f))
          BY <5>1 DEF Valid, IsLegacy
        <5> QED BY <1>1, <5>2, LinkedInFront DEF IsChain
      <4> QED BY <4>1, <4>2
    <3>2. ~Linked(f, Len(f))
      BY <1>2 DEF Linked
    <3>3. Len(f) - 1 \in 0..Len(f) /\ Len(f) - 1 + 1 = Len(f)
      BY <1>1
    <3>4. ChainLength(f) = Len(f) - 1
      BY <3>1, <3>2, <3>3, ChainLengthIs
    <3> QED BY <2>2, <3>4
  <2> QED BY <2>1, <2>2
<1>4. Durable(f, b) = EventsOf(SubSeq(f, 1, IF n = Len(f) /\ ~b THEN n - 1 ELSE n))
  BY DEF Durable
<1> HIDE DEF n
<1> QED
  BY <1>1, <1>3, <1>4 DEF Front

-----------------------------------------------------------------------------
(* The file and the history of the writes.                                 *)

LEMMA InitHistory == Init => HistoryInv
<1> SUFFICES ASSUME Init PROVE HistoryInv
  OBVIOUS
<1>1. IInv
  BY InitIInv
<1>2. file \in Seq(Line) /\ Valid(file)
  <2>1. CASE file = << >>
    BY <1>1, <2>1, EmptySeq DEF IInv, TypeOK, Valid, IsChain
  <2>2. ASSUME NEW e \in Events, file = <<Legacy(e)>> PROVE file \in Seq(Line) /\ Valid(file)
    <3>1. Len(file) = 1 /\ file[1] = Legacy(e)
      BY <2>2
    <3> QED BY <1>1, <3>1 DEF IInv, TypeOK, Valid, IsLegacy, Legacy
  <2> QED BY <2>1, <2>2 DEF Init
<1>3. /\ history = EventsOf(file) /\ Len(history) = Len(file)
      /\ \A i \in 1..Len(file) : history[i] = file[i].event
  BY <1>2, EventsOfType DEF Init
<1>4. Len(file) \in Nat /\ Len(file) <= 1
  <2>1. CASE file = << >>
    BY <2>1, EmptySeq
  <2>2. ASSUME NEW e \in Events, file = <<Legacy(e)>> PROVE Len(file) \in Nat /\ Len(file) <= 1
    BY <2>2
  <2> QED BY <2>1, <2>2 DEF Init
<1>5. Waiting = {} /\ calls = 0 /\ \A t \in Threads : Ending(t)
  BY DEF Init, Waiting, Ending
<1>6. MaxCalls \in Nat
  BY ConstantsAssumption
<1> QED
  BY <1>2, <1>3, <1>4, <1>5, <1>6, ValidFront, FS_EmptySet DEF HistoryInv

(* Steps that leave the file and the history alone keep HistoryInv if they *)
(* keep the count of the calls that may still begin a write.               *)
LEMMA HistoryQuiet ==
  ASSUME HistoryInv, UNCHANGED <<file, eol, history>>,
         \A u \in Threads : pc'[u] = "finish" =>
            pc[u] = "finish" /\ line'[u] = line[u] /\ op'[u] = op[u],
         \A u \in Threads : pc'[u] = "replace" => pc[u] = "replace" \/ eol,
         IsFiniteSet(Waiting'),
         Len(history) + Cardinality(Waiting') <= calls' + 1, calls' <= MaxCalls
  PROVE  HistoryInv'
<1>1. \A u \in Threads : Ending(u)'
  BY DEF HistoryInv, Ending
<1> QED
  BY <1>1 DEF HistoryInv

(* The same for steps that begin no call. *)
LEMMA FewerWaiting ==
  ASSUME IInv, HistoryInv, calls' = calls, Waiting' \subseteq Waiting
  PROVE  /\ IsFiniteSet(Waiting')
         /\ Len(history) + Cardinality(Waiting') <= calls' + 1 /\ calls' <= MaxCalls
<1>1. IsFiniteSet(Waiting') /\ Cardinality(Waiting') <= Cardinality(Waiting)
  BY FS_Subset DEF HistoryInv
<1>2. /\ Cardinality(Waiting) \in Nat /\ Cardinality(Waiting') \in Nat
      /\ Len(history) \in Nat /\ calls \in Nat
  BY <1>1, FS_CardinalityType, LenProperties DEF HistoryInv, IInv, TypeOK
<1> QED
  BY <1>1, <1>2 DEF HistoryInv

LEMMA CallKeepsHistory ==
  ASSUME IInv, HistoryInv, NEW t \in Threads, NEW e \in Events \cup {NoEvent}, Call(t, e)
  PROVE  HistoryInv'
<1> USE DEF Call, Goto
<1>1. Waiting' = Waiting \cup {t} /\ t \notin Waiting
  BY DEF Waiting, IInv, TypeOK
<1>2. IsFiniteSet(Waiting') /\ Cardinality(Waiting') = Cardinality(Waiting) + 1
  BY <1>1, FS_AddElement DEF HistoryInv
<1>3. Cardinality(Waiting) \in Nat /\ Len(history) \in Nat /\ calls \in Nat /\ MaxCalls \in Nat
  BY FS_CardinalityType, LenProperties, ConstantsAssumption DEF HistoryInv, IInv, TypeOK
<1>4. Len(history) + Cardinality(Waiting') <= calls' + 1 /\ calls' <= MaxCalls
  BY <1>2, <1>3 DEF HistoryInv
<1>5. UNCHANGED <<file, eol, history>>
  BY DEF shared, ghosts
<1>6. \A u \in Threads : u # t => pc'[u] = pc[u] /\ op'[u] = op[u]
  BY DEF IInv, TypeOK
<1>7. pc'[t] = "rlock" /\ line' = line
  BY DEF IInv, TypeOK
<1> QED
  BY <1>2, <1>4, <1>5, <1>6, <1>7, HistoryQuiet

(* Steps of a thread, faults and reads that write nothing. *)
LEMMA MovesKeepHistory ==
  ASSUME IInv, HistoryInv,
         \/ \E t \in Threads : \/ TakeThreadLock(t) \/ TakeProcessLock(t) \/ LockTimeout(t)
                               \/ RefuseAppend(t) \/ SkipMigrate(t) \/ RefuseMigrate(t)
                               \/ CheckAppend(t) \/ CheckMigrate(t)
                               \/ Release(t) \/ FailWrite(t)
         \/ \E p \in Processes : Crash(p)
         \/ \E r \in Readers : BeginRead(r) \/ EndRead(r)
         \/ UNCHANGED vars
  PROVE  HistoryInv'
<1> USE DEF Goto, shared, ghosts, writers
<1>1. UNCHANGED <<file, eol, history, calls>>
  BY DEF TakeThreadLock, TakeProcessLock, LockTimeout, RefuseAppend, SkipMigrate, RefuseMigrate,
     CheckAppend, CheckMigrate, Release, FailWrite, Crash, BeginRead, EndRead, vars
<1>2. ASSUME NEW t \in Threads,
             \/ TakeThreadLock(t) \/ TakeProcessLock(t) \/ LockTimeout(t)
             \/ RefuseAppend(t) \/ SkipMigrate(t) \/ RefuseMigrate(t)
             \/ CheckAppend(t) \/ CheckMigrate(t) \/ Release(t) \/ FailWrite(t)
      PROVE  HistoryInv'
  <2>1. PICK to \in PCs : pc' = [pc EXCEPT ![t] = to]
    BY <1>2 DEF TakeThreadLock, TakeProcessLock, LockTimeout, RefuseAppend, SkipMigrate,
       RefuseMigrate, CheckAppend, CheckMigrate, Release, FailWrite, PCs
  <2>2. /\ to # "finish"
        /\ to \in {"rlock", "lock", "check", "write"} =>
             pc[t] \in {"rlock", "lock", "check", "write"}
        /\ to = "replace" => eol
    BY <1>2, <2>1 DEF TakeThreadLock, TakeProcessLock, LockTimeout, RefuseAppend, SkipMigrate,
       RefuseMigrate, CheckAppend, CheckMigrate, Release, FailWrite, IInv, TypeOK
  <2>3. \A u \in Threads : u # t => pc'[u] = pc[u] /\ op'[u] = op[u] /\ line'[u] = line[u]
    BY <1>2 DEF TakeThreadLock, TakeProcessLock, LockTimeout, RefuseAppend, SkipMigrate,
       RefuseMigrate, CheckAppend, CheckMigrate, Release, FailWrite, IInv, TypeOK
  <2>4. pc'[t] = to
    BY <2>1 DEF IInv, TypeOK
  <2>5. Waiting' \subseteq Waiting
    BY <2>2, <2>3, <2>4 DEF Waiting
  <2>6. /\ \A u \in Threads : pc'[u] = "finish" =>
             pc[u] = "finish" /\ line'[u] = line[u] /\ op'[u] = op[u]
        /\ \A u \in Threads : pc'[u] = "replace" => pc[u] = "replace" \/ eol
    BY <2>2, <2>3, <2>4
  <2> QED
    BY <1>1, <2>5, <2>6, FewerWaiting, HistoryQuiet
<1>3. ASSUME NEW p \in Processes, Crash(p)
      PROVE  HistoryInv'
  <2>1. \A u \in Threads : \/ pc'[u] = pc[u] /\ op'[u] = op[u] /\ line'[u] = line[u]
                           \/ pc'[u] = "idle"
    BY <1>3 DEF Crash
  <2>2. Waiting' \subseteq Waiting
    BY <2>1 DEF Waiting
  <2> QED
    BY <1>1, <2>1, <2>2, FewerWaiting, HistoryQuiet
<1>4. CASE (\E r \in Readers : BeginRead(r) \/ EndRead(r)) \/ UNCHANGED vars
  <2>1. UNCHANGED <<pc, op, line>>
    BY <1>4 DEF BeginRead, EndRead, vars
  <2>2. Waiting' \subseteq Waiting
    BY <2>1 DEF Waiting
  <2> QED
    BY <1>1, <2>1, <2>2, FewerWaiting, HistoryQuiet
<1> QED
  BY <1>2, <1>3, <1>4

(* A write begins after a valid file, of which the history is the content. *)
LEMMA BeginWriteKeepsHistory ==
  ASSUME IInv, HistoryInv, NEW t \in Threads, NEW cut \in {"part", "whole"}, BeginWrite(t, cut)
  PROVE  HistoryInv'
<1> USE DEF Goto
<1>1. /\ pc[t] = "write" /\ op[t] \in Events /\ Valid(file) /\ file \in Seq(Line)
      /\ line[t] = NextLine(file, op[t]) /\ line[t] \in Line
      /\ history \in Seq(Events) /\ pc' = [pc EXCEPT ![t] = "finish"] /\ pc \in [Threads -> PCs]
  BY DEF BeginWrite, IInv, WriterInv, TypeOK
<1>2. /\ history' = Append(history, op[t]) /\ Len(history') = Len(history) + 1
      /\ \A i \in 1..Len(history) : history'[i] = history[i]
      /\ history'[Len(history) + 1] = op[t] /\ Len(history) = Len(file) /\ Len(file) \in Nat
  BY <1>1, AppendProperties, LenProperties DEF BeginWrite, HistoryInv
<1>3. \A i \in 1..Len(file) : file[i].event = history[i]
  BY <1>1, NotJunk DEF HistoryInv
<1>4. /\ file' # << >> /\ Valid(Front(file')) /\ (Last(file') = Junk \/ Valid(file'))
      /\ Len(file') <= Len(history') /\ (Valid(file') => Len(file') = Len(history'))
      /\ \A i \in 1..Len(file') : file'[i] # Junk => file'[i].event = history'[i]
      /\ line'[t] # Junk => /\ line'[t] = NextLine(Front(file'), op'[t])
                            /\ Len(history') = Len(file') /\ history'[Len(file')] = op'[t]
  <2>1. CASE eol
    <3> DEFINE x == IF cut = "whole" THEN line[t] ELSE Junk
    <3>1. file' = Append(file, x) /\ line' = line /\ x \in Line /\ op' = op
      BY <1>1, <2>1, JunkType DEF BeginWrite
    <3>2. /\ Front(file') = file /\ file' # << >> /\ Len(file') = Len(file) + 1
          /\ \A i \in 1..Len(file) : file'[i] = file[i]
          /\ file'[Len(file) + 1] = x
      BY <1>1, <3>1, FrontOfAppend, AppendProperties
    <3>3. Last(file') = x
      BY <3>2 DEF Last
    <3>4. x = Junk \/ (x = line[t] /\ Valid(file'))
      BY <1>1, <3>1, AppendKeepsValid
    <3>5. x # Junk => x.event = op[t]
      BY <1>1 DEF NextLine, Legacy, Chained
    <3> HIDE DEF x
    <3>6. ASSUME NEW i \in 1..Len(file'), file'[i] # Junk PROVE file'[i].event = history'[i]
      <4>1. CASE i \in 1..Len(file)
        BY <1>2, <1>3, <3>2, <4>1
      <4>2. CASE i = Len(file) + 1
        BY <1>2, <3>2, <3>5, <3>6, <4>2
      <4> QED BY <1>2, <3>2, <4>1, <4>2
    <3> QED BY <1>1, <1>2, <3>1, <3>2, <3>3, <3>4, <3>6
  <2>2. CASE ~eol
    <3>1. /\ file' = Append(Front(file), Junk) /\ line' = [line EXCEPT ![t] = Junk]
          /\ file # << >>
      BY <2>2 DEF BeginWrite, IInv
    <3>2. line'[t] = Junk
      BY <3>1 DEF IInv, TypeOK
    <3>3. /\ Front(file) \in Seq(Line) /\ Valid(Front(file)) /\ Len(Front(file)) = Len(file) - 1
          /\ \A i \in 1..Len(file) - 1 : Front(file)[i] = file[i]
      BY <1>1, <3>1, FrontFacts, ValidFront
    <3>4. /\ Front(file') = Front(file) /\ file' # << >> /\ Len(file') = Len(file)
          /\ \A i \in 1..Len(file) - 1 : file'[i] = file[i]
          /\ file'[Len(file)] = Junk
      BY <1>2, <3>1, <3>3, JunkType, FrontOfAppend, AppendProperties
    <3>5. Last(file') = Junk
      BY <3>4 DEF Last
    <3>6. ~Valid(file')
      <4>1. Len(file') \in 1..Len(file')
        BY <1>1, <1>2, <3>1, <3>4, EmptySeq
      <4> QED BY <3>4, <4>1, NotJunk
    <3>7. ASSUME NEW i \in 1..Len(file'), file'[i] # Junk PROVE file'[i].event = history'[i]
      <4>1. i \in 1..Len(file) - 1
        BY <1>2, <3>4, <3>7
      <4> QED BY <1>2, <1>3, <3>4, <4>1
    <3> QED BY <1>2, <3>2, <3>3, <3>4, <3>5, <3>6, <3>7
  <2> QED BY <2>1, <2>2
<1>5. ASSUME NEW u \in Threads PROVE Ending(u)'
  <2>1. CASE u = t
    BY <1>1, <1>4, <2>1 DEF Ending
  <2>2. CASE u # t
    <3>1. pc[t] \in Holding
      BY <1>1 DEF Holding
    <3>2. pc[u] \notin {"finish", "replace"}
      BY <2>2, <3>1, Alone DEF Holding
    <3>3. pc'[u] = pc[u]
      BY <1>1, <2>2
    <3> QED BY <3>2, <3>3 DEF Ending
  <2> QED BY <2>1, <2>2
<1>6. Waiting' = Waiting \ {t} /\ t \in Waiting
  BY <1>1 DEF Waiting
<1>7. /\ IsFiniteSet(Waiting') /\ Cardinality(Waiting') = Cardinality(Waiting) - 1
      /\ Cardinality(Waiting) \in Nat
  BY <1>6, FS_RemoveElement, FS_CardinalityType DEF HistoryInv
<1>8. calls' = calls /\ calls \in Nat
  BY DEF BeginWrite, IInv, TypeOK
<1>9. Len(history') + Cardinality(Waiting') <= calls' + 1 /\ calls' <= MaxCalls
  BY <1>2, <1>7, <1>8 DEF HistoryInv
<1> QED
  BY <1>4, <1>5, <1>7, <1>9 DEF HistoryInv

(* A write ends with the record in the file, or with the junk it has made. *)
LEMMA EndWriteKeepsHistory ==
  ASSUME IInv, HistoryInv, NEW t \in Threads, EndWrite(t)
  PROVE  HistoryInv'
<1> USE DEF Goto
<1>1. /\ pc[t] = "finish" /\ op[t] \in Events /\ file \in Seq(Line) /\ file # << >>
      /\ line[t] \in Line /\ pc' = [pc EXCEPT ![t] = "release"] /\ pc \in [Threads -> PCs]
      /\ UNCHANGED <<history, calls>> /\ file' = Append(Front(file), line[t])
  BY DEF EndWrite, IInv, WriterInv, TypeOK
<1>2. /\ Front(file) \in Seq(Line) /\ Valid(Front(file)) /\ Len(Front(file)) = Len(file) - 1
      /\ Len(file) \in Nat \ {0} /\ \A i \in 1..Len(file) - 1 : Front(file)[i] = file[i]
  BY <1>1, FrontFacts DEF HistoryInv
<1>3. /\ Front(file') = Front(file) /\ file' # << >> /\ Len(file') = Len(file)
      /\ \A i \in 1..Len(file) - 1 : file'[i] = file[i]
      /\ file'[Len(file)] = line[t]
  BY <1>1, <1>2, FrontOfAppend, AppendProperties
<1>4. Last(file') = line[t]
  BY <1>3 DEF Last
<1>5. line[t] # Junk => /\ Valid(file') /\ line[t].event = history[Len(file)]
                        /\ Len(history) = Len(file)
  <2> SUFFICES ASSUME line[t] # Junk
               PROVE  /\ Valid(file') /\ line[t].event = history[Len(file)]
                      /\ Len(history) = Len(file)
    OBVIOUS
  <2>1. /\ line[t] = NextLine(Front(file), op[t])
        /\ Len(history) = Len(file) /\ history[Len(file)] = op[t]
    BY <1>1 DEF HistoryInv, Ending
  <2>2. Valid(file')
    BY <1>1, <1>2, <2>1, AppendKeepsValid
  <2> QED BY <2>1, <2>2 DEF NextLine, Legacy, Chained
<1>6. line[t] = Junk => ~Valid(file')
  <2>1. Len(file') \in 1..Len(file')
    BY <1>2, <1>3
  <2> QED BY <1>3, <2>1, NotJunk
<1>7. ASSUME NEW i \in 1..Len(file'), file'[i] # Junk PROVE file'[i].event = history'[i]
  <2>1. CASE i = Len(file)
    BY <1>1, <1>3, <1>5, <1>7, <2>1
  <2>2. CASE i \in 1..Len(file) - 1
    BY <1>1, <1>2, <1>3, <1>7, <2>2 DEF HistoryInv
  <2> QED BY <1>2, <1>3, <2>1, <2>2
<1>8. ASSUME NEW u \in Threads PROVE Ending(u)'
  <2>1. pc[t] \in Holding
    BY <1>1 DEF Holding
  <2>2. pc'[u] \notin {"finish", "replace"}
    BY <1>1, <2>1, Alone DEF Holding
  <2> QED BY <2>2 DEF Ending
<1>9. Waiting' \subseteq Waiting
  BY <1>1 DEF Waiting
<1> QED
  BY <1>1, <1>2, <1>3, <1>4, <1>5, <1>6, <1>7, <1>8, <1>9, FewerWaiting DEF HistoryInv

LEMMA MigratedEvents ==
  ASSUME NEW f \in Seq(Line), IsLegacy(f)
  PROVE  /\ Len(Migrated(f)) = Len(f) /\ EventsOf(Migrated(f)) = EventsOf(f)
         /\ \A i \in 1..Len(f) : Migrated(f)[i].event = f[i].event
<1>1. /\ Len(f) \in Nat /\ Len(Migrated(f)) \in Nat
      /\ DOMAIN Migrated(f) = 1..Len(Migrated(f)) /\ DOMAIN Migrated(f) = 1..Len(f)
  BY MigratedIsChain, LenProperties DEF Migrated
<1>2. Len(Migrated(f)) = Len(f)
  BY <1>1
<1>3. \A i \in 1..Len(f) : Migrated(f)[i].event = f[i].event
  BY DEF Migrated, Chained
<1> QED
  BY <1>2, <1>3 DEF EventsOf

LEMMA ReplaceKeepsHistory ==
  ASSUME IInv, HistoryInv, NEW t \in Threads, ReplaceFile(t)
  PROVE  HistoryInv'
<1> USE DEF Goto
<1>1. /\ pc[t] = "replace" /\ file \in Seq(Line) /\ IsLegacy(file) /\ Valid(file)
      /\ file' = Migrated(file) /\ pc' = [pc EXCEPT ![t] = "release"] /\ pc \in [Threads -> PCs]
      /\ UNCHANGED <<history, calls>>
  BY DEF ReplaceFile, IInv, WriterInv, TypeOK, Valid, ghosts
<1>2. /\ file' \in Seq(Line) /\ Valid(file') /\ Len(file') = Len(file)
      /\ \A i \in 1..Len(file) : file'[i].event = file[i].event
  BY <1>1, MigratedIsChain, MigratedEvents DEF Valid
<1>3. \A i \in 1..Len(file') : file'[i].event = history'[i]
  BY <1>1, <1>2, NotJunk DEF HistoryInv
<1>4. ASSUME NEW u \in Threads PROVE Ending(u)'
  <2>1. pc[t] \in Holding
    BY <1>1 DEF Holding
  <2>2. pc'[u] \notin {"finish", "replace"}
    BY <1>1, <2>1, Alone DEF Holding
  <2> QED BY <2>2 DEF Ending
<1>5. Waiting' \subseteq Waiting
  BY <1>1 DEF Waiting
<1> QED
  BY <1>1, <1>2, <1>3, <1>4, <1>5, ValidFront, FewerWaiting DEF HistoryInv

LEMMA NextHistory == IInv /\ HistoryInv /\ [Next]_vars => HistoryInv'
<1> SUFFICES ASSUME IInv, HistoryInv, [Next]_vars PROVE HistoryInv'
  OBVIOUS
<1>1. ASSUME NEW t \in Threads, Step(t) PROVE HistoryInv'
  BY <1>1, MovesKeepHistory, BeginWriteKeepsHistory, EndWriteKeepsHistory, ReplaceKeepsHistory
  DEF Step
<1> QED
  BY <1>1, CallKeepsHistory, MovesKeepHistory DEF Next

THEOREM HistoryInvariance == Spec => [](IInv /\ HistoryInv)
  BY InitIInv, NextIInv, InitHistory, NextHistory, PTL DEF Spec

-----------------------------------------------------------------------------
(* The stream implements the append-only log of EventLog.                  *)

LEMMA DurableOf ==
  ASSUME NEW f \in Seq(Line), NEW b \in BOOLEAN, b \/ f # << >>,
         f # << >> => Valid(Front(f)) /\ (Last(f) = Junk \/ Valid(f))
  PROVE  Durable(f, b) = EventsOf(IF Valid(f) /\ b THEN f ELSE Front(f))
<1>1. CASE Valid(f) /\ b
  BY <1>1, DurableOfValid
<1>2. CASE ~(Valid(f) /\ b)
  <2>1. f # << >>
    BY <1>2, EmptySeq DEF Valid, IsChain
  <2>2. CASE Valid(f)
    BY <1>2, <2>1, <2>2, DurableOfValid
  <2>3. CASE ~Valid(f)
    BY <1>2, <2>1, <2>3, DurableOfTorn
  <2> QED BY <2>2, <2>3
<1> QED
  BY <1>1, <1>2

LEMMA DurableIs ==
  ASSUME IInv, HistoryInv
  PROVE  Durable(file, eol) = EventsOf(IF Valid(file) /\ eol THEN file ELSE Front(file))
  BY DurableOf DEF IInv, TypeOK, HistoryInv

(* The same after a step. *)
LEMMA DurableIsNext ==
  ASSUME IInv', HistoryInv'
  PROVE  Durable(file, eol)' = EventsOf(IF Valid(file') /\ eol' THEN file' ELSE Front(file'))
<1>1. /\ file' \in Seq(Line) /\ eol' \in BOOLEAN /\ (eol' \/ file' # << >>)
      /\ file' # << >> => Valid(Front(file')) /\ (Last(file') = Junk \/ Valid(file'))
  BY DEF IInv, TypeOK, HistoryInv
<1> QED
  BY <1>1, DurableOf

LEMMA InitImplements == Init => Log!Init
<1> SUFFICES ASSUME Init PROVE Log!Init
  OBVIOUS
<1>1. IInv /\ HistoryInv
  BY InitIInv, InitHistory
<1>2. file \in Seq(Line) /\ Valid(file)
  <2>1. CASE file = << >>
    BY <1>1, <2>1, EmptySeq DEF IInv, TypeOK, Valid, IsChain
  <2>2. ASSUME NEW e \in Events, file = <<Legacy(e)>> PROVE file \in Seq(Line) /\ Valid(file)
    <3>1. Len(file) = 1 /\ file[1] = Legacy(e)
      BY <2>2
    <3> QED BY <1>1, <3>1 DEF IInv, TypeOK, Valid, IsLegacy, Legacy
  <2> QED BY <2>1, <2>2 DEF Init
<1>3. Durable(file, eol) \in Seq(Events)
  BY <1>1, <1>2, DurableIs, EventsOfType DEF Init
<1>4. Damaged = FALSE
  BY <1>2 DEF Damaged
<1> QED
  BY <1>3, <1>4 DEF Log!Init

(* A step that writes nothing keeps the log, and can only close it. *)
LEMMA QuietImplements ==
  ASSUME UNCHANGED <<file, eol>>, \A u \in Threads : pc'[u] = "finish" => pc[u] = "finish"
  PROVE  [Log!Next]_(Log!logVars)
<1>1. Durable(file, eol)' = Durable(file, eol)
  OBVIOUS
<1>2. Damaged' = Damaged \/ Damaged' = TRUE
  BY DEF Damaged
<1> QED
  BY <1>1, <1>2 DEF Log!Next, Log!Damage, Log!logVars

LEMMA BeginWriteImplements ==
  ASSUME IInv, HistoryInv, HistoryInv', IInv', NEW t \in Threads,
         NEW cut \in {"part", "whole"}, BeginWrite(t, cut)
  PROVE  UNCHANGED Log!logVars
<1>1. /\ pc[t] = "write" /\ op[t] \in Events /\ Valid(file) /\ file \in Seq(Line)
      /\ line[t] = NextLine(file, op[t]) /\ line[t] \in Line /\ pc'[t] = "finish" /\ ~eol'
  BY DEF BeginWrite, Goto, IInv, WriterInv, TypeOK
<1>2. Damaged = FALSE /\ Damaged' = FALSE
  BY <1>1 DEF Damaged
<1>3. Durable(file, eol)' = EventsOf(Front(file'))
  BY <1>1, DurableIsNext
<1>4. CASE eol
  <2>1. Front(file') = file
    BY <1>1, <1>4, FrontOfAppend, JunkType DEF BeginWrite
  <2>2. Durable(file, eol) = EventsOf(file)
    BY <1>1, <1>4, DurableIs
  <2> QED BY <1>2, <1>3, <2>1, <2>2 DEF Log!logVars
<1>5. CASE ~eol
  <2>1. file # << >> /\ Front(file) \in Seq(Line)
    BY <1>1, <1>5, FrontFacts DEF IInv
  <2>2. Front(file') = Front(file)
    BY <1>5, <2>1, FrontOfAppend, JunkType DEF BeginWrite
  <2>3. Durable(file, eol) = EventsOf(Front(file))
    BY <1>5, DurableIs
  <2> QED BY <1>2, <1>3, <2>2, <2>3 DEF Log!logVars
<1> QED
  BY <1>4, <1>5

LEMMA EndWriteImplements ==
  ASSUME IInv, HistoryInv, HistoryInv', IInv', NEW t \in Threads, EndWrite(t)
  PROVE  [Log!Next]_(Log!logVars)
<1>1. /\ pc[t] = "finish" /\ op[t] \in Events /\ file \in Seq(Line) /\ file # << >>
      /\ line[t] \in Line /\ ~eol /\ eol' = TRUE
      /\ file' = Append(Front(file), line[t])
  BY DEF EndWrite, Goto, IInv, WriterInv, TypeOK
<1>2. Front(file) \in Seq(Line) /\ Valid(Front(file))
  BY <1>1, FrontFacts DEF HistoryInv
<1>3. Front(file') = Front(file)
  BY <1>1, <1>2, FrontOfAppend
<1>4. Durable(file, eol) = EventsOf(Front(file)) /\ Damaged = FALSE
  BY <1>1, DurableIs DEF Damaged
<1>5. CASE line[t] = Junk
  <2>1. ~Valid(file')
    <3>1. /\ Len(file') \in 1..Len(file') /\ file'[Len(file')] = Junk
      BY <1>1, <1>2, <1>5, AppendProperties, LenProperties
    <3> QED BY <3>1, NotJunk
  <2>2. Durable(file, eol)' = EventsOf(Front(file))
    BY <1>3, <2>1, DurableIsNext
  <2>3. \A u \in Threads : pc'[u] # "finish"
    <3>1. pc[t] \in Holding
      BY <1>1 DEF Holding
    <3>2. \A u \in Threads \ {t} : pc[u] # "finish"
      BY <3>1, Alone DEF Holding
    <3> QED BY <3>2 DEF EndWrite, Goto, IInv, TypeOK
  <2>4. Damaged' = TRUE
    BY <2>1, <2>3 DEF Damaged
  <2> QED
    BY <1>4, <2>2, <2>4 DEF Log!Next, Log!Damage
<1>6. CASE line[t] # Junk
  <2>1. line[t] = NextLine(Front(file), op[t])
    BY <1>1, <1>6 DEF HistoryInv, Ending
  <2>2. Valid(file')
    BY <1>1, <1>2, <2>1, AppendKeepsValid
  <2>3. Durable(file, eol)' = EventsOf(file')
    BY <1>1, <2>2, DurableIsNext
  <2>4. EventsOf(file') = Append(EventsOf(Front(file)), op[t])
    <3> DEFINE g == Front(file)
               E == EventsOf(g)
    <3>1. /\ E \in Seq(Events) /\ Len(E) = Len(g) /\ Len(g) \in Nat
          /\ \A i \in 1..Len(g) : E[i] = g[i].event
      BY <1>2, EventsOfType, LenProperties
    <3>2. /\ file' \in Seq(Line) /\ Len(file') = Len(g) + 1
          /\ \A i \in 1..Len(g) : file'[i] = g[i]
          /\ file'[Len(g) + 1].event = op[t]
      BY <1>1, <1>2, <2>1, AppendProperties DEF NextLine, Legacy, Chained
    <3>3. /\ EventsOf(file') \in Seq(Events) /\ Len(EventsOf(file')) = Len(g) + 1
          /\ \A i \in 1..Len(g) + 1 : EventsOf(file')[i] = file'[i].event
      BY <2>2, <3>2, EventsOfType
    <3>4. /\ Append(E, op[t]) \in Seq(Events) /\ Len(Append(E, op[t])) = Len(g) + 1
          /\ \A i \in 1..Len(g) : Append(E, op[t])[i] = E[i]
          /\ Append(E, op[t])[Len(g) + 1] = op[t]
      BY <1>1, <3>1, AppendProperties
    <3> HIDE DEF g, E
    <3>5. \A i \in 1..Len(g) + 1 : EventsOf(file')[i] = Append(E, op[t])[i]
      BY <3>1, <3>2, <3>3, <3>4
    <3>6. EventsOf(file') = Append(E, op[t])
      BY <3>3, <3>4, <3>5, SeqEqual
    <3> QED BY <3>6 DEF E, g
  <2>5. Damaged' = FALSE
    BY <2>2 DEF Damaged
  <2>6. Log!Record(op[t])
    BY <1>4, <2>3, <2>4, <2>5 DEF Log!Record
  <2> QED
    BY <1>1, <2>6 DEF Log!Next
<1> QED
  BY <1>5, <1>6

LEMMA ReplaceImplements ==
  ASSUME IInv, HistoryInv, HistoryInv', IInv', NEW t \in Threads, ReplaceFile(t)
  PROVE  UNCHANGED Log!logVars
<1>1. /\ pc[t] = "replace" /\ file \in Seq(Line) /\ IsLegacy(file) /\ eol /\ eol' = TRUE
      /\ file' = Migrated(file)
  BY DEF ReplaceFile, Goto, IInv, WriterInv, TypeOK, HistoryInv, Ending
<1>2. Valid(file) /\ Valid(file') /\ EventsOf(file') = EventsOf(file)
  BY <1>1, MigratedIsChain, MigratedEvents DEF Valid
<1>3. Durable(file, eol) = EventsOf(file) /\ Durable(file, eol)' = EventsOf(file')
  BY <1>1, <1>2, DurableIs, DurableIsNext
<1>4. Damaged = FALSE /\ Damaged' = FALSE
  BY <1>2 DEF Damaged
<1> QED
  BY <1>2, <1>3, <1>4 DEF Log!logVars

LEMMA NextImplements ==
  IInv /\ HistoryInv /\ IInv' /\ HistoryInv' /\ [Next]_vars => [Log!Next]_(Log!logVars)
<1> SUFFICES ASSUME IInv, HistoryInv, IInv', HistoryInv', [Next]_vars
             PROVE  [Log!Next]_(Log!logVars)
  OBVIOUS
<1> USE DEF Goto, shared, writers
<1>1. ASSUME NEW t \in Threads,
             \/ \E e \in Events \cup {NoEvent} : Call(t, e)
             \/ TakeThreadLock(t) \/ TakeProcessLock(t) \/ LockTimeout(t)
             \/ RefuseAppend(t) \/ SkipMigrate(t) \/ RefuseMigrate(t)
             \/ CheckAppend(t) \/ CheckMigrate(t) \/ Release(t) \/ FailWrite(t)
      PROVE  [Log!Next]_(Log!logVars)
  <2>1. PICK to \in PCs \ {"finish"} : pc' = [pc EXCEPT ![t] = to]
    BY <1>1 DEF Call, TakeThreadLock, TakeProcessLock, LockTimeout, RefuseAppend, SkipMigrate,
       RefuseMigrate, CheckAppend, CheckMigrate, Release, FailWrite, PCs
  <2>2. \A u \in Threads : pc'[u] = "finish" => pc[u] = "finish"
    BY <2>1 DEF IInv, TypeOK
  <2>3. UNCHANGED <<file, eol>>
    BY <1>1 DEF Call, TakeThreadLock, TakeProcessLock, LockTimeout, RefuseAppend, SkipMigrate,
       RefuseMigrate, CheckAppend, CheckMigrate, Release, FailWrite
  <2> QED
    BY <2>2, <2>3, QuietImplements
<1>2. ASSUME NEW t \in Threads, Step(t) PROVE [Log!Next]_(Log!logVars)
  BY <1>1, <1>2, BeginWriteImplements, EndWriteImplements, ReplaceImplements DEF Step
<1>3. CASE \E p \in Processes : Crash(p)
  BY <1>3, QuietImplements DEF Crash
<1>4. CASE (\E r \in Readers : BeginRead(r) \/ EndRead(r)) \/ UNCHANGED vars
  BY <1>4, QuietImplements DEF BeginRead, EndRead, vars
<1> QED
  BY <1>1, <1>2, <1>3, <1>4 DEF Next

(* The event stream implements the log of EventLog, for any threads, calls *)
(* and faults: append(), migration, cut-short writes and dead processes    *)
(* never lose or change a terminated record, a write adds one event at     *)
(* the end, and a damaged stream is frozen.                                *)
THEOREM StreamImplementsLog == Spec => ImplementsLog
  BY InitIInv, InitHistory, NextIInv, NextHistory, InitImplements, NextImplements, PTL
  DEF Spec, ImplementsLog, Log!Spec

-----------------------------------------------------------------------------
(* What unlocked readers see.                                              *)

LEMMA PrefixOfAppend ==
  ASSUME NEW S, NEW h \in Seq(S), NEW e \in S, NEW v \in Seq(S), IsPrefix(v, h)
  PROVE  IsPrefix(v, Append(h, e))
<1> DEFINE g == Append(h, e)
           n == Len(v)
<1>1. /\ g \in Seq(S) /\ Len(g) = Len(h) + 1 /\ Len(h) \in Nat /\ n \in Nat /\ n <= Len(h)
      /\ \A i \in 1..Len(h) : g[i] = h[i] /\ g[i] \in S
  BY AppendProperties, LenProperties, ElementOfSeq DEF IsPrefix
<1> HIDE DEF g
<1>2. /\ SubSeq(g, 1, n) \in Seq(S) /\ Len(SubSeq(g, 1, n)) = IF 1 <= n THEN n - 1 + 1 ELSE 0
      /\ \A i \in 1..n - 1 + 1 : SubSeq(g, 1, n)[i] = g[1 + i - 1]
  BY <1>1, SubSeqProperties
<1>3. /\ SubSeq(h, 1, n) \in Seq(S) /\ Len(SubSeq(h, 1, n)) = IF 1 <= n THEN n - 1 + 1 ELSE 0
      /\ \A i \in 1..n - 1 + 1 : SubSeq(h, 1, n)[i] = h[1 + i - 1]
  BY <1>1, SubSeqProperties
<1>4. SubSeq(g, 1, n) = SubSeq(h, 1, n)
  <2>1. Len(SubSeq(g, 1, n)) = Len(SubSeq(h, 1, n))
    BY <1>2, <1>3
  <2>2. \A i \in 1..Len(SubSeq(g, 1, n)) : SubSeq(g, 1, n)[i] = SubSeq(h, 1, n)[i]
    BY <1>1, <1>2, <1>3
  <2> QED BY <1>2, <1>3, <2>1, <2>2, SeqEqual
<1>5. n <= Len(g)
  BY <1>1
<1> QED
  BY <1>4, <1>5 DEF IsPrefix, g

LEMMA PrefixIs ==
  ASSUME NEW S, NEW h \in Seq(S), NEW m \in 0..Len(h), NEW v,
         v = [i \in 1..m |-> h[i]]
  PROVE  v \in Seq(S) /\ IsPrefix(v, h)
<1>1. Len(h) \in Nat /\ m \in Nat /\ \A i \in 1..m : h[i] \in S
  BY LenProperties, ElementOfSeq
<1>2. v \in Seq(S)
  BY <1>1, IsASeq
<1>3. Len(v) = m /\ \A i \in 1..m : v[i] = h[i]
  BY <1>1, <1>2, LenProperties
<1>4. /\ SubSeq(h, 1, m) \in Seq(S) /\ Len(SubSeq(h, 1, m)) = IF 1 <= m THEN m - 1 + 1 ELSE 0
      /\ \A i \in 1..m - 1 + 1 : SubSeq(h, 1, m)[i] = h[1 + i - 1]
  BY <1>1, SubSeqProperties
<1>5. SubSeq(h, 1, m) = v
  <2>1. Len(SubSeq(h, 1, m)) = m /\ \A i \in 1..m : SubSeq(h, 1, m)[i] = h[i]
    BY <1>1, <1>4
  <2> QED BY <1>2, <1>3, <1>4, <2>1, SeqEqual
<1>6. SubSeq(v, 1, Len(v)) = v
  BY <1>2, SubSeqFull
<1> QED
  BY <1>1, <1>2, <1>3, <1>5, <1>6 DEF IsPrefix

(* read() returns the beginning of the history whatever limit it goes by:  *)
(* of the lines before the limit at most the last one is unreadable.       *)
LEMMA ReadIsPrefix ==
  ASSUME NEW f \in Seq(Line), NEW h \in Seq(Events), NEW n \in Nat,
         f # << >> => Valid(Front(f)),
         Len(f) <= Len(h), \A i \in 1..Len(f) : f[i] # Junk => f[i].event = h[i]
  PROVE  ReadUpTo(f, n) \in Seq(Events) /\ IsPrefix(ReadUpTo(f, n), h)
<1> DEFINE top == IF n < Len(f) THEN n ELSE Len(f)
           kept == {i \in 1..top : f[i].kind # "junk"}
           Nth(j) == CHOOSE i \in kept : Cardinality({k \in kept : k <= i}) = j
<1>1. Len(f) \in Nat /\ Len(h) \in Nat /\ top \in 0..Len(f)
  BY LenProperties
<1>2. \A i \in 1..Len(f) - 1 : f[i] # Junk
  <2>1. CASE f = << >>
    BY <2>1, EmptySeq
  <2>2. CASE f # << >>
    <3>1. /\ Len(Front(f)) = Len(f) - 1 /\ \A i \in 1..Len(f) - 1 : Front(f)[i] = f[i]
      BY <2>2, FrontFacts
    <3> QED BY <2>2, <3>1, NotJunk
  <2> QED BY <2>1, <2>2
<1>3. \A i \in 1..Len(f) : f[i].kind = "junk" <=> f[i] = Junk
  BY ElementOfSeq, JunkKind
<1>4. PICK m \in 0..Len(f) : kept = 1..m /\ \A i \in 1..m : f[i] # Junk
  <2>1. CASE top = Len(f) /\ top # 0 /\ f[top] = Junk
    <3>1. top - 1 \in 0..Len(f) /\ kept = 1..(top - 1)
      BY <1>1, <1>2, <1>3, <2>1
    <3> QED BY <1>1, <1>2, <2>1, <3>1
  <2>2. CASE ~(top = Len(f) /\ top # 0 /\ f[top] = Junk)
    <3>1. \A i \in 1..top : f[i] # Junk
      BY <1>1, <1>2, <2>2
    <3>2. kept = 1..top
      BY <1>1, <1>3, <3>1
    <3> QED BY <1>1, <3>1, <3>2
  <2> QED BY <2>1, <2>2
<1>5. Cardinality(kept) = m
  <2>1. m \in Int /\ 1 \in Int /\ (IF 1 > m THEN 0 ELSE m - 1 + 1) = m
    BY <1>1, <1>4
  <2> QED BY <1>4, <2>1, FS_Interval
<1>6. ASSUME NEW j \in 1..m PROVE Nth(j) = j
  <2>1. ASSUME NEW i \in 1..m PROVE Cardinality({k \in 1..m : k <= i}) = i
    <3>1. {k \in 1..m : k <= i} = 1..i
      BY <1>1
    <3>2. i \in Int /\ (IF 1 > i THEN 0 ELSE i - 1 + 1) = i
      BY <1>1
    <3>3. Cardinality(1..i) = i
      BY <3>2, FS_Interval
    <3> QED BY <3>1, <3>3
  <2>2. \A i \in kept : Cardinality({k \in kept : k <= i}) = i
    BY <1>4, <2>1
  <2> HIDE DEF kept
  <2> QED BY <1>4, <2>2
<1>7. ReadUpTo(f, n) = [j \in 1..Cardinality(kept) |-> f[Nth(j)].event]
  BY DEF ReadUpTo
<1> HIDE DEF Nth, kept, top
<1>8. ReadUpTo(f, n) = [j \in 1..m |-> h[j]]
  <2>1. \A j \in 1..m : f[Nth(j)].event = h[j]
    BY <1>1, <1>4, <1>6
  <2> QED BY <1>5, <1>7, <2>1
<1>9. m \in 0..Len(h)
  BY <1>1, <1>4
<1> QED
  BY <1>8, <1>9, PrefixIs

(* What verify_integrity() finds in a file with an unreadable end. *)
LEMMA ReadLimitBound ==
  ASSUME NEW f \in Seq(Line), f # << >>, Valid(Front(f)), Last(f) = Junk
  PROVE  ReadLimit(f) \in 0..Len(f) \cup {NoLimit}
<1> DEFINE first == SelectInSeq(f, LAMBDA l : l.kind # "junk")
           turn  == SelectInSubSeq(f, first + 1, Len(f), LAMBDA l : l.kind # "legacy")
<1>1. /\ Len(Front(f)) = Len(f) - 1 /\ Len(f) \in Nat \ {0}
      /\ \A i \in 1..Len(f) - 1 : Front(f)[i] = f[i]
  BY FrontFacts
<1>2. f[Len(f)].kind = "junk"
  BY DEF Last, Junk
<1>3. CASE Len(f) = 1
  <2>1. first = 0
    BY <1>2, <1>3 DEF SelectInSeq
  <2> QED BY <2>1 DEF ReadLimit
<1>4. CASE Len(f) # 1
  <2>0. ~Valid(f)
    BY <1>1, <1>2 DEF Valid, IsChain, IsLegacy, Linked
  <2>1. 1 \in 1..Len(Front(f)) /\ 1 \in 1..Len(f) - 1
    BY <1>1, <1>4
  <2>2. f[1].kind \in {"chained", "legacy"}
    BY <1>1, <2>1 DEF Valid, IsChain, IsLegacy, Linked
  <2>3. first = 1
    <3> DEFINE I == {i \in 1..Len(f) : f[i].kind # "junk"}
    <3>1. 1 \in I /\ \A i \in I : 1 <= i
      BY <1>1, <2>1, <2>2
    <3>2. \A x \in I : (\A y \in I : x <= y) => x = 1
      BY <1>1, <3>1
    <3>3. first = IF I # {} THEN Min(I) ELSE 0
      BY DEF SelectInSeq
    <3> HIDE DEF I
    <3>4. Min(I) = 1
      BY <3>1, <3>2 DEF Min
    <3> QED BY <3>1, <3>3, <3>4
  <2>4. CASE f[1].kind = "chained"
    <3>1. \A i \in 1..Len(f) - 1 : Linked(f, i)
      <4>1. IsChain(Front(f))
        BY <1>1, <2>1, <2>4 DEF Valid, IsLegacy
      <4> QED BY <1>1, <4>1, LinkedInFront DEF IsChain
    <3>2. ~Linked(f, Len(f)) /\ Len(f) - 1 \in 0..Len(f) /\ Len(f) - 1 + 1 = Len(f)
      BY <1>1, <1>2 DEF Linked
    <3>3. ChainLength(f) = Len(f) - 1
      BY <3>1, <3>2, ChainLengthIs
    <3>4. ReadLimit(f) = ChainLength(f)
      BY <2>0, <2>3, <2>4 DEF ReadLimit
    <3> QED BY <3>2, <3>3, <3>4
  <2>5. CASE f[1].kind = "legacy"
    <3>1. \A i \in 2..Len(f) - 1 : f[i].kind = "legacy"
      BY <1>1, <2>1, <2>5 DEF Valid, IsChain, IsLegacy, Linked
    <3>2. {i \in 2..Len(f) : f[i].kind # "legacy"} = {Len(f)}
      BY <1>1, <1>2, <1>4, <3>1
    <3>3. Min({Len(f)}) = Len(f)
      BY <1>1 DEF Min
    <3>4. turn = Len(f)
      <4> DEFINE I == {i \in first + 1..Len(f) : f[i].kind # "legacy"}
      <4>1. I = {Len(f)}
        <5>1. first + 1 = 2
          BY <2>3
        <5> HIDE DEF first
        <5> QED BY <3>2, <5>1
      <4>2. turn = IF I # {} THEN Min(I) ELSE 0
        BY DEF SelectInSubSeq
      <4> HIDE DEF I, turn
      <4> QED BY <3>3, <4>1, <4>2
    <3>5. ReadLimit(f) = 0
      BY <1>1, <1>2, <2>0, <2>3, <2>5, <3>4 DEF ReadLimit
    <3> QED BY <1>1, <3>5
  <2> QED BY <2>2, <2>4, <2>5
<1> QED
  BY <1>3, <1>4

LEMMA InitReaders == Init => ReadersInv
<1> SUFFICES ASSUME Init PROVE ReadersInv
  OBVIOUS
<1>1. NotReading \in Nat
  BY ConstantsAssumption DEF NotReading
<1>2. history \in Seq(Events) /\ Len(history) \in Nat
  BY InitIInv, LenProperties DEF IInv, TypeOK
<1>3. SubSeq(<< >>, 1, 0) = << >> /\ SubSeq(history, 1, 0) = << >>
  BY SubSeqEmpty
<1>4. << >> \in Seq(Events) /\ Len(<< >>) = 0
  BY EmptySeq
<1>5. IsPrefix(<< >>, history)
  BY <1>2, <1>3, <1>4 DEF IsPrefix
<1> QED
  BY <1>1, <1>4, <1>5 DEF Init, ReadersInv, ViewIsHistory

LEMMA NextReaders ==
  ASSUME IInv, HistoryInv, ReadersInv, [Next]_vars
  PROVE  ReadersInv'
<1> USE DEF readers
<1>1. /\ history \in Seq(Events) /\ file \in Seq(Line) /\ op \in [Threads -> Events \cup {NoEvent}]
      /\ NotReading \in Nat /\ NotReading - 1 \in Nat /\ Len(file) \in Nat /\ Len(file) < NotReading
  <2>1. /\ Len(file) \in Nat /\ Len(history) \in Nat /\ Cardinality(Waiting) \in Nat
        /\ calls \in Nat /\ MaxCalls \in Nat
    BY ConstantsAssumption, LenProperties, FS_CardinalityType DEF IInv, TypeOK, HistoryInv
  <2> QED BY <2>1 DEF HistoryInv, NotReading, IInv, TypeOK
<1>2. ASSUME NEW r \in Readers, BeginRead(r) PROVE ReadersInv'
  <2>1. limit'[r] \in 0..NotReading
    <3>0. NoLimit \in 0..NotReading
      BY <1>1 DEF NoLimit
    <3>1. CASE Valid(file)
      BY <1>2, <3>0, <3>1 DEF BeginRead, ReadersInv, ReadLimit
    <3>2. CASE ~Valid(file)
      <4>1. file # << >>
        BY <3>2, EmptySeq DEF Valid, IsChain
      <4>2. ReadLimit(file) \in 0..Len(file) \cup {NoLimit}
        BY <1>1, <3>2, <4>1, ReadLimitBound DEF HistoryInv
      <4> QED BY <1>1, <1>2, <3>0, <4>2 DEF BeginRead, ReadersInv
    <3> QED BY <3>1, <3>2
  <2> QED BY <1>2, <2>1 DEF BeginRead, ReadersInv, ViewIsHistory, ghosts
<1>3. ASSUME NEW r \in Readers, EndRead(r) PROVE ReadersInv'
  <2>1. limit[r] \in Nat
    BY <1>1 DEF ReadersInv, ViewIsHistory
  <2>2. ReadUpTo(file, limit[r]) \in Seq(Events) /\ IsPrefix(ReadUpTo(file, limit[r]), history)
    BY <1>1, <2>1, ReadIsPrefix DEF HistoryInv
  <2> QED BY <1>1, <1>3, <2>2 DEF EndRead, ReadersInv, ViewIsHistory, ghosts
<1>4. ASSUME NEW t \in Threads, NEW cut \in {"part", "whole"}, BeginWrite(t, cut)
      PROVE  ReadersInv'
  <2>1. history' = Append(history, op[t]) /\ op[t] \in Events /\ view' = view /\ limit' = limit
    BY <1>4 DEF BeginWrite, Goto, IInv, WriterInv
  <2>2. \A r \in Readers : IsPrefix(view[r], history')
    BY <1>1, <2>1, PrefixOfAppend DEF ReadersInv, ViewIsHistory
  <2> QED BY <2>1, <2>2 DEF ReadersInv, ViewIsHistory
<1>5. ASSUME UNCHANGED <<limit, view, history>> PROVE ReadersInv'
  BY <1>5 DEF ReadersInv, ViewIsHistory
<1>6. ASSUME NEW t \in Threads, (\E e \in Events \cup {NoEvent} : Call(t, e)) \/ FailWrite(t)
      PROVE  ReadersInv'
  BY <1>5, <1>6 DEF Call, FailWrite, ghosts
<1>7. ASSUME NEW t \in Threads, Step(t) PROVE ReadersInv'
  BY <1>4, <1>5, <1>7 DEF Step, TakeThreadLock, TakeProcessLock, LockTimeout, RefuseAppend,
     SkipMigrate, RefuseMigrate, CheckAppend, CheckMigrate, Release, EndWrite, ReplaceFile, ghosts
<1>8. ASSUME NEW p \in Processes, Crash(p) PROVE ReadersInv'
  BY <1>5, <1>8 DEF Crash
<1>9. CASE UNCHANGED vars
  BY <1>5, <1>9 DEF vars, ghosts
<1> QED
  BY <1>2, <1>3, <1>6, <1>7, <1>8, <1>9 DEF Next

(* Whatever an unlocked read() overlaps, it returns a prefix of what was   *)
(* written, for any number of readers, writers, processes and faults.      *)
THEOREM ReadersSeeHistory == Spec => []ViewIsHistory
<1>1. ReadersInv => ViewIsHistory
  BY DEF ReadersInv
<1> QED
  BY <1>1, InitIInv, NextIInv, InitHistory, NextHistory, InitReaders, NextReaders, PTL DEF Spec
=============================================================================
