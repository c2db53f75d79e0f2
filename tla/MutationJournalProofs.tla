------------------------ MODULE MutationJournalProofs ------------------------
(***************************************************************************)
(* Safety of the mutation journal for any executors, actions and faults:   *)
(* what it reports as completed was done, what was done has a mark, and    *)
(* what is done again is paid for by a fault or an overlapping call.       *)
(***************************************************************************)
EXTENDS MutationJournal, SequenceTheorems, FiniteSetTheorems, TLAPS

(* What a line says was done, was done. *)
Backed(l) == l.status = "completed" => applied[l.key] > 0

(* The journal after append(): the new line, junk, or a line of before. *)
LEMMA ExtendedFacts ==
  ASSUME journal \in Seq(Line), NEW l \in Line, eol \/ journal # << >>
  PROVE  /\ Extended(l) \in Seq(Line) /\ Extended(l) # << >>
         /\ \A i \in 1..Len(Extended(l)) :
              \/ Extended(l)[i] \in {l, Junk}
              \/ i \in 1..Len(journal) /\ Extended(l)[i] = journal[i]
<1>1. Junk \in Line
  BY DEF Line
<1>2. CASE eol
  <2>1. Extended(l) = Append(journal, l)
    BY <1>2 DEF Extended
  <2>2. /\ Append(journal, l) \in Seq(Line) /\ Append(journal, l) # << >>
        /\ Len(Append(journal, l)) = Len(journal) + 1
        /\ \A i \in 1..Len(journal) : Append(journal, l)[i] = journal[i]
        /\ Append(journal, l)[Len(journal) + 1] = l
    BY AppendProperties
  <2>3. Len(journal) \in Nat
    BY LenProperties
  <2> QED
    BY <2>1, <2>2, <2>3
<1>3. CASE ~eol
  <2>1. Extended(l) = [journal EXCEPT ![Len(journal)] = Junk]
    BY <1>3 DEF Extended
  <2>2. Len(journal) \in Nat \ {0}
    BY <1>3, EmptySeq
  <2>3. /\ [journal EXCEPT ![Len(journal)] = Junk] \in Seq(Line)
        /\ Len([journal EXCEPT ![Len(journal)] = Junk]) = Len(journal)
    BY <1>1, <2>2, ExceptSeq
  <2>4. \A i \in 1..Len(journal) :
          [journal EXCEPT ![Len(journal)] = Junk][i] = IF i = Len(journal) THEN Junk ELSE journal[i]
    BY <2>2, ExceptSeq
  <2> QED
    BY <2>1, <2>2, <2>3, <2>4, EmptySeq
<1> QED
  BY <1>2, <1>3

LEMMA InitInvariant == Init => IInv
<1> SUFFICES ASSUME Init PROVE IInv
  OBVIOUS
<1>1. journal = << >> /\ Len(journal) = 0 /\ journal \in Seq(Line) /\ content \in Seq(Keys)
  BY EmptySeq DEF Init
<1>2. TypeOK
  BY <1>1, JournalAssumption DEF Init, TypeOK
<1> QED
  BY <1>1, <1>2 DEF Init, IInv

(* A line is appended that is backed afterwards, and no success is forgotten. *)
LEMMA JournalGrows ==
  ASSUME IInv, NEW l \in Line, journal' = Extended(l),
         applied' = applied, Backed(l)
  PROVE  /\ journal' \in Seq(Line) /\ journal' # << >>
         /\ \A i \in 1..Len(journal') :
              journal'[i].status = "completed" => applied'[journal'[i].key] > 0
<1>1. /\ Extended(l) \in Seq(Line) /\ Extended(l) # << >>
      /\ \A i \in 1..Len(Extended(l)) :
           \/ Extended(l)[i] \in {l, Junk}
           \/ i \in 1..Len(journal) /\ Extended(l)[i] = journal[i]
  BY ExtendedFacts DEF IInv, TypeOK
<1>2. Backed(Junk)
  BY DEF Backed, Junk
<1>3. \A i \in 1..Len(journal) : Backed(journal[i])
  BY DEF IInv, Backed
<1>4. \A i \in 1..Len(journal') : Backed(journal'[i])
  BY <1>1, <1>2, <1>3
<1> QED
  BY <1>1, <1>4 DEF Backed

LEMMA StepInvariant == IInv /\ [Next]_vars => IInv'
<1> SUFFICES ASSUME IInv, [Next]_vars PROVE IInv'
  OBVIOUS
<1> USE DEF Goto, Status, Entry
<1>1. CASE UNCHANGED vars
  BY <1>1 DEF IInv, TypeOK, vars, durable, local, history
<1>2. ASSUME NEW x \in Executors, NEW k \in Keys, Replay(x, k) PROVE IInv'
  <2>1. applied[k] > 0
    BY <1>2 DEF Replay, Newest, IInv
  <2> QED
    BY <1>2, <2>1 DEF Replay, IInv, TypeOK, durable, local
<1>3. ASSUME NEW x \in Executors, NEW k \in Keys, Ask(x, k) PROVE IInv'
  <2>1. overlaps' \in Nat
    BY <1>3 DEF Ask, IInv, TypeOK
  <2>2. /\ calls' \in Nat /\ key' \in [Executors -> Keys \cup {NoKey}]
        /\ pc' \in [Executors -> {"idle", "mark", "work", "close"}]
        /\ \A y \in Executors : pc'[y] # "idle" => key'[y] \in Keys
        /\ \A y \in Executors : pc'[y] = "close" => pc[y] = "close" /\ key'[y] = key[y]
    BY <1>3 DEF Ask, IInv, TypeOK
  <2>3. UNCHANGED <<journal, eol, content, ok, applied, confirmed, torn, faults>>
    BY <1>3 DEF Ask, durable, history
  <2> QED
    BY <2>1, <2>2, <2>3 DEF IInv, TypeOK
<1>4. ASSUME NEW x \in Executors, Mark(x) PROVE IInv'
  <2>1. key[x] \in Keys
    BY <1>4 DEF Mark, IInv, TypeOK
  <2>2. Entry(key[x], "in_flight") \in Line /\ Backed(Entry(key[x], "in_flight"))
    BY <2>1 DEF Line, Backed
  <2>3. /\ journal' \in Seq(Line) /\ journal' # << >>
        /\ \A i \in 1..Len(journal') :
             journal'[i].status = "completed" => applied'[journal'[i].key] > 0
    <3>1. journal' = Extended(Entry(key[x], "in_flight")) /\ applied' = applied
      BY <1>4 DEF Mark, Log, history
    <3> QED
      BY <2>2, <3>1, JournalGrows
  <2> QED
    BY <1>4, <2>3 DEF Mark, Log, IInv, TypeOK, history
<1>5. ASSUME NEW x \in Executors, Work(x) PROVE IInv'
  <2>1. key[x] \in Keys /\ applied \in [Keys -> Nat] /\ content \in Seq(Keys)
    BY <1>5 DEF Work, IInv, TypeOK
  <2>2. applied' \in [Keys -> Nat] /\ \A k \in Keys : applied[k] > 0 => applied'[k] > 0
    BY <1>5, <2>1 DEF Work
  <2>3. ok' \in [Executors -> BOOLEAN] /\ (ok'[x] => applied'[key[x]] > 0)
    BY <1>5, <2>1 DEF Work, IInv, TypeOK
  <2>4. content' \in Seq(Keys)
    <3>1. Append(content, key[x]) \in Seq(Keys) /\ <<key[x]>> \in Seq(Keys)
      BY <2>1, AppendProperties
    <3> QED
      BY <1>5, <2>1, <3>1 DEF Work
  <2>5. TypeOK'
    BY <1>5, <2>2, <2>3, <2>4 DEF Work, IInv, TypeOK
  <2>6. \A i \in 1..Len(journal) : journal[i] \in Line
    BY ElementOfSeq DEF IInv, TypeOK
  <2>7. \A i \in 1..Len(journal) : journal[i].status = "completed" => applied'[journal[i].key] > 0
    <3>1. \A i \in 1..Len(journal) : journal[i].status = "completed" => journal[i].key \in Keys
      BY <2>6 DEF Line, Junk
    <3> QED
      BY <2>2, <3>1 DEF IInv
  <2>8. \A k \in confirmed : applied'[k] > 0
    BY <2>2 DEF IInv, TypeOK
  <2>9. \A y \in Executors : pc'[y] = "close" /\ ok'[y] => applied'[key[y]] > 0
    <3>1. \A y \in Executors \ {x} : pc'[y] = pc[y] /\ ok'[y] = ok[y]
      BY <1>5 DEF Work, IInv, TypeOK
    <3>2. \A y \in Executors : pc[y] = "close" => key[y] \in Keys
      BY DEF IInv, TypeOK
    <3> QED
      BY <2>2, <2>3, <3>1, <3>2 DEF IInv
  <2> QED
    BY <1>5, <2>5, <2>7, <2>8, <2>9 DEF Work, IInv
<1>6. ASSUME NEW x \in Executors, Close(x) PROVE IInv'
  <2> DEFINE l == Entry(key[x], IF ok[x] THEN "completed" ELSE "failed")
  <2>1. key[x] \in Keys /\ (ok[x] => applied[key[x]] > 0)
    BY <1>6 DEF Close, IInv, TypeOK
  <2>2. l \in Line /\ Backed(l)
    BY <2>1 DEF Line, Backed
  <2>3. /\ journal' \in Seq(Line) /\ journal' # << >>
        /\ \A i \in 1..Len(journal') :
             journal'[i].status = "completed" => applied'[journal'[i].key] > 0
    <3>1. journal' = Extended(l) /\ applied' = applied
      BY <1>6 DEF Close, Log
    <3> HIDE DEF l
    <3> QED
      BY <2>2, <3>1, JournalGrows
  <2> QED
    BY <1>6, <2>1, <2>3 DEF Close, Log, IInv, TypeOK
<1>7. ASSUME NEW x \in Executors, Interrupt(x) PROVE IInv'
  BY <1>7 DEF Interrupt, Leave, IInv, TypeOK
<1>8. ASSUME NEW x \in Executors, InterruptReply(x) PROVE IInv'
  <2> DEFINE l == Entry(key[x], IF ok[x] THEN "completed" ELSE "failed")
  <2>1. key[x] \in Keys /\ (ok[x] => applied[key[x]] > 0)
    BY <1>8 DEF InterruptReply, IInv, TypeOK
  <2>2. l \in Line /\ Backed(l)
    BY <2>1 DEF Line, Backed
  <2>3. /\ journal' \in Seq(Line) /\ journal' # << >>
        /\ \A i \in 1..Len(journal') :
             journal'[i].status = "completed" => applied'[journal'[i].key] > 0
    <3>1. journal' = Extended(l) /\ applied' = applied
      BY <1>8 DEF InterruptReply, Leave, Log
    <3> HIDE DEF l
    <3> QED
      BY <2>2, <3>1, JournalGrows
  <2> QED
    BY <1>8, <2>3 DEF InterruptReply, Leave, Log, IInv, TypeOK
<1>9. ASSUME NEW x \in Executors, TearLine(x) PROVE IInv'
  <2> DEFINE s == CASE pc[x] = "mark"           -> "in_flight"
                    [] pc[x] = "close" /\ ok[x]  -> "completed"
                    [] pc[x] = "close" /\ ~ok[x] -> "failed"
             l == Entry(key[x], s)
  <2>1. key[x] \in Keys /\ ok[x] \in BOOLEAN /\ pc[x] \in {"mark", "close"}
    BY <1>9 DEF TearLine, IInv, TypeOK
  <2>2. s \in Status /\ (s = "completed" => pc[x] = "close" /\ ok[x])
    BY <2>1
  <2>3. l \in Line /\ Backed(l)
    <3> HIDE DEF s
    <3> QED
      BY <2>1, <2>2 DEF Line, Backed, IInv
  <2>4. Junk \in Line /\ Backed(Junk)
    BY DEF Line, Backed, Junk
  <2>5. journal' \in {Extended(Junk), Extended(l)} /\ applied' = applied
    BY <1>9 DEF TearLine, Leave
  <2>6. /\ journal' \in Seq(Line) /\ journal' # << >>
        /\ \A i \in 1..Len(journal') :
             journal'[i].status = "completed" => applied'[journal'[i].key] > 0
    <3> HIDE DEF l
    <3> QED
      BY <2>3, <2>4, <2>5, JournalGrows
  <2>7. /\ pc' = [pc EXCEPT ![x] = "idle"]
        /\ key' = [key EXCEPT ![x] = NoKey] /\ ok' = [ok EXCEPT ![x] = FALSE]
        /\ UNCHANGED <<content, applied, confirmed, overlaps, calls>>
        /\ torn' = TRUE /\ eol' = FALSE /\ faults' = faults + 1
    BY <1>9 DEF TearLine, Leave
  <2> HIDE DEF s, l
  <2>8. TypeOK'
    <3>1. /\ journal' \in Seq(Line)
          /\ content' \in Seq(Keys) /\ applied' \in [Keys -> Nat]
          /\ confirmed' \subseteq Keys /\ overlaps' \in Nat /\ calls' \in Nat /\ faults' \in Nat
      BY <2>6, <2>7 DEF IInv, TypeOK
    <3>2. eol' \in BOOLEAN /\ torn' \in BOOLEAN
      BY <2>7, Zenon
    <3>3. /\ pc' \in [Executors -> {"idle", "mark", "work", "close"}]
          /\ key' \in [Executors -> Keys \cup {NoKey}]
          /\ \A y \in Executors : pc'[y] # "idle" => key'[y] \in Keys
          /\ ok' \in [Executors -> BOOLEAN]
      BY <2>7 DEF IInv, TypeOK
    <3> QED
      BY <3>1, <3>2, <3>3 DEF TypeOK
  <2>9. \A y \in Executors : pc'[y] = "close" /\ ok'[y] => applied'[key'[y]] > 0
    BY <2>7 DEF IInv, TypeOK
  <2>10. \A k \in confirmed' : applied'[k] > 0
    BY <2>7 DEF IInv
  <2> QED
    BY <2>6, <2>8, <2>9, <2>10 DEF IInv
<1>10. CASE Next
  <2>1. PICK x \in Executors :
          \/ \E k \in Keys : Replay(x, k) \/ Ask(x, k)
          \/ Mark(x) \/ Work(x) \/ Close(x)
          \/ Interrupt(x) \/ InterruptReply(x) \/ TearLine(x)
    BY <1>10, Zenon DEF Next
  <2> QED
    BY <2>1, <1>2, <1>3, <1>4, <1>5, <1>6, <1>7, <1>8, <1>9, Zenon
<1> QED
  BY <1>1, <1>10, Zenon

(* The journal and the confirmations stay backed by successes. *)
THEOREM Invariance == Spec => []IInv
<1>1. IInv /\ [Next]_vars => IInv'
  BY StepInvariant
<1> QED
  BY <1>1, InitInvariant, PTL DEF Spec

(* Every variable of the journal keeps its type. *)
THEOREM TypeCorrect == Spec => []TypeOK
<1>1. IInv => TypeOK
  BY DEF IInv
<1> QED
  BY <1>1, Invariance, PTL

(* Whatever lines are torn or merged and however many executors share the  *)
(* journal, a replay of _run_action() confirms only what was done.         *)
THEOREM ReplaysAreBacked == Spec => []CompletedWasApplied
<1>1. IInv => CompletedWasApplied
  <2> SUFFICES ASSUME IInv, NEW k \in Keys, Newest(k, "completed") \/ k \in confirmed
               PROVE  applied[k] > 0
    BY DEF CompletedWasApplied
  <2>1. CASE Newest(k, "completed")
    BY <2>1 DEF Newest, Entry, IInv
  <2>2. CASE k \in confirmed
    BY <2>2 DEF IInv
  <2> QED
    BY <2>1, <2>2
<1> QED
  BY <1>1, Invariance, PTL

-----------------------------------------------------------------------------
(* The mark before the effect. *)

Has(lines, k) == \E j \in 1..Len(lines) : lines[j].key = k

(* What the mark of every effect needs, in terms of the lines. *)
EffectsIn(lines) == \A i \in 1..Len(content) : Has(lines, content[i])

RunnersIn(lines) == \A x \in Executors : pc[x] \in {"work", "close"} => Has(lines, key[x])

MarksIn(lines) == ~torn => eol /\ EffectsIn(lines) /\ RunnersIn(lines)

(* A journal that ends with a newline keeps its lines and gets the new one. *)
LEMMA ExtendedMarks ==
  ASSUME journal \in Seq(Line), NEW l \in Line, eol
  PROVE  /\ \A k : Has(journal, k) => Has(Extended(l), k)
         /\ Has(Extended(l), l.key)
<1> DEFINE longer == Append(journal, l)
<1>1. Extended(l) = longer /\ Len(journal) \in Nat
  BY LenProperties DEF Extended
<1>2. /\ Len(longer) = Len(journal) + 1
      /\ \A i \in 1..Len(journal) : longer[i] = journal[i]
      /\ longer[Len(journal) + 1] = l
  BY AppendProperties
<1> HIDE DEF longer
<1>3. \A j \in 1..Len(journal) : j \in 1..Len(longer)
  BY <1>1, <1>2
<1>4. Len(longer) \in 1..Len(longer) /\ longer[Len(longer)].key = l.key
  BY <1>1, <1>2
<1>5. \A k : Has(journal, k) => Has(longer, k)
  BY <1>2, <1>3 DEF Has
<1>6. Has(longer, l.key)
  BY <1>4 DEF Has
<1> QED
  BY <1>1, <1>5, <1>6

(* Appending a whole line for the executor that runs next keeps all marks. *)
LEMMA LogMarks ==
  ASSUME IInv, MarksIn(journal), NEW x \in Executors, NEW l \in Line,
         Log(l), UNCHANGED <<content, torn>>,
         \A y \in Executors \ {x} : pc'[y] = pc[y] /\ key'[y] = key[y],
         pc'[x] \in {"work", "close"} => key'[x] = l.key
  PROVE  MarksIn(journal)'
<1> SUFFICES ASSUME ~torn' PROVE (eol /\ EffectsIn(journal) /\ RunnersIn(journal))'
  BY DEF MarksIn
<1>1. eol /\ EffectsIn(journal) /\ RunnersIn(journal) /\ journal \in Seq(Line)
  BY DEF MarksIn, IInv, TypeOK
<1>2. journal' = Extended(l) /\ eol'
  BY DEF Log
<1>3. (\A k : Has(journal, k) => Has(journal', k)) /\ Has(journal', l.key)
  BY <1>1, <1>2, ExtendedMarks
<1>4. EffectsIn(journal)'
  BY <1>1, <1>3 DEF EffectsIn
<1>5. RunnersIn(journal)'
  BY <1>1, <1>3 DEF RunnersIn
<1> QED
  BY <1>2, <1>4, <1>5

LEMMA MarkStep == IInv /\ MarksIn(journal) /\ [Next]_vars => MarksIn(journal)'
<1> SUFFICES ASSUME IInv, MarksIn(journal), [Next]_vars PROVE MarksIn(journal)'
  OBVIOUS
<1> USE DEF Goto
<1>1. CASE UNCHANGED vars
  BY <1>1 DEF MarksIn, EffectsIn, RunnersIn, vars, durable, local, history
<1>2. ASSUME NEW x \in Executors, NEW k \in Keys, Replay(x, k) PROVE MarksIn(journal)'
  BY <1>2 DEF Replay, MarksIn, EffectsIn, RunnersIn, durable, local
<1>3. ASSUME NEW x \in Executors, NEW k \in Keys, Ask(x, k) PROVE MarksIn(journal)'
  <2>1. UNCHANGED <<journal, eol, content, torn>>
    BY <1>3 DEF Ask, durable, history
  <2>2. Newest(k, "in_flight") => Has(journal, k)
    BY DEF Newest, Entry, Has
  <2>3. /\ \A y \in Executors \ {x} : pc'[y] = pc[y] /\ key'[y] = key[y]
        /\ key'[x] = k /\ (pc'[x] \in {"work", "close"} => Newest(k, "in_flight"))
    BY <1>3 DEF Ask, IInv, TypeOK
  <2>4. RunnersIn(journal) => RunnersIn(journal)'
    BY <2>1, <2>2, <2>3 DEF RunnersIn
  <2>5. EffectsIn(journal) => EffectsIn(journal)'
    BY <2>1 DEF EffectsIn
  <2> QED
    BY <2>1, <2>4, <2>5 DEF MarksIn
<1>4. ASSUME NEW x \in Executors, Mark(x) PROVE MarksIn(journal)'
  <2> DEFINE l == Entry(key[x], "in_flight")
  <2>1. l \in Line /\ l.key = key[x]
    BY <1>4 DEF Mark, IInv, TypeOK, Line, Status, Entry
  <2>2. /\ Log(l) /\ UNCHANGED <<content, torn, key>>
        /\ \A y \in Executors \ {x} : pc'[y] = pc[y]
    BY <1>4 DEF Mark, IInv, TypeOK, history
  <2> HIDE DEF l
  <2> QED
    BY <2>1, <2>2, LogMarks
<1>5. ASSUME NEW x \in Executors, Work(x) PROVE MarksIn(journal)'
  <2>1. /\ UNCHANGED <<journal, eol, key, torn>> /\ pc[x] = "work"
        /\ content' \in {<<key[x]>>, Append(content, key[x]), content}
        /\ \A y \in Executors : pc'[y] \in {"work", "close"} => pc[y] \in {"work", "close"}
    BY <1>5 DEF Work, IInv, TypeOK
  <2>2. RunnersIn(journal) => RunnersIn(journal)'
    BY <2>1 DEF RunnersIn
  <2>3. RunnersIn(journal) => Has(journal, key[x])
    BY <2>1 DEF RunnersIn
  <2>4. content \in Seq(Keys) /\ key[x] \in Keys /\ Len(content) \in Nat
    BY <2>1, LenProperties DEF IInv, TypeOK
  <2>5. /\ Len(Append(content, key[x])) = Len(content) + 1
        /\ \A i \in 1..Len(content) : Append(content, key[x])[i] = content[i]
        /\ Append(content, key[x])[Len(content) + 1] = key[x]
    BY <2>4, AppendProperties
  <2>6. \A i \in 1..Len(content') : content'[i] = key[x] \/ \E j \in 1..Len(content) : content'[i] = content[j]
    <3>1. CASE content' = <<key[x]>>
      BY <3>1
    <3>2. CASE content' = Append(content, key[x])
      BY <2>4, <2>5, <3>2
    <3>3. CASE content' = content
      BY <3>3
    <3> QED
      BY <2>1, <3>1, <3>2, <3>3
  <2>7. EffectsIn(journal) /\ RunnersIn(journal) => EffectsIn(journal)'
    BY <2>1, <2>3, <2>6 DEF EffectsIn
  <2> QED
    BY <2>1, <2>2, <2>7 DEF MarksIn
<1>6. ASSUME NEW x \in Executors, Close(x) \/ InterruptReply(x) PROVE MarksIn(journal)'
  <2> DEFINE l == Entry(key[x], IF ok[x] THEN "completed" ELSE "failed")
  <2>1. l \in Line
    BY <1>6 DEF Close, InterruptReply, IInv, TypeOK, Line, Status, Entry
  <2>2. /\ Log(l) /\ UNCHANGED <<content, torn>> /\ pc'[x] = "idle"
        /\ \A y \in Executors \ {x} : pc'[y] = pc[y] /\ key'[y] = key[y]
    BY <1>6 DEF Close, InterruptReply, Leave, IInv, TypeOK
  <2> HIDE DEF l
  <2> QED
    BY <2>1, <2>2, LogMarks
<1>7. ASSUME NEW x \in Executors, Interrupt(x) PROVE MarksIn(journal)'
  BY <1>7 DEF Interrupt, Leave, MarksIn, EffectsIn, RunnersIn, IInv, TypeOK
<1>8. ASSUME NEW x \in Executors, TearLine(x) PROVE MarksIn(journal)'
  <2>1. torn' = TRUE
    BY <1>8 DEF TearLine
  <2> QED
    BY <2>1 DEF MarksIn
<1>9. CASE Next
  <2>1. PICK x \in Executors :
          \/ \E k \in Keys : Replay(x, k) \/ Ask(x, k)
          \/ Mark(x) \/ Work(x) \/ Close(x)
          \/ Interrupt(x) \/ InterruptReply(x) \/ TearLine(x)
    BY <1>9, Zenon DEF Next
  <2> QED
    BY <2>1, <1>2, <1>3, <1>4, <1>5, <1>6, <1>7, <1>8, Zenon
<1> QED
  BY <1>1, <1>9, Zenon

(* While no line was torn, whoever finds an effect in the file finds its   *)
(* mark in the journal, for any number of executors, calls and crashes.    *)
THEOREM EffectsMarked == Spec => []EffectsAreMarked
<1>1. Init => MarksIn(journal)
  BY EmptySeq DEF Init, MarksIn, EffectsIn, RunnersIn
<1>2. IInv /\ MarksIn(journal) /\ [Next]_vars => MarksIn(journal)'
  BY MarkStep
<1>3. MarksIn(journal) => EffectsAreMarked
  BY DEF MarksIn, EffectsIn, EffectsAreMarked, Marked, Has
<1> QED
  BY <1>1, <1>2, <1>3, Invariance, PTL DEF Spec

(* Both together: a later process can trust the journal.                   *)
THEOREM JournalAlwaysTrue == Spec => []JournalIsTrue
<1>1. CompletedWasApplied /\ EffectsAreMarked => JournalIsTrue
  BY DEF JournalIsTrue
<1> QED
  BY <1>1, ReplaysAreBacked, EffectsMarked, PTL

-----------------------------------------------------------------------------
(***************************************************************************)
(* The price of a repetition.  Each fault and each overlapping call is paid *)
(* in once; what was paid and not yet spent is held by calls that may still *)
(* succeed again, by actions that were done and would be executed if asked  *)
(* for, and by the journal line an append would destroy.                    *)
(***************************************************************************)

(* Calls that may still add a success. *)
Owing == {x \in Executors : pc[x] # "idle" /\ ~(pc[x] = "close" /\ ok[x])}

Running(k) == \E x \in Executors : pc[x] # "idle" /\ key[x] = k

(* Actions that were done, that nobody runs, and that the journal does not *)
(* report as completed: the next call executes them again.                 *)
Exposed == {k \in Keys : applied[k] > 0 /\ ~Newest(k, "completed") /\ ~Running(k)}

(* Actions whose first success may still come: it is no repetition. *)
FirstRuns == {k \in Keys : applied[k] = 0 /\ Running(k)}

(* Outcomes the next append loses: its own, and the one it is glued to. *)
Glue == IF eol THEN 0 ELSE IF journal[Len(journal)].key = NoKey THEN 1 ELSE 2

AllFinite ==
  /\ IsFiniteSet(Repeated) /\ IsFiniteSet(Owing)
  /\ IsFiniteSet(Exposed) /\ IsFiniteSet(FirstRuns)

Covered ==
  /\ AllFinite
  /\ Cardinality(Repeated) + Cardinality(Owing) + Cardinality(Exposed) + Glue
       <= 2 * faults + overlaps + Cardinality(FirstRuns)

LEMMA GrowsByOne ==
  ASSUME NEW S, NEW T, NEW a, IsFiniteSet(S), T \subseteq S \cup {a}
  PROVE  /\ IsFiniteSet(T)
         /\ Cardinality(S) \in Nat /\ Cardinality(T) \in Nat
         /\ Cardinality(T) <= Cardinality(S) + 1
<1>1. /\ IsFiniteSet(S \cup {a})
      /\ Cardinality(S \cup {a}) \in {Cardinality(S), Cardinality(S) + 1}
  BY FS_AddElement
<1>2. IsFiniteSet(T) /\ Cardinality(T) <= Cardinality(S \cup {a})
  BY <1>1, FS_Subset
<1>3. Cardinality(S) \in Nat /\ Cardinality(T) \in Nat
  BY <1>2, FS_CardinalityType
<1> QED
  BY <1>1, <1>2, <1>3

LEMMA StaysOrShrinks ==
  ASSUME NEW S, NEW T, IsFiniteSet(S), T \subseteq S
  PROVE  /\ IsFiniteSet(T)
         /\ Cardinality(S) \in Nat /\ Cardinality(T) \in Nat
         /\ Cardinality(T) <= Cardinality(S)
         /\ \A a \in S \ T : Cardinality(T) <= Cardinality(S) - 1
<1>1. IsFiniteSet(T) /\ Cardinality(T) <= Cardinality(S)
  BY FS_Subset
<1>2. Cardinality(S) \in Nat /\ Cardinality(T) \in Nat
  BY <1>1, FS_CardinalityType
<1>3. ASSUME NEW a \in S \ T PROVE Cardinality(T) <= Cardinality(S) - 1
  <2>1. IsFiniteSet(S \ {a}) /\ Cardinality(S \ {a}) = Cardinality(S) - 1
    BY FS_RemoveElement
  <2>2. T \subseteq S \ {a}
    OBVIOUS
  <2> QED
    BY <2>1, <2>2, FS_Subset
<1> QED
  BY <1>1, <1>2, <1>3

(* Each action that waits for its first success has a call of its own that *)
(* may bring it.                                                           *)
LEMMA FirstRunsOwe == IInv /\ AllFinite => Cardinality(FirstRuns) <= Cardinality(Owing)
<1> SUFFICES ASSUME IInv, AllFinite PROVE Cardinality(FirstRuns) <= Cardinality(Owing)
  OBVIOUS
<1> DEFINE image == {key[x] : x \in Owing}
           f == [x \in Owing |-> key[x]]
<1>1. f \in Surjection(Owing, image)
  BY DEF Surjection
<1>2. IsFiniteSet(image) /\ Cardinality(image) <= Cardinality(Owing)
  BY <1>1, FS_Surjection DEF AllFinite
<1>3. FirstRuns \subseteq image
  <2> SUFFICES ASSUME NEW k \in FirstRuns PROVE \E x \in Owing : key[x] = k
    OBVIOUS
  <2>1. PICK x \in Executors : pc[x] # "idle" /\ key[x] = k /\ applied[k] = 0
    BY DEF FirstRuns, Running
  <2>2. x \in Owing
    BY <2>1 DEF Owing, IInv, TypeOK
  <2> QED
    BY <2>1, <2>2
<1>4. Cardinality(FirstRuns) <= Cardinality(image)
  BY <1>2, <1>3, FS_Subset
<1> QED
  BY <1>2, <1>4, FS_CardinalityType DEF AllFinite

(* A line appended to a whole line hides no outcome of another action; one *)
(* appended to a line without newline destroys that line.                  *)
LEMMA LogKeeps ==
  ASSUME IInv, NEW l \in Line, journal' = Extended(l), NEW k \in Keys,
         Newest(k, "completed"), k # l.key, eol \/ journal[Len(journal)].key # k
  PROVE  Newest(k, "completed")'
<1>1. /\ Len(journal) \in Nat /\ journal \in Seq(Line)
      /\ \A i \in 1..Len(journal) : journal[i] \in Line
  BY LenProperties, ElementOfSeq DEF IInv, TypeOK
<1>2. PICK i \in 1..Len(journal) :
         /\ journal[i] = Entry(k, "completed")
         /\ \A j \in (i + 1)..Len(journal) : journal[j].key # k
  BY DEF Newest
<1>3. CASE eol
  <2>1. /\ Len(journal') = Len(journal) + 1
        /\ \A j \in 1..Len(journal) : journal'[j] = journal[j]
        /\ journal'[Len(journal) + 1] = l
    BY <1>1, <1>3, AppendProperties DEF Extended
  <2>2. i \in 1..Len(journal') /\ journal'[i] = Entry(k, "completed")
    BY <1>1, <1>2, <2>1
  <2>3. \A j \in (i + 1)..Len(journal') : journal'[j].key # k
    <3> SUFFICES ASSUME NEW j \in (i + 1)..Len(journal') PROVE journal'[j].key # k
      OBVIOUS
    <3>1. CASE j = Len(journal) + 1
      BY <2>1, <3>1
    <3>2. CASE j # Len(journal) + 1
      BY <1>1, <1>2, <2>1, <3>2
    <3> QED
      BY <3>1, <3>2
  <2> QED
    BY <2>2, <2>3 DEF Newest, Entry
<1>4. CASE ~eol
  <2>1. Len(journal) \in Nat \ {0}
    BY <1>1, <1>4, EmptySeq DEF IInv
  <2>2. /\ Len(journal') = Len(journal)
        /\ \A j \in 1..Len(journal) :
             journal'[j] = IF j = Len(journal) THEN Junk ELSE journal[j]
    BY <1>1, <1>4, <2>1, ExceptSeq DEF Extended
  <2>3. i # Len(journal)
    BY <1>2, <1>4 DEF Entry
  <2>4. i \in 1..Len(journal') /\ journal'[i] = Entry(k, "completed")
    BY <1>2, <2>2, <2>3
  <2>5. Junk.key # k
    BY JournalAssumption DEF Junk
  <2>6. \A j \in (i + 1)..Len(journal') : journal'[j].key # k
    BY <1>1, <1>2, <2>2, <2>5
  <2> QED
    BY <2>4, <2>6 DEF Newest, Entry
<1> QED
  BY <1>3, <1>4

(* The last line after an append. *)
LEMMA LogLast ==
  ASSUME IInv, NEW l \in Line, journal' = Extended(l)
  PROVE  journal'[Len(journal')] = IF eol THEN l ELSE Junk
<1>1. Len(journal) \in Nat /\ journal \in Seq(Line)
  BY LenProperties DEF IInv, TypeOK
<1>2. CASE eol
  BY <1>1, <1>2, AppendProperties DEF Extended
<1>3. CASE ~eol
  <2>1. Len(journal) \in Nat \ {0}
    BY <1>1, <1>3, EmptySeq DEF IInv
  <2> QED
    BY <1>1, <1>3, <2>1, ExceptSeq DEF Extended
<1> QED
  BY <1>2, <1>3

LEMMA LogReports ==
  ASSUME IInv, NEW k \in Keys, journal' = Extended(Entry(k, "completed")), eol
  PROVE  Newest(k, "completed")'
<1>1. Entry(k, "completed") \in Line
  BY DEF Line, Entry, Status
<1>2. journal'[Len(journal')] = Entry(k, "completed")
  BY <1>1, LogLast
<1>3. Len(journal') \in 1..Len(journal')
  BY <1>1, AppendProperties, LenProperties DEF Extended, IInv, TypeOK
<1> QED
  BY <1>2, <1>3 DEF Newest, Entry

(* A call ends: what it may leave exposed is its own action, if that was   *)
(* done and is not reported, and the action m of a line that was lost.     *)
LEMMA LeaveCost ==
  ASSUME IInv, AllFinite, NEW x \in Executors, pc[x] # "idle",
         pc' = [pc EXCEPT ![x] = "idle"], key' = [key EXCEPT ![x] = NoKey],
         ok' = [ok EXCEPT ![x] = FALSE], applied' = applied,
         NEW a, a = key[x],
         NEW m, \A k \in Keys : Newest(k, "completed") /\ k # a /\ k # m
                                  => Newest(k, "completed")'
  PROVE  /\ AllFinite' /\ Repeated' = Repeated
         /\ Cardinality(Owing') + Cardinality(Exposed') + Cardinality(FirstRuns)
              <= Cardinality(Owing) + Cardinality(Exposed) + Cardinality(FirstRuns')
                   + (IF m \in Keys THEN 1 ELSE 0)
                   + (IF pc[x] = "close" /\ ok[x] /\ ~Newest(a, "completed")' THEN 1 ELSE 0)
<1> DEFINE settled == pc[x] = "close" /\ ok[x]
           lost == IF m \in Keys THEN 1 ELSE 0
           E1 == IF m \in Keys THEN Exposed \cup {m} ELSE Exposed
<1>1. /\ a = key[x] /\ a \in Keys /\ applied[a] \in Nat /\ (settled => applied[a] > 0)
      /\ pc'[x] = "idle"
      /\ \A y \in Executors \ {x} : pc'[y] = pc[y] /\ key'[y] = key[y] /\ ok'[y] = ok[y]
  BY DEF IInv, TypeOK
<1>2. Repeated' = Repeated
  BY DEF Repeated
<1>3. \A k \in Keys : k # a => Running(k)' = Running(k)
  BY <1>1 DEF Running
<1>4. Running(a)
  BY DEF Running
<1>5. /\ Owing' \subseteq Owing /\ x \notin Owing'
      /\ (settled <=> x \notin Owing)
  BY <1>1 DEF Owing
<1>6. /\ IsFiniteSet(Owing') /\ Cardinality(Owing') \in Nat /\ Cardinality(Owing) \in Nat
      /\ Cardinality(Owing') <= Cardinality(Owing)
      /\ ~settled => Cardinality(Owing') <= Cardinality(Owing) - 1
  BY <1>5, StaysOrShrinks DEF AllFinite
<1>7. /\ IsFiniteSet(E1) /\ Cardinality(E1) \in Nat /\ Cardinality(Exposed) \in Nat
      /\ Cardinality(E1) <= Cardinality(Exposed) + lost
  <2>1. CASE m \in Keys
    <3>1. IsFiniteSet(Exposed) /\ E1 \subseteq Exposed \cup {m}
      BY <2>1 DEF AllFinite
    <3> HIDE DEF E1
    <3> QED
      BY <2>1, <3>1, GrowsByOne
  <2>2. CASE m \notin Keys
    BY <2>2, FS_CardinalityType DEF AllFinite
  <2> QED
    BY <2>1, <2>2
<1>8. \A k \in Exposed' : k = a \/ k \in E1
  BY <1>3 DEF Exposed
<1>9. a \in Exposed' => applied[a] > 0 /\ ~Newest(a, "completed")'
  BY DEF Exposed
<1>10. FirstRuns' \subseteq FirstRuns
  BY <1>3, <1>4 DEF FirstRuns
<1>11. FirstRuns \subseteq FirstRuns' \cup {a}
  BY <1>3 DEF FirstRuns
<1>12. applied[a] > 0 => FirstRuns \subseteq FirstRuns'
  BY <1>1, <1>11 DEF FirstRuns
<1>13. /\ IsFiniteSet(FirstRuns') /\ Cardinality(FirstRuns') \in Nat
       /\ Cardinality(FirstRuns) \in Nat
       /\ Cardinality(FirstRuns) <= Cardinality(FirstRuns') + 1
       /\ applied[a] > 0 => Cardinality(FirstRuns) <= Cardinality(FirstRuns')
  <2>1. IsFiniteSet(FirstRuns')
    BY <1>10, FS_Subset DEF AllFinite
  <2>2. applied[a] > 0 => Cardinality(FirstRuns) <= Cardinality(FirstRuns')
    BY <1>12, <2>1, FS_Subset
  <2> QED
    BY <1>11, <2>1, <2>2, GrowsByOne
<1> HIDE DEF E1
<1>14. /\ IsFiniteSet(Exposed') /\ Cardinality(Exposed') \in Nat
       /\ Cardinality(Exposed') <= Cardinality(E1) + 1
       /\ a \notin Exposed' => Cardinality(Exposed') <= Cardinality(E1)
  <2>1. Exposed' \subseteq E1 \cup {a}
    BY <1>8
  <2>2. a \notin Exposed' => Exposed' \subseteq E1
    BY <1>8
  <2>3. /\ IsFiniteSet(Exposed') /\ Cardinality(Exposed') \in Nat
        /\ Cardinality(Exposed') <= Cardinality(E1) + 1
    BY <1>7, <2>1, GrowsByOne
  <2> QED
    BY <1>7, <2>2, <2>3, FS_Subset
<1>15. AllFinite'
  BY <1>2, <1>6, <1>13, <1>14 DEF AllFinite
<1> HIDE DEF lost, settled
<1>16. Cardinality(Owing') + Cardinality(Exposed') + Cardinality(FirstRuns)
         <= Cardinality(Owing) + Cardinality(Exposed) + Cardinality(FirstRuns') + lost
              + (IF settled /\ ~Newest(a, "completed")' THEN 1 ELSE 0)
  <2>1. lost \in Nat
    BY DEF lost
  <2>2. CASE settled /\ Newest(a, "completed")'
    BY <1>1, <1>6, <1>7, <1>9, <1>13, <1>14, <2>1, <2>2
  <2>3. CASE settled /\ ~Newest(a, "completed")'
    BY <1>1, <1>6, <1>7, <1>13, <1>14, <2>1, <2>3
  <2>4. CASE ~settled /\ applied[a] = 0
    BY <1>6, <1>7, <1>9, <1>13, <1>14, <2>1, <2>4
  <2>5. CASE ~settled /\ applied[a] > 0
    BY <1>6, <1>7, <1>13, <1>14, <2>1, <2>5
  <2> QED
    BY <1>1, <2>2, <2>3, <2>4, <2>5
<1> QED
  BY <1>2, <1>15, <1>16 DEF lost, settled

(* The action of the line an append destroys, if there is one. *)
Glued == IF eol THEN NoKey ELSE journal[Len(journal)].key

LEMMA GlueFacts ==
  IInv => /\ Glue \in 0..2 /\ (eol => Glue = 0)
          /\ (~eol => Glue = 1 + (IF Glued \in Keys THEN 1 ELSE 0))
          /\ Glued \in Keys \cup {NoKey}
<1> SUFFICES ASSUME IInv
             PROVE  /\ Glue \in 0..2 /\ (eol => Glue = 0)
                    /\ (~eol => Glue = 1 + (IF Glued \in Keys THEN 1 ELSE 0))
                    /\ Glued \in Keys \cup {NoKey}
  OBVIOUS
<1>1. ~eol => journal[Len(journal)].key \in Keys \cup {NoKey}
  <2> SUFFICES ASSUME ~eol PROVE journal[Len(journal)].key \in Keys \cup {NoKey}
    OBVIOUS
  <2>1. Len(journal) \in 1..Len(journal)
    BY EmptySeq, LenProperties DEF IInv, TypeOK
  <2>2. journal[Len(journal)] \in Line
    BY <2>1, ElementOfSeq DEF IInv, TypeOK
  <2> QED
    BY <2>2 DEF Line, Junk
<1> QED
  BY <1>1, JournalAssumption DEF Glue, Glued

(* An append loses nothing but the outcome of its own action and of the    *)
(* line it is glued to.                                                    *)
LEMMA AppendLoses ==
  ASSUME IInv, NEW l \in Line, journal' = Extended(l), NEW a, l.key \in {a, NoKey}
  PROVE  \A k \in Keys : Newest(k, "completed") /\ k # a /\ k # Glued => Newest(k, "completed")'
<1> SUFFICES ASSUME NEW k \in Keys, Newest(k, "completed"), k # a, k # Glued
             PROVE  Newest(k, "completed")'
  OBVIOUS
<1>1. k # l.key /\ (eol \/ journal[Len(journal)].key # k)
  BY JournalAssumption DEF Glued
<1> QED
  BY <1>1, LogKeeps

(* The sums of the invariant are sums of numbers. *)
LEMMA Counts ==
  ASSUME AllFinite
  PROVE  /\ Cardinality(Repeated) \in Nat /\ Cardinality(Owing) \in Nat
         /\ Cardinality(Exposed) \in Nat /\ Cardinality(FirstRuns) \in Nat
BY FS_CardinalityType DEF AllFinite

(* A call is asked for: beside another one, it has paid for itself; alone, *)
(* it takes an exposed action or one that was never done.                  *)
LEMMA AskCovered ==
  ASSUME IInv, Covered, NEW x \in Executors, NEW k \in Keys, Ask(x, k)
  PROVE  Covered'
<1>1. /\ UNCHANGED <<journal, eol, ok, applied, faults>>
      /\ ~Newest(k, "completed") /\ pc[x] = "idle"
      /\ overlaps' = IF \A y \in Executors : pc[y] = "idle" THEN overlaps ELSE overlaps + 1
      /\ key'[x] = k /\ pc'[x] \in {"work", "mark"}
      /\ \A y \in Executors \ {x} : pc'[y] = pc[y] /\ key'[y] = key[y]
  BY DEF Ask, Goto, durable, history, IInv, TypeOK
<1>2. Repeated' = Repeated /\ Glue' = Glue
  BY <1>1 DEF Repeated, Glue
<1>3. Owing' \subseteq Owing \cup {x}
  BY <1>1 DEF Owing
<1>4. \A q \in Keys : Newest(q, "completed")' = Newest(q, "completed")
  BY <1>1 DEF Newest
<1>5. \A q \in Keys : Running(q)' <=> Running(q) \/ q = k
  BY <1>1 DEF Running
<1>6. Exposed' \subseteq Exposed /\ k \notin Exposed'
  BY <1>1, <1>4, <1>5 DEF Exposed
<1>7. FirstRuns \subseteq FirstRuns' /\ FirstRuns' \subseteq FirstRuns \cup {k}
  BY <1>1, <1>5 DEF FirstRuns
<1>8. IsFiniteSet(Owing') /\ Cardinality(Owing') <= Cardinality(Owing) + 1
  BY <1>3, GrowsByOne DEF Covered, AllFinite
<1>9. /\ IsFiniteSet(Exposed') /\ Cardinality(Exposed') <= Cardinality(Exposed)
      /\ k \in Exposed => Cardinality(Exposed') <= Cardinality(Exposed) - 1
  BY <1>6, StaysOrShrinks DEF Covered, AllFinite
<1>10. IsFiniteSet(FirstRuns')
  BY <1>7, GrowsByOne DEF Covered, AllFinite
<1>11. /\ Cardinality(FirstRuns) <= Cardinality(FirstRuns')
       /\ k \in FirstRuns' \ FirstRuns => Cardinality(FirstRuns) <= Cardinality(FirstRuns') - 1
  BY <1>7, <1>10, StaysOrShrinks
<1>12. AllFinite'
  BY <1>2, <1>8, <1>9, <1>10 DEF AllFinite, Covered
<1>13. overlaps \in Nat /\ faults \in Nat /\ Glue \in 0..2 /\ applied[k] \in Nat
  BY GlueFacts DEF IInv, TypeOK
<1>14. \/ overlaps' = overlaps + 1
       \/ overlaps' = overlaps /\ k \in Exposed
       \/ overlaps' = overlaps /\ k \in FirstRuns' \ FirstRuns
  <2> SUFFICES ASSUME overlaps' # overlaps + 1
               PROVE  overlaps' = overlaps /\ (k \in Exposed \/ k \in FirstRuns' \ FirstRuns)
    OBVIOUS
  <2>1. overlaps' = overlaps /\ ~Running(k)
    BY <1>1 DEF Running
  <2>2. CASE applied[k] = 0
    BY <1>1, <1>5, <2>1, <2>2 DEF FirstRuns
  <2>3. CASE applied[k] > 0
    BY <1>1, <2>1, <2>3 DEF Exposed
  <2> QED
    BY <1>13, <2>1, <2>2, <2>3
<1>15. AllFinite
  BY DEF Covered
<1>16. /\ Cardinality(Owing') \in Nat /\ Cardinality(Exposed') \in Nat
       /\ Cardinality(FirstRuns') \in Nat
  BY <1>12, FS_CardinalityType DEF AllFinite
<1> QED
  BY <1>1, <1>2, <1>8, <1>9, <1>11, <1>12, <1>13, <1>14, <1>15, <1>16, Counts DEF Covered

(* A success ends what its call may owe; it is a first one or a repetition. *)
LEMMA WorkCovered ==
  ASSUME IInv, Covered, NEW x \in Executors, Work(x)
  PROVE  Covered'
<1> DEFINE k == key[x]
<1>1. /\ UNCHANGED <<journal, eol, key, overlaps, faults>>
      /\ pc[x] = "work" /\ pc'[x] = "close" /\ ok'[x] \in BOOLEAN
      /\ \A y \in Executors \ {x} : pc'[y] = pc[y] /\ ok'[y] = ok[y]
      /\ applied' = IF ok'[x] THEN [applied EXCEPT ![k] = @ + 1] ELSE applied
  BY DEF Work, Goto, IInv, TypeOK
<1>2. k \in Keys /\ applied[k] \in Nat /\ applied \in [Keys -> Nat]
  BY <1>1 DEF IInv, TypeOK
<1>3. Glue' = Glue
  BY <1>1 DEF Glue
<1>4. \A q \in Keys : Newest(q, "completed")' = Newest(q, "completed")
  BY <1>1 DEF Newest
<1>5. (\A q \in Keys : Running(q)' = Running(q)) /\ Running(k)
  BY <1>1 DEF Running
<1>6. Exposed' = Exposed
  BY <1>1, <1>2, <1>4, <1>5 DEF Exposed
<1>7. Owing' \subseteq Owing /\ x \in Owing /\ (ok'[x] => x \notin Owing')
  BY <1>1 DEF Owing
<1>8. /\ IsFiniteSet(Owing') /\ Cardinality(Owing') <= Cardinality(Owing)
      /\ ok'[x] => Cardinality(Owing') <= Cardinality(Owing) - 1
  BY <1>7, StaysOrShrinks DEF Covered, AllFinite
<1>9. /\ ~ok'[x] \/ applied[k] > 0 => FirstRuns' = FirstRuns
      /\ FirstRuns' \subseteq FirstRuns /\ FirstRuns \subseteq FirstRuns' \cup {k}
  BY <1>1, <1>2, <1>5 DEF FirstRuns
<1>10. IsFiniteSet(FirstRuns') /\ Cardinality(FirstRuns) <= Cardinality(FirstRuns') + 1
  <2>1. IsFiniteSet(FirstRuns')
    BY <1>9, FS_Subset DEF Covered, AllFinite
  <2> QED
    BY <1>9, <2>1, GrowsByOne
<1>11. /\ ~ok'[x] \/ applied[k] = 0 => Repeated' \subseteq Repeated
       /\ Repeated' \subseteq Repeated \cup {<<k, applied[k] + 1>>}
  <2>1. \A p : p \in Repeated <=> \E q \in Keys : p \in {q} \X (2..applied[q])
    BY DEF Repeated
  <2>2. \A p : p \in Repeated' <=> \E q \in Keys : p \in {q} \X (2..applied'[q])
    BY DEF Repeated
  <2>3. \A q \in Keys : applied'[q] = IF ok'[x] /\ q = k THEN applied[q] + 1 ELSE applied[q]
    BY <1>1, <1>2
  <2>4. ASSUME NEW q \in Keys, NEW p \in {q} \X (2..applied'[q])
        PROVE  \/ p \in {q} \X (2..applied[q])
               \/ ok'[x] /\ applied[k] # 0 /\ p = <<k, applied[k] + 1>>
    BY <1>2, <2>3, <2>4
  <2>5. ASSUME NEW p \in Repeated'
        PROVE  p \in Repeated \/ (ok'[x] /\ applied[k] # 0 /\ p = <<k, applied[k] + 1>>)
    <3>1. PICK q \in Keys : p \in {q} \X (2..applied'[q])
      BY <2>2, <2>5
    <3> QED
      BY <2>1, <2>4, <3>1, Zenon
  <2> QED
    BY <2>5
<1>12. /\ IsFiniteSet(Repeated') /\ Cardinality(Repeated') <= Cardinality(Repeated) + 1
       /\ ~ok'[x] \/ applied[k] = 0 => Cardinality(Repeated') <= Cardinality(Repeated)
  <2>1. IsFiniteSet(Repeated') /\ Cardinality(Repeated') <= Cardinality(Repeated) + 1
    BY <1>11, GrowsByOne DEF Covered, AllFinite
  <2> QED
    BY <1>11, <2>1, FS_Subset DEF Covered, AllFinite
<1>13. AllFinite'
  BY <1>6, <1>8, <1>10, <1>12 DEF AllFinite, Covered
<1>14. overlaps \in Nat /\ faults \in Nat /\ Glue \in 0..2
  BY GlueFacts DEF IInv, TypeOK
<1>15. /\ Cardinality(Owing') \in Nat /\ Cardinality(FirstRuns') \in Nat
       /\ Cardinality(Repeated') \in Nat
  BY <1>13, FS_CardinalityType DEF AllFinite
<1>16. AllFinite
  BY DEF Covered
<1> HIDE DEF k
<1>17. CASE ok'[x] /\ applied[k] = 0
  BY <1>1, <1>3, <1>6, <1>8, <1>10, <1>12, <1>13, <1>14, <1>15, <1>16, <1>17, Counts DEF Covered
<1>18. CASE ok'[x] /\ applied[k] > 0
  BY <1>1, <1>3, <1>6, <1>8, <1>9, <1>12, <1>13, <1>14, <1>15, <1>16, <1>18, Counts DEF Covered
<1>19. CASE ~ok'[x]
  BY <1>1, <1>3, <1>6, <1>8, <1>9, <1>12, <1>13, <1>14, <1>15, <1>16, <1>19, Counts DEF Covered
<1> QED
  BY <1>1, <1>2, <1>17, <1>18, <1>19

(* A mark may destroy the line it is glued to; its own action is running. *)
LEMMA MarkCovered ==
  ASSUME IInv, Covered, NEW x \in Executors, Mark(x)
  PROVE  Covered'
<1> DEFINE k == key[x]
           l == Entry(k, "in_flight")
<1>1. /\ UNCHANGED <<key, ok, applied, overlaps, faults>>
      /\ journal' = Extended(l) /\ eol' = TRUE
      /\ pc[x] = "mark" /\ pc'[x] = "work"
      /\ \A y \in Executors \ {x} : pc'[y] = pc[y]
  BY DEF Mark, Goto, Log, history, IInv, TypeOK
<1>2. k \in Keys /\ l \in Line /\ l.key = k
  BY <1>1 DEF IInv, TypeOK, Line, Entry, Status
<1>3. Repeated' = Repeated /\ Glue' = 0
  BY <1>1 DEF Repeated, Glue
<1>4. Owing' = Owing
  BY <1>1 DEF Owing
<1>5. (\A q \in Keys : Running(q)' = Running(q)) /\ Running(k)
  BY <1>1 DEF Running
<1>6. FirstRuns' = FirstRuns
  BY <1>1, <1>5 DEF FirstRuns
<1> HIDE DEF k, l
<1>7. \A q \in Keys : Newest(q, "completed") /\ q # k /\ q # Glued => Newest(q, "completed")'
  BY <1>1, <1>2, AppendLoses
<1>8. Exposed' \subseteq Exposed \cup ({Glued} \cap Keys)
  BY <1>1, <1>5, <1>7 DEF Exposed
<1>9. /\ IsFiniteSet(Exposed') /\ Cardinality(Exposed') <= Cardinality(Exposed) + 1
      /\ Glued \notin Keys => Cardinality(Exposed') <= Cardinality(Exposed)
  <2>1. Exposed' \subseteq Exposed \cup {Glued}
    BY <1>8
  <2>2. Glued \notin Keys => Exposed' \subseteq Exposed
    BY <1>8
  <2> QED
    BY <2>1, <2>2, GrowsByOne, FS_Subset DEF Covered, AllFinite
<1>10. Glued \in Keys => Glue = 2
  BY GlueFacts, JournalAssumption DEF Glued
<1>11. overlaps \in Nat /\ faults \in Nat /\ Glue \in 0..2
  BY GlueFacts DEF IInv, TypeOK
<1>12. AllFinite'
  BY <1>3, <1>4, <1>6, <1>9 DEF AllFinite, Covered
<1>13. AllFinite
  BY DEF Covered
<1>14. Cardinality(Exposed') \in Nat
  BY <1>9, FS_CardinalityType
<1> QED
  BY <1>1, <1>3, <1>4, <1>6, <1>9, <1>10, <1>11, <1>12, <1>13, <1>14, Counts DEF Covered

(* The outcome is appended, by a call that ends. *)
LEMMA OutcomeCovered ==
  ASSUME IInv, Covered, NEW x \in Executors, pc[x] = "close",
         Log(Entry(key[x], IF ok[x] THEN "completed" ELSE "failed")),
         pc' = [pc EXCEPT ![x] = "idle"], key' = [key EXCEPT ![x] = NoKey],
         ok' = [ok EXCEPT ![x] = FALSE], applied' = applied, overlaps' = overlaps,
         faults' \in {faults, faults + 1}
  PROVE  Covered'
<1>1. PICK k : k = key[x]
  OBVIOUS
<1>2. k \in Keys /\ ok[x] \in BOOLEAN
  BY <1>1 DEF IInv, TypeOK
<1> DEFINE l == Entry(k, IF ok[x] THEN "completed" ELSE "failed")
<1>3. journal' = Extended(l) /\ eol' = TRUE
  BY <1>1 DEF Log
<1>4. l \in Line /\ l.key = k
  BY <1>2 DEF Line, Entry, Status
<1>5. eol /\ ok[x] => Newest(k, "completed")'
  <2>1. ok[x] => l = Entry(k, "completed")
    OBVIOUS
  <2> QED
    BY <1>2, <1>3, <2>1, LogReports
<1> HIDE DEF l
<1>6. \A q \in Keys : Newest(q, "completed") /\ q # k /\ q # Glued => Newest(q, "completed")'
  BY <1>3, <1>4, AppendLoses
<1>7. PICK m : m = Glued
  OBVIOUS
<1>8. /\ AllFinite' /\ Repeated' = Repeated
      /\ Cardinality(Owing') + Cardinality(Exposed') + Cardinality(FirstRuns)
           <= Cardinality(Owing) + Cardinality(Exposed) + Cardinality(FirstRuns')
                + (IF m \in Keys THEN 1 ELSE 0)
                + (IF pc[x] = "close" /\ ok[x] /\ ~Newest(k, "completed")' THEN 1 ELSE 0)
  BY <1>1, <1>6, <1>7, LeaveCost DEF Covered
<1>9. /\ Glue \in 0..2 /\ (eol => Glue = 0 /\ m \notin Keys)
      /\ ~eol => Glue = 1 + (IF m \in Keys THEN 1 ELSE 0)
  BY <1>7, GlueFacts, JournalAssumption DEF Glued
<1>10. Glue' = 0
  BY <1>3 DEF Glue
<1>11. overlaps \in Nat /\ faults \in Nat /\ eol \in BOOLEAN
  BY DEF IInv, TypeOK
<1>12. /\ Cardinality(Owing') \in Nat /\ Cardinality(Exposed') \in Nat
       /\ Cardinality(FirstRuns') \in Nat
  BY <1>8, FS_CardinalityType DEF AllFinite
<1>13. AllFinite
  BY DEF Covered
<1>14. (IF m \in Keys THEN 1 ELSE 0)
         + (IF pc[x] = "close" /\ ok[x] /\ ~Newest(k, "completed")' THEN 1 ELSE 0) <= Glue
  BY <1>2, <1>5, <1>9, <1>11
<1> QED
  BY <1>8, <1>9, <1>10, <1>11, <1>12, <1>13, <1>14, Counts DEF Covered

(* A call is cut off with the journal as it was. *)
LEMMA InterruptCovered ==
  ASSUME IInv, Covered, NEW x \in Executors, Interrupt(x)
  PROVE  Covered'
<1>1. /\ pc[x] # "idle" /\ UNCHANGED <<journal, eol, applied, overlaps>> /\ faults' = faults + 1
      /\ pc' = [pc EXCEPT ![x] = "idle"] /\ key' = [key EXCEPT ![x] = NoKey]
      /\ ok' = [ok EXCEPT ![x] = FALSE]
  BY DEF Interrupt, Leave
<1>2. PICK k : k = key[x]
  OBVIOUS
<1>3. \A q \in Keys : Newest(q, "completed") /\ q # k /\ q # NoKey => Newest(q, "completed")'
  BY <1>1 DEF Newest
<1>4. /\ AllFinite' /\ Repeated' = Repeated
      /\ Cardinality(Owing') + Cardinality(Exposed') + Cardinality(FirstRuns)
           <= Cardinality(Owing) + Cardinality(Exposed) + Cardinality(FirstRuns')
                + (IF NoKey \in Keys THEN 1 ELSE 0)
                + (IF pc[x] = "close" /\ ok[x] /\ ~Newest(k, "completed")' THEN 1 ELSE 0)
  BY <1>1, <1>2, <1>3, LeaveCost DEF Covered
<1>5. Glue' = Glue /\ Glue \in 0..2
  BY <1>1, GlueFacts DEF Glue
<1>6. overlaps \in Nat /\ faults \in Nat
  BY DEF IInv, TypeOK
<1>7. /\ Cardinality(Owing') \in Nat /\ Cardinality(Exposed') \in Nat
      /\ Cardinality(FirstRuns') \in Nat
  BY <1>4, FS_CardinalityType DEF AllFinite
<1>8. AllFinite
  BY DEF Covered
<1>9. NoKey \notin Keys
  BY JournalAssumption
<1> QED
  BY <1>1, <1>4, <1>5, <1>6, <1>7, <1>8, <1>9, Counts DEF Covered

(* A call is cut off inside a line. *)
LEMMA TearCovered ==
  ASSUME IInv, Covered, NEW x \in Executors, TearLine(x)
  PROVE  Covered'
<1>1. PICK k : k = key[x]
  OBVIOUS
<1> DEFINE s == CASE pc[x] = "mark"           -> "in_flight"
                  [] pc[x] = "close" /\ ok[x]  -> "completed"
                  [] pc[x] = "close" /\ ~ok[x] -> "failed"
           e == Entry(k, s)
<1>2. /\ pc[x] \in {"mark", "close"} /\ UNCHANGED <<applied, overlaps>>
      /\ eol' = FALSE /\ faults' = faults + 1
      /\ pc' = [pc EXCEPT ![x] = "idle"] /\ key' = [key EXCEPT ![x] = NoKey]
      /\ ok' = [ok EXCEPT ![x] = FALSE]
      /\ journal' = Extended(Junk) \/ journal' = Extended(e)
  BY <1>1 DEF TearLine, Leave
<1>3. k \in Keys /\ ok[x] \in BOOLEAN
  BY <1>1, <1>2 DEF IInv, TypeOK
<1>4. s \in Status /\ (pc[x] = "close" /\ ok[x] => s = "completed")
  BY <1>2, <1>3 DEF Status
<1> HIDE DEF s
<1>5. /\ e \in Line /\ e.key = k /\ Junk \in Line /\ Junk.key = NoKey
      /\ s = "completed" => e = Entry(k, "completed")
  BY <1>3, <1>4 DEF Line, Entry, Junk
<1> HIDE DEF e
<1>6. PICK l \in {Junk, e} : journal' = Extended(l)
  BY <1>2
<1>7. l \in Line /\ l.key \in {k, NoKey}
  BY <1>5, <1>6
<1>8. \A q \in Keys : Newest(q, "completed") /\ q # k /\ q # Glued => Newest(q, "completed")'
  BY <1>6, <1>7, AppendLoses
<1>9. PICK m : m = Glued
  OBVIOUS
<1>10. /\ AllFinite' /\ Repeated' = Repeated
       /\ Cardinality(Owing') + Cardinality(Exposed') + Cardinality(FirstRuns)
            <= Cardinality(Owing) + Cardinality(Exposed) + Cardinality(FirstRuns')
                 + (IF m \in Keys THEN 1 ELSE 0)
                 + (IF pc[x] = "close" /\ ok[x] /\ ~Newest(k, "completed")' THEN 1 ELSE 0)
  BY <1>1, <1>2, <1>8, <1>9, LeaveCost DEF Covered
<1>11. /\ Glue \in 0..2 /\ (eol => Glue = 0 /\ m \notin Keys)
       /\ ~eol => Glue = 1 + (IF m \in Keys THEN 1 ELSE 0)
  BY <1>9, GlueFacts, JournalAssumption DEF Glued
<1>12. journal'[Len(journal')] = IF eol THEN l ELSE Junk
  BY <1>6, <1>7, LogLast
<1>13. Glue' \in {1, 2} /\ (~eol \/ l = Junk => Glue' = 1)
  BY <1>2, <1>5, <1>12 DEF Glue
<1>14. eol /\ l # Junk /\ pc[x] = "close" /\ ok[x] => Newest(k, "completed")'
  BY <1>3, <1>4, <1>5, <1>6, LogReports
<1>15. overlaps \in Nat /\ faults \in Nat /\ eol \in BOOLEAN
  BY DEF IInv, TypeOK
<1>16. PICK lost : lost = (IF m \in Keys THEN 1 ELSE 0)
  OBVIOUS
<1>17. PICK own : own = (IF pc[x] = "close" /\ ok[x] /\ ~Newest(k, "completed")' THEN 1 ELSE 0)
  OBVIOUS
<1>18. /\ lost \in {0, 1} /\ own \in {0, 1}
       /\ eol => Glue = 0 /\ lost = 0
       /\ ~eol => Glue = 1 + lost
       /\ eol /\ l # Junk => own = 0
  BY <1>11, <1>14, <1>16, <1>17
<1>19. Cardinality(Owing') + Cardinality(Exposed') + Cardinality(FirstRuns)
         <= Cardinality(Owing) + Cardinality(Exposed) + Cardinality(FirstRuns') + lost + own
  BY <1>10, <1>16, <1>17
<1>20. Glue' + lost + own <= Glue + 2
  <2>1. CASE eol /\ l # Junk
    <3>1. PICK g \in {1, 2} : g = Glue'
      BY <1>13
    <3>2. Glue = 0 /\ lost = 0 /\ own = 0
      BY <1>18, <2>1
    <3>3. g + lost + own <= Glue + 2
      BY <3>2
    <3> QED
      BY <3>1, <3>3
  <2>2. CASE eol /\ l = Junk
    BY <1>13, <1>18, <2>2
  <2>3. CASE ~eol
    <3>1. Glue' = 1 /\ Glue = 1 + lost
      BY <1>13, <1>18, <2>3
    <3> QED
      BY <1>18, <3>1
  <2> QED
    BY <1>15, <2>1, <2>2, <2>3
<1>21. /\ Cardinality(Owing') \in Nat /\ Cardinality(Exposed') \in Nat
       /\ Cardinality(FirstRuns') \in Nat
  BY <1>10, FS_CardinalityType DEF AllFinite
<1>22. AllFinite
  BY DEF Covered
<1> QED
  BY <1>2, <1>10, <1>11, <1>13, <1>15, <1>18, <1>19, <1>20, <1>21, <1>22, Counts DEF Covered

LEMMA CoveredStep == IInv /\ Covered /\ [Next]_vars => Covered'
<1> SUFFICES ASSUME IInv, Covered, [Next]_vars PROVE Covered'
  OBVIOUS
<1>1. ASSUME UNCHANGED <<journal, eol, pc, key, ok, applied, overlaps, faults>> PROVE Covered'
  <2>1. /\ Repeated' = Repeated /\ Owing' = Owing /\ Glue' = Glue
        /\ \A q : Running(q)' = Running(q)
        /\ \A q : Newest(q, "completed")' = Newest(q, "completed")
    BY <1>1 DEF Repeated, Owing, Glue, Running, Newest
  <2>2. Exposed' = Exposed /\ FirstRuns' = FirstRuns
    BY <1>1, <2>1 DEF Exposed, FirstRuns
  <2> QED
    BY <1>1, <2>1, <2>2 DEF Covered, AllFinite
<1>2. CASE UNCHANGED vars
  BY <1>1, <1>2 DEF vars, durable, local, history
<1>3. ASSUME NEW x \in Executors, NEW k \in Keys, Replay(x, k) PROVE Covered'
  BY <1>1, <1>3 DEF Replay, durable, local
<1>4. ASSUME NEW x \in Executors, Close(x) PROVE Covered'
  <2>1. /\ pc[x] = "close" /\ Log(Entry(key[x], IF ok[x] THEN "completed" ELSE "failed"))
        /\ pc' = [pc EXCEPT ![x] = "idle"] /\ key' = [key EXCEPT ![x] = NoKey]
        /\ ok' = [ok EXCEPT ![x] = FALSE] /\ applied' = applied /\ overlaps' = overlaps
        /\ faults' \in {faults, faults + 1}
    BY <1>4 DEF Close, Goto
  <2> QED
    BY <2>1, OutcomeCovered
<1>5. ASSUME NEW x \in Executors, InterruptReply(x) PROVE Covered'
  <2>1. /\ pc[x] = "close" /\ Log(Entry(key[x], IF ok[x] THEN "completed" ELSE "failed"))
        /\ pc' = [pc EXCEPT ![x] = "idle"] /\ key' = [key EXCEPT ![x] = NoKey]
        /\ ok' = [ok EXCEPT ![x] = FALSE] /\ applied' = applied /\ overlaps' = overlaps
        /\ faults' \in {faults, faults + 1}
    BY <1>5 DEF InterruptReply, Leave
  <2> QED
    BY <2>1, OutcomeCovered
<1>6. CASE Next
  <2>1. PICK x \in Executors :
          \/ \E k \in Keys : Replay(x, k) \/ Ask(x, k)
          \/ Mark(x) \/ Work(x) \/ Close(x)
          \/ Interrupt(x) \/ InterruptReply(x) \/ TearLine(x)
    BY <1>6, Zenon DEF Next
  <2> QED
    BY <2>1, <1>3, <1>4, <1>5, AskCovered, MarkCovered, WorkCovered, InterruptCovered,
       TearCovered, Zenon
<1> QED
  BY <1>2, <1>6, Zenon

LEMMA CoveredInit == Init => Covered
<1> SUFFICES ASSUME Init PROVE Covered
  OBVIOUS
<1>1. Repeated = {} /\ Owing = {} /\ Exposed = {} /\ FirstRuns = {} /\ Glue = 0
  BY DEF Init, Repeated, Owing, Exposed, FirstRuns, Running, Glue
<1> QED
  BY <1>1, FS_EmptySet DEF Init, Covered, AllFinite

(* Whatever the number of executors, actions, calls and faults, an action  *)
(* succeeds again at most twice per fault and once per overlapping call.   *)
THEOREM RepeatsAlwaysBounded == Spec => []RepeatsAreBounded
<1>1. IInv /\ Covered => RepeatsAreBounded
  <2> SUFFICES ASSUME IInv, Covered PROVE RepeatsAreBounded
    OBVIOUS
  <2>1. AllFinite /\ Cardinality(FirstRuns) <= Cardinality(Owing)
    BY FirstRunsOwe DEF Covered
  <2>2. Glue \in 0..2 /\ overlaps \in Nat /\ faults \in Nat
    BY GlueFacts DEF IInv, TypeOK
  <2> QED
    BY <2>1, <2>2, Counts DEF Covered, RepeatsAreBounded, Repeats
<1>2. IInv /\ Covered /\ [Next]_vars => Covered'
  BY CoveredStep
<1> QED
  BY <1>1, <1>2, CoveredInit, Invariance, PTL DEF Spec

-----------------------------------------------------------------------------
(***************************************************************************)
(* The journal of running shell operations, which the same executors keep: *)
(* proofs about ToolOperations, under names of its own, for executors that *)
(* run one after the other, and any operations, crashes and exceptions.    *)
(***************************************************************************)
CONSTANTS Ops, NoOp, Absent, MaxOpFaults

VARIABLES file, temp, inFlight, resulted, recovered, opPc, phase, mem, op, ran, sound, opFaults

TO == INSTANCE ToolOperations WITH MaxFaults <- MaxOpFaults, pc <- opPc, faults <- opFaults

(* What a read returns; while the executors are sound, it is the file. *)
LEMMA ReadFacts ==
  ASSUME TO!TypeOK, NEW x \in Executors, NEW found \in SUBSET Ops, TO!Read(x, found)
  PROVE  /\ sound' \in BOOLEAN /\ opFaults' \in Nat
         /\ sound' => sound /\ found = file /\ TO!OnlyOneUp(x)
<1>1. CASE found = file /\ UNCHANGED opFaults /\ sound' = (sound /\ TO!OnlyOneUp(x))
  <2>1. opFaults' \in Nat
    BY <1>1 DEF TO!TypeOK
  <2> QED
    BY <1>1, <2>1, Zenon
<1>2. CASE opFaults < MaxOpFaults /\ opFaults' = opFaults + 1 /\ sound' = FALSE
  <2>1. opFaults' \in Nat
    BY <1>2 DEF TO!TypeOK
  <2> QED
    BY <1>2, <2>1, Zenon
<1> QED
  BY <1>1, <1>2 DEF TO!Read

LEMMA OperationsStart == TO!Init => TO!TypeOK /\ TO!IInv
<1>1. TO!Init => TO!TypeOK
  <2>1. TO!Init => sound \in BOOLEAN
    BY Zenon DEF TO!Init
  <2>2. TO!Init => opFaults \in Nat
    BY DEF TO!Init
  <2>3. TO!Init => temp = Absent
    BY DEF TO!Init
  <2>4. TO!Init => /\ file \subseteq Ops /\ ran \subseteq Ops
                /\ inFlight \subseteq Ops /\ resulted \subseteq Ops /\ recovered \subseteq Ops
    BY DEF TO!Init
  <2>5. TO!Init => /\ opPc \in [Executors -> {"down"}] /\ phase \in [Executors -> {"recover"}]
                /\ mem \in [Executors -> SUBSET Ops] /\ op \in [Executors -> Ops \cup {NoOp}]
    BY DEF TO!Init
  <2> QED
    BY <2>1, <2>2, <2>3, <2>4, <2>5 DEF TO!TypeOK
<1>2. TO!Init => TO!IInv
  BY DEF TO!Init, TO!IInv, TO!EventsFollowJournal, TO!NothingDisappears, TO!ExecutorInv,
         TO!OnlyOneUp
<1> QED
  BY <1>1, <1>2

LEMMA OperationsTypeStep == TO!TypeOK /\ [TO!Next]_TO!vars => TO!TypeOK'
<1> SUFFICES ASSUME TO!TypeOK, [TO!Next]_TO!vars PROVE TO!TypeOK'
  OBVIOUS
<1> USE DEF TO!Goto
<1>1. CASE UNCHANGED TO!vars
  BY <1>1 DEF TO!TypeOK, TO!vars, TO!files, TO!events, TO!local
<1>2. ASSUME NEW x \in Executors, TO!Construct(x) PROVE TO!TypeOK'
  <2>1. PICK found \in SUBSET Ops :
          /\ TO!Read(x, found)
          /\ mem' = [mem EXCEPT ![x] = found]
          /\ TO!Goto(x, "down", IF found = {} THEN "idle" ELSE "recover")
    BY <1>2 DEF TO!Construct
  <2>2. sound' \in BOOLEAN /\ opFaults' \in Nat
    BY <2>1, ReadFacts
  <2> QED
    BY <1>2, <2>1, <2>2 DEF TO!Construct, TO!TypeOK, TO!files, TO!events
<1>3. ASSUME NEW x \in Executors, NEW o \in Ops, TO!Start(x, o) PROVE TO!TypeOK'
  <2>1. PICK found \in SUBSET Ops : TO!Read(x, found) /\ mem' = [mem EXCEPT ![x] = found \cup {o}]
    BY <1>3 DEF TO!Start
  <2>2. sound' \in BOOLEAN /\ opFaults' \in Nat
    BY <2>1, ReadFacts
  <2> QED
    BY <1>3, <2>1, <2>2 DEF TO!Start, TO!TypeOK, TO!files, TO!events
<1>4. ASSUME NEW x \in Executors, TO!Finish(x) PROVE TO!TypeOK'
  <2>1. PICK found \in SUBSET Ops : TO!Read(x, found) /\ mem' = [mem EXCEPT ![x] = found \ {op[x]}]
    BY <1>4 DEF TO!Finish
  <2>2. sound' \in BOOLEAN /\ opFaults' \in Nat
    BY <2>1, ReadFacts
  <2> QED
    BY <1>4, <2>1, <2>2 DEF TO!Finish, TO!TypeOK, TO!files, TO!events
<1>5. ASSUME NEW x \in Executors, TO!WriteTemp(x) PROVE TO!TypeOK'
  BY <1>5 DEF TO!WriteTemp, TO!TypeOK, TO!events
<1>6. ASSUME NEW x \in Executors, TO!Replace(x) PROVE TO!TypeOK'
  BY <1>6 DEF TO!Replace, TO!TypeOK, TO!events
<1>7. ASSUME NEW x \in Executors, TO!ReplaceFails(x) PROVE TO!TypeOK'
  BY <1>7 DEF TO!ReplaceFails, TO!TypeOK, TO!files, TO!events
<1>8. ASSUME NEW x \in Executors, NEW o \in Ops, TO!Recover(x, o) PROVE TO!TypeOK'
  <2>1. opPc[x] = "recover" /\ opPc' \in {[opPc EXCEPT ![x] = "write"], [opPc EXCEPT ![x] = "recover"]}
    BY <1>8 DEF TO!Recover
  <2>2. phase[x] = "recover"
    BY <2>1 DEF TO!TypeOK
  <2>3. /\ mem' \in [Executors -> SUBSET Ops]
        /\ inFlight' \subseteq Ops /\ recovered' \subseteq Ops
        /\ UNCHANGED <<file, temp, resulted, phase, op, ran, sound, opFaults>>
    BY <1>8 DEF TO!Recover, TO!TypeOK, TO!files
  <2>4. \A y \in Executors : opPc'[y] \in {"write", "replace"} => y = x \/ opPc'[y] = opPc[y]
    BY <2>1 DEF TO!TypeOK
  <2> QED
    BY <2>1, <2>2, <2>3, <2>4 DEF TO!TypeOK
<1>9. ASSUME NEW x \in Executors, TO!Announce(x) \/ TO!Run(x) \/ TO!Result(x) PROVE TO!TypeOK'
  BY <1>9 DEF TO!Announce, TO!Run, TO!Result, TO!TypeOK, TO!files, TO!events
<1>10. ASSUME NEW x \in Executors, TO!Raise(x) \/ TO!Crash(x) PROVE TO!TypeOK'
  BY <1>10 DEF TO!Raise, TO!Crash, TO!TypeOK, TO!files, TO!events
<1>11. CASE TO!Next
  <2>1. PICK x \in Executors :
          \/ TO!Construct(x) \/ \E o \in Ops : TO!Start(x, o)
          \/ TO!Step(x)
          \/ TO!Raise(x) \/ TO!Crash(x)
    BY <1>11, Zenon DEF TO!Next
  <2>2. CASE TO!Step(x)
    BY <2>2, <1>4, <1>5, <1>6, <1>7, <1>8, <1>9, Zenon DEF TO!Step
  <2> QED
    BY <2>1, <2>2, <1>2, <1>3, <1>10, Zenon
<1> QED
  BY <1>1, <1>11, Zenon

(* The invariant, and what a step of x keeps of it. *)
Lone(x) == TO!EventsFollowJournal /\ TO!NothingDisappears /\ (sound => TO!ExecutorInv(x))

LEMMA LoneStep ==
  ASSUME TO!TypeOK, NEW x \in Executors, Lone(x),
         \/ TO!Construct(x) \/ \E o \in Ops : TO!Start(x, o)
         \/ TO!Step(x)
         \/ TO!Raise(x) \/ TO!Crash(x)
  PROVE  Lone(x)'
<1> USE DEF TO!Goto, Lone, TO!EventsFollowJournal, TO!NothingDisappears, TO!ExecutorInv, TO!Content
<1> SUFFICES ASSUME sound' PROVE Lone(x)'
  OBVIOUS
<1>2. CASE TO!Construct(x)
  <2>1. PICK found \in SUBSET Ops :
          /\ TO!Read(x, found)
          /\ mem' = [mem EXCEPT ![x] = found]
          /\ TO!Goto(x, "down", IF found = {} THEN "idle" ELSE "recover")
    BY <1>2 DEF TO!Construct
  <2>2. sound /\ found = file /\ TO!OnlyOneUp(x)
    BY <2>1, ReadFacts
  <2> QED
    BY <1>2, <2>1, <2>2 DEF TO!Construct, TO!TypeOK, TO!files, TO!events
<1>3. ASSUME NEW o \in Ops, TO!Start(x, o) PROVE Lone(x)'
  <2>1. PICK found \in SUBSET Ops : TO!Read(x, found) /\ mem' = [mem EXCEPT ![x] = found \cup {o}]
    BY <1>3 DEF TO!Start
  <2>2. sound /\ found = file /\ TO!OnlyOneUp(x)
    BY <2>1, ReadFacts
  <2> QED
    BY <1>3, <2>1, <2>2 DEF TO!Start, TO!TypeOK, TO!files, TO!events
<1>4. CASE TO!Finish(x)
  <2>1. PICK found \in SUBSET Ops : TO!Read(x, found) /\ mem' = [mem EXCEPT ![x] = found \ {op[x]}]
    BY <1>4 DEF TO!Finish
  <2>2. sound /\ found = file /\ TO!OnlyOneUp(x)
    BY <2>1, ReadFacts
  <2> QED
    BY <1>4, <2>1, <2>2 DEF TO!Finish, TO!TypeOK, TO!files, TO!events
<1>5. CASE TO!WriteTemp(x)
  BY <1>5 DEF TO!WriteTemp, TO!TypeOK, TO!events
<1>6. CASE TO!Replace(x)
  BY <1>6 DEF TO!Replace, TO!TypeOK, TO!events
<1>7. CASE TO!ReplaceFails(x)
  BY <1>7 DEF TO!ReplaceFails, TO!TypeOK, TO!files, TO!events
<1>8. ASSUME NEW o \in Ops, TO!Recover(x, o) PROVE Lone(x)'
  BY <1>8 DEF TO!Recover, TO!TypeOK, TO!files
<1>9. CASE TO!Announce(x)
  BY <1>9 DEF TO!Announce, TO!TypeOK, TO!files
<1>10. CASE TO!Run(x)
  BY <1>10 DEF TO!Run, TO!TypeOK, TO!files, TO!events
<1>11. CASE TO!Result(x)
  BY <1>11 DEF TO!Result, TO!TypeOK, TO!files
<1>12. CASE TO!Raise(x) \/ TO!Crash(x)
  BY <1>12 DEF TO!Raise, TO!Crash, TO!TypeOK, TO!files, TO!events
<1> QED
  BY <1>2, <1>3, <1>4, <1>5, <1>6, <1>7, <1>8, <1>9, <1>10, <1>11, <1>12 DEF TO!Step

(* A step of x that leaves the executors sound leaves x the only one up. *)
LEMMA OneUpStep ==
  ASSUME TO!TypeOK, NEW x \in Executors,
         sound => \A y \in Executors : opPc[y] # "down" => TO!OnlyOneUp(y),
         \/ TO!Construct(x) \/ \E o \in Ops : TO!Start(x, o)
         \/ TO!Step(x)
         \/ TO!Raise(x) \/ TO!Crash(x),
         sound'
  PROVE  sound /\ TO!OnlyOneUp(x) /\ TO!OnlyOneUp(x)'
<1> USE DEF TO!Goto
<1>1. \A y \in Executors \ {x} : opPc'[y] = opPc[y]
  BY DEF TO!Construct, TO!Start, TO!Step, TO!WriteTemp, TO!Replace, TO!ReplaceFails, TO!Recover,
         TO!Announce, TO!Run, TO!Result, TO!Finish, TO!Raise, TO!Crash, TO!TypeOK
<1>2. sound /\ TO!OnlyOneUp(x)
  <2>1. CASE TO!Construct(x)
    BY <2>1, ReadFacts DEF TO!Construct
  <2>2. ASSUME NEW o \in Ops, TO!Start(x, o) PROVE sound /\ TO!OnlyOneUp(x)
    BY <2>2, ReadFacts DEF TO!Start
  <2>3. CASE TO!Finish(x)
    BY <2>3, ReadFacts DEF TO!Finish
  <2>4. CASE \/ TO!WriteTemp(x) \/ TO!Replace(x) \/ TO!ReplaceFails(x) \/ \E o \in Ops : TO!Recover(x, o)
             \/ TO!Announce(x) \/ TO!Run(x) \/ TO!Result(x) \/ TO!Raise(x) \/ TO!Crash(x)
    <3>1. sound' = sound /\ opPc[x] # "down"
      BY <2>4 DEF TO!WriteTemp, TO!Replace, TO!ReplaceFails, TO!Recover, TO!Announce,
              TO!Run, TO!Result, TO!Raise, TO!Crash
    <3> QED
      BY <3>1
  <2> QED
    BY <2>1, <2>2, <2>3, <2>4 DEF TO!Step
<1> QED
  BY <1>1, <1>2 DEF TO!OnlyOneUp

LEMMA OperationsStep == TO!TypeOK /\ TO!IInv /\ [TO!Next]_TO!vars => TO!IInv'
<1> SUFFICES ASSUME TO!TypeOK, TO!IInv, [TO!Next]_TO!vars PROVE TO!IInv'
  OBVIOUS
<1>1. CASE UNCHANGED TO!vars
  BY <1>1 DEF TO!IInv, TO!EventsFollowJournal, TO!NothingDisappears, TO!ExecutorInv, TO!Content, TO!OnlyOneUp,
              TO!vars, TO!files, TO!events, TO!local
<1>2. CASE TO!Next
  <2>1. PICK x \in Executors :
          \/ TO!Construct(x) \/ \E o \in Ops : TO!Start(x, o)
          \/ TO!Step(x)
          \/ TO!Raise(x) \/ TO!Crash(x)
    BY <1>2, Zenon DEF TO!Next
  <2>2. Lone(x)
    BY DEF TO!IInv, Lone
  <2>3. Lone(x)'
    BY <2>1, <2>2, LoneStep
  <2>4. sound' => TO!OnlyOneUp(x)'
    BY <2>1, OneUpStep DEF TO!IInv
  <2>5. ASSUME sound', NEW y \in Executors PROVE TO!ExecutorInv(y)' /\ (opPc'[y] # "down" => TO!OnlyOneUp(y)')
    <3>1. CASE y = x
      BY <2>3, <2>4, <2>5, <3>1 DEF Lone
    <3>2. CASE y # x
      <4>1. opPc'[y] = "down"
        BY <2>4, <2>5, <3>2 DEF TO!OnlyOneUp
      <4> QED
        BY <4>1 DEF TO!ExecutorInv
    <3> QED
      BY <3>1, <3>2
  <2> QED
    BY <2>3, <2>5 DEF TO!IInv, Lone
<1> QED
  BY <1>1, <1>2

-----------------------------------------------------------------------------
(* Every variable of the journal keeps its type, for any executors. *)
THEOREM OperationsTypeCorrect == TO!Spec => []TO!TypeOK
<1>1. TO!Init => TO!TypeOK
  BY OperationsStart
<1>2. TO!TypeOK /\ [TO!Next]_TO!vars => TO!TypeOK'
  BY OperationsTypeStep
<1> QED
  BY <1>1, <1>2, PTL DEF TO!Spec

(* While executors run one at a time: what one has read, writes and has    *)
(* still to do agrees with the journal and the events.                     *)
THEOREM OperationsInvariance == TO!Spec => []TO!IInv
<1>1. TO!Init => TO!IInv
  BY OperationsStart
<1>2. TO!TypeOK /\ TO!IInv /\ [TO!Next]_TO!vars => TO!IInv'
  BY OperationsStep
<1> QED
  BY <1>1, <1>2, OperationsTypeCorrect, PTL DEF TO!Spec

(* What replay() shows as running is in the journal at every crash point.  *)
THEOREM EventsHaveEntries == TO!Spec => []TO!EventsFollowJournal
<1>1. TO!IInv => TO!EventsFollowJournal
  BY DEF TO!IInv
<1> QED
  BY <1>1, OperationsInvariance, PTL

(* No command that was started disappears: after any crash or exception it *)
(* has a result, is reported as interrupted, or the next constructor finds *)
(* it in the journal.                                                      *)
THEOREM CommandsAreKept == TO!Spec => []TO!NothingDisappears
<1>1. TO!IInv => TO!NothingDisappears
  BY DEF TO!IInv
<1> QED
  BY <1>1, OperationsInvariance, PTL

(* A constructor that is about to empty the journal has closed every tool  *)
(* replay() shows as running.                                              *)
THEOREM RestartsAreClean == TO!Spec => []TO!RestartIsClean
<1>1. TO!IInv => TO!RestartIsClean
  BY DEF TO!IInv, TO!RestartIsClean, TO!ExecutorInv
<1> QED
  BY <1>1, OperationsInvariance, PTL

(* The three together: every started command is accounted for.             *)
THEOREM CommandsAlwaysAccounted == TO!Spec => []TO!CommandsAccounted
<1>1. TO!EventsFollowJournal /\ TO!NothingDisappears /\ TO!RestartIsClean => TO!CommandsAccounted
  BY DEF TO!CommandsAccounted
<1> QED
  BY <1>1, EventsHaveEntries, CommandsAreKept, RestartsAreClean, PTL
=============================================================================
