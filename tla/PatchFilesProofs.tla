--------------------------- MODULE PatchFilesProofs ---------------------------
(***************************************************************************)
(* A completed diff left in every file what the diff format means, for any *)
(* files, diffs, edits by others, calls and interruptions.  First what     *)
(* Applied(), which moves each hunk by what those before it have added,    *)
(* computes for any number of hunks; then the phases of a call.            *)
(***************************************************************************)
EXTENDS PatchFiles, SequenceTheorems, WellFoundedInduction, TLAPS

-----------------------------------------------------------------------------
(* Recursive functions over the hunks. *)

\* A set of numbers that has 0 and, below m, each successor, has all up to m.
LEMMA UpTo ==
  ASSUME NEW m \in Nat, NEW S, 0 \in S, \A n \in 0..(m - 1) : n \in S => n + 1 \in S
  PROVE  0..m \subseteq S
<1> SUFFICES ASSUME NEW n \in 0..m, n \notin S PROVE FALSE
  OBVIOUS
<1> DEFINE out == {i \in 0..m : i \notin S}
<1>1. PICK least \in out : \A i \in out : ~(i < least)
  <2>1. out \subseteq Nat /\ out # {}
    OBVIOUS
  <2> HIDE DEF out
  <2>2. PICK i \in out : \A j \in out : <<j, i>> \notin OpToRel(<, Nat)
    BY <2>1, NatLessThanWellFounded, WFMin
  <2> QED
    BY <2>1, <2>2 DEF OpToRel
<1>2. least - 1 \in 0..(m - 1) /\ least - 1 \in S
  BY <1>1
<1> QED
  BY <1>1, <1>2

\* The loop over the hunks does what its definition says.
LEMMA SplicedDef ==
  ASSUME NEW s, NEW hunks \in Seq(Hunk)
  PROVE  Spliced(s, hunks) =
           [n \in 0..Len(hunks) |->
              IF n = 0 THEN [lines |-> s, offset |-> 0]
              ELSE Splice(Spliced(s, hunks)[n - 1], hunks[n])]
<1> DEFINE base == [lines |-> s, offset |-> 0]
           Run(f, m) == f = [n \in 0..m |-> IF n = 0 THEN base ELSE Splice(f[n - 1], hunks[n])]
           S == {m \in Nat : \E f : Run(f, m)}
<1>1. 0 \in S
  <2> HIDE DEF base
  <2>1. Run([n \in 0..0 |-> base], 0)
    OBVIOUS
  <2> QED
    BY <2>1
<1>2. \A m \in Nat : m \in S => m + 1 \in S
  <2> HIDE DEF Run
  <2> SUFFICES ASSUME NEW m \in Nat, m \in S
               PROVE  \E g : Run(g, m + 1)
    OBVIOUS
  <2>0. PICK f : Run(f, m)
    OBVIOUS
  <2> USE DEF Run
  <2> DEFINE g == [n \in 0..(m + 1) |-> IF n <= m THEN f[n] ELSE Splice(f[m], hunks[m + 1])]
  <2> HIDE DEF base
  <2>1. \A n \in 0..(m + 1) : g[n] = IF n = 0 THEN base ELSE Splice(g[n - 1], hunks[n])
    <3> SUFFICES ASSUME NEW n \in 0..(m + 1)
                 PROVE  g[n] = IF n = 0 THEN base ELSE Splice(g[n - 1], hunks[n])
      OBVIOUS
    <3>1. CASE n = 0
      BY <2>0, <3>1
    <3>2. CASE n \in 1..m
      <4>1. g[n] = f[n] /\ g[n - 1] = f[n - 1] /\ f[n] = Splice(f[n - 1], hunks[n])
        BY <2>0, <3>2
      <4> QED
        BY <3>2, <4>1
    <3>3. CASE n = m + 1
      <4>1. g[n] = Splice(f[m], hunks[m + 1]) /\ g[n - 1] = f[m] /\ n # 0
        BY <3>3
      <4> QED
        BY <3>3, <4>1
    <3> QED
      BY <3>1, <3>2, <3>3
  <2>2. Run(g, m + 1)
    BY <2>1
  <2> QED
    BY <2>2
<1>3. Len(hunks) \in S
  <2>1. Len(hunks) \in Nat
    BY LenProperties
  <2> HIDE DEF S
  <2>2. 0..Len(hunks) \subseteq S
    BY <1>1, <1>2, <2>1, UpTo
  <2> QED
    BY <2>1, <2>2
<1>4. PICK f : Run(f, Len(hunks))
  BY <1>3
<1>5. Spliced(s, hunks) = CHOOSE g : Run(g, Len(hunks))
  BY DEF Spliced
<1>6. Run(Spliced(s, hunks), Len(hunks))
  <2> HIDE DEF Run
  <2> QED
    BY <1>4, <1>5
<1> QED
  BY <1>6

\* What flat is to be for FlattenSeq() to be its value at k.
Flattens(flat, pieces, k) ==
  /\ FlattenSeq(pieces) = flat[k]
  /\ flat[1] = pieces[1]
  /\ \A i \in 2..k : flat[i] = flat[i - 1] \o pieces[i]

\* FlattenSeq() puts the pieces one behind the other.
LEMMA FlattenDef ==
  ASSUME NEW pieces, Len(pieces) \in Nat \ {0}
  PROVE  \E flat : Flattens(flat, pieces, Len(pieces))
<1> DEFINE Longer(x, i) == x \o pieces[i]
           Run(f, m) == f = [i \in 1..m |-> IF i = 1 THEN pieces[i] ELSE Longer(f[i - 1], i)]
           S == {m \in Nat : \E f : Run(f, m + 1)}
           k == Len(pieces)
<1> HIDE DEF Longer, k
<1>0. k \in Nat \ {0}
  BY DEF k
<1>1. 0 \in S
  <2>1. Run([i \in 1..1 |-> pieces[1]], 0 + 1)
    OBVIOUS
  <2> QED
    BY <2>1
<1>2. \A m \in Nat : m \in S => m + 1 \in S
  <2> HIDE DEF Run
  <2> SUFFICES ASSUME NEW m \in Nat, m \in S
               PROVE  \E g : Run(g, m + 1 + 1)
    OBVIOUS
  <2>0. PICK f : Run(f, m + 1)
    OBVIOUS
  <2> USE DEF Run
  <2> DEFINE g == [i \in 1..(m + 2) |-> IF i <= m + 1 THEN f[i] ELSE Longer(f[m + 1], m + 2)]
  <2>1. \A i \in 1..(m + 2) : g[i] = IF i = 1 THEN pieces[i] ELSE Longer(g[i - 1], i)
    <3> SUFFICES ASSUME NEW i \in 1..(m + 2)
                 PROVE  g[i] = IF i = 1 THEN pieces[i] ELSE Longer(g[i - 1], i)
      OBVIOUS
    <3>1. CASE i = 1
      BY <2>0, <3>1
    <3>2. CASE i \in 2..(m + 1)
      <4>1. g[i] = f[i] /\ g[i - 1] = f[i - 1] /\ f[i] = Longer(f[i - 1], i)
        BY <2>0, <3>2
      <4> QED
        BY <3>2, <4>1
    <3>3. CASE i = m + 2
      <4>1. g[i] = Longer(f[m + 1], m + 2) /\ g[i - 1] = f[m + 1] /\ i # 1
        BY <3>3
      <4> QED
        BY <3>3, <4>1
    <3> QED
      BY <3>1, <3>2, <3>3
  <2>2. Run(g, m + 1 + 1)
    <3>1. 1..(m + 1 + 1) = 1..(m + 2)
      OBVIOUS
    <3> QED
      BY <2>1, <3>1
  <2> QED
    BY <2>2
<1>3. k - 1 \in S
  <2> HIDE DEF S
  <2>1. 0..(k - 1) \subseteq S
    BY <1>0, <1>1, <1>2, UpTo
  <2> QED
    BY <1>0, <2>1
<1>4. PICK f : Run(f, k)
  <2>1. (k - 1) + 1 = k
    BY <1>0
  <2> QED
    BY <1>3, <2>1
<1> DEFINE flat == CHOOSE g : Run(g, k)
<1>5. Run(flat, k)
  <2> HIDE DEF Run
  <2> QED
    BY <1>4
<1>6. FlattenSeq(pieces) = flat[k]
  BY <1>0 DEF FlattenSeq, Longer, k
<1> HIDE DEF flat
<1>7. flat[1] = pieces[1] /\ \A i \in 2..k : flat[i] = Longer(flat[i - 1], i)
  BY <1>0, <1>5
<1>8. Flattens(flat, pieces, k)
  BY <1>6, <1>7 DEF Longer, Flattens
<1> QED
  BY <1>8 DEF k

-----------------------------------------------------------------------------
(* A sequence that begins with other lines and ends as s does from a on.   *)

\* Inside the end, its parts are those of s.
LEMMA CutInside ==
  ASSUME NEW p \in Seq(Lines), NEW s \in Seq(Lines), NEW a \in 1..(Len(s) + 1),
         NEW x \in a..(Len(s) + 1), NEW y \in (x - 1)..Len(s)
  PROVE  LET t == p \o SubSeq(s, a, Len(s))
         IN  /\ t \in Seq(Lines) /\ Len(t) = Len(p) + Len(s) - a + 1
             /\ SubSeq(t, Len(p) + x - a + 1, Len(p) + y - a + 1) = SubSeq(s, x, y)
             /\ SubSeq(s, x, y) \in Seq(Lines) /\ Len(SubSeq(s, x, y)) = y - x + 1
<1> DEFINE r == SubSeq(s, a, Len(s))
           t == p \o r
<1>1. Len(s) \in Nat /\ Len(p) \in Nat /\ \A i \in 1..Len(s) : s[i] \in Lines
  BY LenProperties, ElementOfSeq
<1>2. /\ r \in Seq(Lines) /\ Len(r) = Len(s) - a + 1
      /\ \A i \in 1..(Len(s) - a + 1) : r[i] = s[a + i - 1]
  BY <1>1, SubSeqProperties
<1> HIDE DEF r
<1>3. /\ t \in Seq(Lines) /\ Len(t) = Len(p) + Len(r)
      /\ \A i \in 1..(Len(p) + Len(r)) : t[i] = IF i <= Len(p) THEN p[i] ELSE r[i - Len(p)]
  BY <1>2, ConcatProperties
<1> HIDE DEF t
<1> DEFINE from == Len(p) + x - a + 1
           to == Len(p) + y - a + 1
           u == SubSeq(t, from, to)
           v == SubSeq(s, x, y)
<1>4. /\ v \in Seq(Lines) /\ Len(v) = y - x + 1
      /\ \A i \in 1..(y - x + 1) : v[i] = s[x + i - 1]
  <2>1. \A i \in x..y : s[i] \in Lines
    BY <1>1
  <2>2. x \in Int /\ y \in Int /\ (x <= y \/ y = x - 1)
    BY <1>1
  <2> QED
    BY <2>1, <2>2, SubSeqProperties
<1>5. /\ u \in Seq(Lines) /\ Len(u) = y - x + 1
      /\ \A i \in 1..(y - x + 1) : u[i] = t[from + i - 1]
  <2>1. from \in Int /\ to \in Int /\ to - from = y - x /\ (from <= to \/ to = from - 1)
    BY <1>1
  <2>2. \A i \in from..to : i \in 1..Len(t)
    BY <1>1, <1>2, <1>3
  <2>3. \A i \in from..to : t[i] \in Lines
    BY <1>3, <2>2, ElementOfSeq
  <2> HIDE DEF from, to
  <2> QED
    BY <1>1, <2>1, <2>3, SubSeqProperties
<1> HIDE DEF u, v
<1>6. \A i \in 1..(y - x + 1) : u[i] = v[i]
  <2> SUFFICES ASSUME NEW i \in 1..(y - x + 1) PROVE u[i] = v[i]
    OBVIOUS
  <2>1. t[from + i - 1] = r[x - a + i]
    <3>1. PICK m \in Nat : m = Len(p)
      BY <1>1
    <3>2. /\ from + i - 1 = m + (x - a + i) /\ x - a + i \in 1..(Len(s) - a + 1)
          /\ m + (x - a + i) \in 1..(m + Len(r)) /\ m + (x - a + i) - m = x - a + i
          /\ ~(m + (x - a + i) <= m)
      BY <1>1, <1>2, <3>1
    <3>3. PICK n \in 1..(m + Len(r)) : n = m + (x - a + i)
      BY <3>2
    <3>4. t[n] = r[n - m]
      BY <1>3, <3>1, <3>2, <3>3
    <3>5. from + i - 1 = n /\ n - m = x - a + i
      BY <3>2, <3>3
    <3> QED
      BY <3>4, <3>5
  <2>2. r[x - a + i] = s[x + i - 1]
    BY <1>1, <1>2
  <2> QED
    BY <1>4, <1>5, <2>1, <2>2
<1>7. u = v
  BY <1>4, <1>5, <1>6, SeqEqual
<1> QED
  BY <1>2, <1>3, <1>4, <1>7 DEF u, v, t, r

\* Up to a place in the end, it is the other lines and a part of s.
LEMMA CutFront ==
  ASSUME NEW p \in Seq(Lines), NEW s \in Seq(Lines), NEW a \in 1..(Len(s) + 1),
         NEW x \in a..(Len(s) + 1)
  PROVE  SubSeq(p \o SubSeq(s, a, Len(s)), 1, Len(p) + x - a) = p \o SubSeq(s, a, x - 1)
<1> DEFINE r == SubSeq(s, a, Len(s))
           q == SubSeq(s, a, x - 1)
           t == p \o r
<1>1. Len(s) \in Nat /\ Len(p) \in Nat /\ \A i \in 1..Len(s) : s[i] \in Lines
  BY LenProperties, ElementOfSeq
<1>2. /\ r \in Seq(Lines) /\ Len(r) = Len(s) - a + 1
      /\ \A i \in 1..(Len(s) - a + 1) : r[i] = s[a + i - 1]
  BY <1>1, SubSeqProperties
<1>3. /\ q \in Seq(Lines) /\ Len(q) = x - a
      /\ \A i \in 1..(x - a) : q[i] = s[a + i - 1]
  <2>1. \A i \in a..(x - 1) : s[i] \in Lines
    BY <1>1
  <2>2. a \in Int /\ x - 1 \in Int /\ (a <= x - 1 \/ x = a)
    BY <1>1
  <2> QED
    BY <2>1, <2>2, SubSeqProperties
<1> HIDE DEF r, q
<1>4. /\ t \in Seq(Lines) /\ Len(t) = Len(p) + Len(r)
      /\ \A i \in 1..(Len(p) + Len(r)) : t[i] = IF i <= Len(p) THEN p[i] ELSE r[i - Len(p)]
  BY <1>2, ConcatProperties
<1> HIDE DEF t
<1> DEFINE w == p \o q
           u == SubSeq(t, 1, Len(p) + x - a)
<1>5. /\ w \in Seq(Lines) /\ Len(w) = Len(p) + x - a
      /\ \A i \in 1..(Len(p) + x - a) : w[i] = IF i <= Len(p) THEN p[i] ELSE q[i - Len(p)]
  <2>1. Len(p) + Len(q) = Len(p) + x - a
    BY <1>1, <1>3
  <2>2. /\ w \in Seq(Lines) /\ Len(w) = Len(p) + Len(q)
        /\ \A i \in 1..(Len(p) + Len(q)) : w[i] = IF i <= Len(p) THEN p[i] ELSE q[i - Len(p)]
    BY <1>3, ConcatProperties
  <2> HIDE DEF w
  <2> QED
    BY <2>1, <2>2
<1>6. /\ u \in Seq(Lines) /\ Len(u) = Len(p) + x - a
      /\ \A i \in 1..(Len(p) + x - a) : u[i] = t[i]
  <2>1. Len(p) + x - a \in Nat /\ \A i \in 1..(Len(p) + x - a) : i \in 1..Len(t)
    BY <1>1, <1>2, <1>4
  <2>2. \A i \in 1..(Len(p) + x - a) : t[i] \in Lines
    BY <1>4, <2>1, ElementOfSeq
  <2>3. PICK n \in Nat : n = Len(p) + x - a
    BY <2>1
  <2>4. /\ SubSeq(t, 1, n) \in Seq(Lines) /\ Len(SubSeq(t, 1, n)) = n
        /\ \A i \in 1..n : SubSeq(t, 1, n)[i] = t[1 + i - 1]
    BY <2>2, <2>3, SubSeqProperties
  <2> QED
    BY <2>3, <2>4
<1> HIDE DEF w, u
<1>7. \A i \in 1..(Len(p) + x - a) : u[i] = w[i]
  <2> SUFFICES ASSUME NEW i \in 1..(Len(p) + x - a) PROVE u[i] = w[i]
    OBVIOUS
  <2>1. i \in 1..(Len(p) + Len(r)) /\ Len(p) \in Nat
    BY <1>1, <1>2
  <2>2. i > Len(p) => i - Len(p) \in 1..(x - a) /\ i - Len(p) \in 1..(Len(s) - a + 1)
    BY <1>1
  <2>3. t[i] = IF i <= Len(p) THEN p[i] ELSE r[i - Len(p)]
    BY <1>4, <2>1
  <2>4. w[i] = IF i <= Len(p) THEN p[i] ELSE q[i - Len(p)]
    BY <1>5
  <2>5. i > Len(p) => r[i - Len(p)] = q[i - Len(p)]
    BY <1>2, <1>3, <2>2
  <2> QED
    BY <1>6, <2>1, <2>3, <2>4, <2>5
<1>8. u = w
  BY <1>5, <1>6, <1>7, SeqEqual
<1> QED
  BY <1>8 DEF u, w, t, r, q

-----------------------------------------------------------------------------
(* The hunks. *)

State == [lines : Content, offset : Int]

\* What the parts of a hunk are.
LEMMA HunkFacts ==
  ASSUME NEW h \in Hunk
  PROVE  /\ h.start \in Nat /\ h.old \in Seq(Lines) /\ h.new \in Seq(Lines)
         /\ Len(h.old) \in Nat /\ Len(h.new) \in Nat
         /\ First(h) \in Nat /\ After(h) \in Nat /\ After(h) = First(h) + Len(h.old)
BY LenProperties DEF Hunk, First, After

\* A hunk makes lines of lines, or refuses.
LEMMA SpliceType ==
  ASSUME NEW state \in State, NEW h \in Hunk
  PROVE  /\ Splice(state, h) \in State
         /\ state.lines = None => Splice(state, h).lines = None
<1> DEFINE s == state.lines
           from == Greater(h.start - 1 + state.offset, 0)
           to == from + Len(h.old)
<1>1. /\ state.offset \in Int /\ s \in Content
      /\ h.start \in Nat /\ Len(h.old) \in Nat /\ Len(h.new) \in Nat
  BY HunkFacts DEF State
<1>2. from \in Nat /\ to \in Nat /\ from <= to
  <2>1. from \in Nat
    BY <1>1 DEF Greater
  <2> HIDE DEF from
  <2> QED
    BY <1>1, <2>1
<1> HIDE DEF s, from, to
<1>3. CASE s = None \/ to > Len(s) \/ SubSeq(s, from + 1, to) # h.old
  <2>1. Splice(state, h) = [lines |-> None, offset |-> 0]
    BY <1>3 DEF Splice, s, from, to
  <2> QED
    BY <2>1 DEF State, Content, None
<1>4. CASE ~(s = None \/ to > Len(s) \/ SubSeq(s, from + 1, to) # h.old)
  <2> DEFINE lines == SubSeq(s, 1, from) \o h.new \o SubSeq(s, to + 1, Len(s))
             offset == state.offset + Len(h.new) - Len(h.old)
  <2>1. Splice(state, h) = [lines |-> lines, offset |-> offset]
    BY <1>4 DEF Splice, s, from, to
  <2>2. s \in Seq(Lines) /\ s # None
    BY <1>1, <1>4 DEF Content, None
  <2>3. Len(s) \in Nat /\ to <= Len(s) /\ \A i \in 1..Len(s) : s[i] \in Lines
    BY <1>2, <1>4, <2>2, LenProperties, ElementOfSeq
  <2>4. SubSeq(s, 1, from) \in Seq(Lines)
    <3>1. \A i \in 1..from : s[i] \in Lines
      BY <1>2, <2>3
    <3> QED
      BY <1>2, <3>1, SubSeqProperties
  <2>5. SubSeq(s, to + 1, Len(s)) \in Seq(Lines)
    <3>1. \A i \in (to + 1)..Len(s) : s[i] \in Lines
      BY <1>2, <2>3
    <3>2. to + 1 \in Int /\ Len(s) \in Int
      BY <1>2, <2>3
    <3> QED
      BY <3>1, <3>2, SubSeqProperties
  <2>6. SubSeq(s, 1, from) \o h.new \in Seq(Lines)
    BY <2>4, HunkFacts, ConcatProperties
  <2>7. lines \in Seq(Lines)
    BY <2>5, <2>6, ConcatProperties
  <2>8. offset \in Int
    <3>1. PICK m \in Int : m = state.offset
      BY <1>1
    <3>2. PICK n \in Nat : n = Len(h.new)
      BY <1>1
    <3>3. PICK k \in Nat : k = Len(h.old)
      BY <1>1
    <3>4. m + n - k \in Int
      OBVIOUS
    <3>5. offset = m + n - k
      BY <3>1, <3>2, <3>3
    <3> HIDE DEF offset
    <3> QED
      BY <3>4, <3>5
  <2> HIDE DEF lines, offset
  <2>9. lines \in Content
    BY <2>7 DEF Content
  <2>10. Splice(state, h) \in State
    BY <2>1, <2>8, <2>9 DEF State
  <2> QED
    BY <2>2, <2>10 DEF s
<1> QED
  BY <1>3, <1>4

\* The loop has made the part p of the result, of what s is before a.
Midway(p, s, a) == [lines |-> p \o SubSeq(s, a, Len(s)), offset |-> Len(p) - (a - 1)]

\* What it has made after one hunk more.
Longer(p, s, a, h) == p \o SubSeq(s, a, First(h) - 1) \o h.new

\* A hunk that follows the part p of the result, in the lines of s from a on:
\* its place has moved by what p has more lines than s has before a.
LEMMA SpliceFits ==
  ASSUME NEW p \in Seq(Lines), NEW s \in Seq(Lines), NEW a \in 1..(Len(s) + 1),
         NEW h \in Hunk, First(h) >= a,
         h.old = << >> <=> h.start = 0, h.start = 0 => p = << >> /\ a = 1,
         NEW state, state = Midway(p, s, a),
         Splice(state, h).lines # None
  PROVE  /\ After(h) \in First(h)..(Len(s) + 1)
         /\ SubSeq(s, First(h), After(h) - 1) = h.old
         /\ Longer(p, s, a, h) \in Seq(Lines)
         /\ Splice(state, h) = Midway(Longer(p, s, a, h), s, After(h))
<1> DEFINE t == p \o SubSeq(s, a, Len(s))
           first == First(h)
           after == After(h)
           k == Len(h.old)
           from == Len(p) + first - a
           to == from + k
           kept == p \o SubSeq(s, a, first - 1)
           longer == kept \o h.new
<1>0. state.lines = t /\ state.offset = Len(p) - (a - 1)
  BY DEF Midway
<1>1. /\ Len(s) \in Nat /\ Len(p) \in Nat /\ k \in Nat /\ first \in Nat /\ after = first + k
      /\ first >= a /\ Len(h.new) \in Nat
  BY HunkFacts, LenProperties
<1>2. /\ t \in Seq(Lines) /\ Len(t) = Len(p) + Len(s) - a + 1
  <2>1. a \in a..(Len(s) + 1) /\ a - 1 \in (a - 1)..Len(s)
    BY <1>1
  <2> QED
    BY <2>1, CutInside
<1>3. t # None
  BY <1>2, PatchAssumption DEF None
<1>4. Greater(h.start - 1 + state.offset, 0) = from
  <2>1. CASE h.start = 0
    <3>1. Len(p) = 0 /\ first = 1 /\ a = 1
      BY <2>1, EmptySeq DEF First
    <3>2. state.offset = 0
      BY <1>0, <3>1
    <3> QED
      BY <2>1, <3>1, <3>2 DEF Greater
  <2>2. CASE h.start # 0
    <3>1. first = h.start
      BY <2>2 DEF First
    <3>2. h.start - 1 + state.offset = from
      BY <1>0, <1>1, <3>1
    <3> QED
      BY <1>1, <3>2 DEF Greater
  <2> QED
    BY <2>1, <2>2
<1> HIDE DEF t, first, after, k, from, kept, longer
<1>5. /\ to <= Len(t) /\ SubSeq(t, from + 1, to) = h.old
      /\ Splice(state, h) = [lines |-> SubSeq(t, 1, from) \o h.new \o SubSeq(t, to + 1, Len(t)),
                             offset |-> Len(p) - (a - 1) + Len(h.new) - k]
  <2> DEFINE result == [lines |-> SubSeq(t, 1, from) \o h.new \o SubSeq(t, to + 1, Len(t)),
                        offset |-> Len(p) - (a - 1) + Len(h.new) - k]
             refused == t = None \/ to > Len(t) \/ SubSeq(t, from + 1, to) # h.old
  <2>2. Splice(state, h) = IF refused THEN [lines |-> None, offset |-> 0] ELSE result
    BY <1>0, <1>4 DEF Splice, k
  <2> HIDE DEF result
  <2>3. ~refused
    <3> HIDE DEF refused
    <3> QED
      BY <2>2
  <2>4. to \in Int /\ Len(t) \in Int
    BY <1>1, <1>2 DEF from
  <2>5. Splice(state, h) = result
    <3> HIDE DEF refused
    <3> QED
      BY <2>2, <2>3
  <2> HIDE DEF to
  <2>6. to <= Len(t) /\ SubSeq(t, from + 1, to) = h.old
    BY <2>3, <2>4
  <2> QED
    BY <2>5, <2>6 DEF result
<1>6. after \in first..(Len(s) + 1)
  BY <1>1, <1>2, <1>5 DEF from
<1>7. SubSeq(s, first, after - 1) = h.old
  <2>1. first \in a..(Len(s) + 1) /\ after - 1 \in (first - 1)..Len(s)
    BY <1>1, <1>6
  <2>2. SubSeq(t, Len(p) + first - a + 1, Len(p) + (after - 1) - a + 1) = SubSeq(s, first, after - 1)
    BY <2>1, CutInside DEF t
  <2>3. Len(p) + first - a + 1 = from + 1 /\ Len(p) + (after - 1) - a + 1 = to
    BY <1>1 DEF from
  <2> QED
    BY <1>5, <2>2, <2>3
<1>8. SubSeq(t, 1, from) = kept
  <2>1. first \in a..(Len(s) + 1)
    BY <1>1, <1>6
  <2> QED
    BY <2>1, CutFront DEF t, kept, from
<1>9. SubSeq(t, to + 1, Len(t)) = SubSeq(s, after, Len(s))
  <2>1. after \in a..(Len(s) + 1) /\ Len(s) \in (after - 1)..Len(s)
    BY <1>1, <1>6
  <2>2. SubSeq(t, Len(p) + after - a + 1, Len(p) + Len(s) - a + 1) = SubSeq(s, after, Len(s))
    BY <2>1, CutInside DEF t
  <2>3. Len(p) + after - a + 1 = to + 1
    BY <1>1 DEF from
  <2> QED
    BY <1>2, <2>2, <2>3
<1>10. kept \in Seq(Lines) /\ Len(kept) = Len(p) + first - a
  <2>1. /\ SubSeq(s, a, first - 1) \in Seq(Lines) /\ Len(SubSeq(s, a, first - 1)) = first - a
    <3>1. a \in a..(Len(s) + 1) /\ first - 1 \in (a - 1)..Len(s)
      BY <1>1, <1>6
    <3>2. /\ SubSeq(s, a, first - 1) \in Seq(Lines)
          /\ Len(SubSeq(s, a, first - 1)) = first - 1 - a + 1
      BY <3>1, CutInside
    <3> QED
      BY <1>1, <3>2
  <2>2. kept \in Seq(Lines) /\ Len(kept) = Len(p) + Len(SubSeq(s, a, first - 1))
    BY <2>1, ConcatProperties DEF kept
  <2> QED
    BY <1>1, <2>1, <2>2
<1>11. longer \in Seq(Lines) /\ Len(longer) = Len(kept) + Len(h.new)
  BY <1>10, HunkFacts, ConcatProperties DEF longer
<1>12. Len(p) - (a - 1) + Len(h.new) - k = Len(longer) - (after - 1)
  <2>1. Len(longer) = Len(p) + first - a + Len(h.new)
    BY <1>10, <1>11
  <2>2. PICK n \in Nat : n = Len(h.new)
    BY <1>1
  <2>3. PICK m \in Nat : m = Len(p)
    BY <1>1
  <2>4. PICK l \in Nat : l = k
    BY <1>1
  <2>5. PICK f \in Nat : f = first
    BY <1>1
  <2>6. after = f + l
    BY <1>1, <2>4, <2>5
  <2>7. m - (a - 1) + n - l = m + f - a + n - (f + l - 1)
    <3>1. a \in Int
      BY <1>1
    <3> QED
      BY <3>1
  <2>8. Len(longer) = m + f - a + n
    BY <2>1, <2>2, <2>3, <2>5
  <2>9. Len(p) - (a - 1) + Len(h.new) - k = m - (a - 1) + n - l
    BY <2>2, <2>3, <2>4
  <2>10. Len(longer) - (after - 1) = m + f - a + n - (f + l - 1)
    BY <2>6, <2>8
  <2> QED
    BY <2>7, <2>9, <2>10
<1>13. Splice(state, h) = [lines |-> longer \o SubSeq(s, after, Len(s)),
                           offset |-> Len(longer) - (after - 1)]
  BY <1>5, <1>8, <1>9, <1>12 DEF longer
<1> QED
  BY <1>6, <1>7, <1>11, <1>13 DEF longer, kept, first, after, Longer, Midway

\* The loop starts with the content, splices one hunk a turn, and keeps its types.
LEMMA SplicedType ==
  ASSUME NEW s \in Content, NEW hunks \in Seq(Hunk)
  PROVE  /\ \A n \in 0..Len(hunks) : Spliced(s, hunks)[n] \in State
         /\ Spliced(s, hunks)[0] = [lines |-> s, offset |-> 0]
         /\ \A n \in 1..Len(hunks) :
              Spliced(s, hunks)[n] = Splice(Spliced(s, hunks)[n - 1], hunks[n])
<1> DEFINE st == Spliced(s, hunks)
           N == Len(hunks)
           S == {n \in 0..N : st[n] \in State}
<1>1. N \in Nat /\ \A n \in 1..N : hunks[n] \in Hunk
  BY LenProperties, ElementOfSeq
<1>2. st = [n \in 0..N |->
              IF n = 0 THEN [lines |-> s, offset |-> 0] ELSE Splice(st[n - 1], hunks[n])]
  BY SplicedDef
<1> HIDE DEF st, N
<1>3. st[0] = [lines |-> s, offset |-> 0]
  BY <1>1, <1>2
<1>4. \A n \in 1..N : st[n] = Splice(st[n - 1], hunks[n])
  <2> SUFFICES ASSUME NEW n \in 1..N PROVE st[n] = Splice(st[n - 1], hunks[n])
    OBVIOUS
  <2>1. n \in 0..N /\ n # 0
    BY <1>1
  <2> QED
    BY <1>2, <2>1
<1>5. 0 \in S
  <2>1. st[0] \in State
    BY <1>3 DEF State
  <2> QED
    BY <1>1, <2>1
<1>6. \A n \in 0..(N - 1) : n \in S => n + 1 \in S
  <2> SUFFICES ASSUME NEW n \in 0..(N - 1), st[n] \in State
               PROVE  n + 1 \in 0..N /\ st[n + 1] \in State
    OBVIOUS
  <2>1. n + 1 \in 1..N /\ (n + 1) - 1 = n
    BY <1>1
  <2>2. st[n + 1] = Splice(st[n], hunks[n + 1])
    BY <1>4, <2>1
  <2>3. hunks[n + 1] \in Hunk
    BY <1>1, <2>1
  <2> QED
    BY <2>1, <2>2, <2>3, SpliceType
<1>7. 0..N \subseteq S
  <2> HIDE DEF S
  <2> QED
    BY <1>1, <1>5, <1>6, UpTo
<1> QED
  BY <1>3, <1>4, <1>7 DEF st, N

\* A diff makes a content of a content, or refuses.
LEMMA AppliedType ==
  ASSUME NEW s \in Content, NEW hunks \in Seq(Hunk)
  PROVE  Applied(s, hunks) \in Content
<1>1. Len(hunks) \in 0..Len(hunks)
  BY LenProperties
<1>2. Spliced(s, hunks)[Len(hunks)] \in State
  BY <1>1, SplicedType
<1> QED
  BY <1>2 DEF Applied, State

\* If the hunks go through, each of them does.
LEMMA NoneStays ==
  ASSUME NEW s \in Content, NEW hunks \in Seq(Hunk), Applied(s, hunks) # None
  PROVE  \A n \in 0..Len(hunks) : Spliced(s, hunks)[n].lines # None
<1> DEFINE st == Spliced(s, hunks)
           N == Len(hunks)
           S == {j \in 0..N : st[N - j].lines # None}
<1>1. N \in Nat /\ \A n \in 1..N : hunks[n] \in Hunk
  BY LenProperties, ElementOfSeq
<1>2. /\ \A n \in 0..N : st[n] \in State
      /\ \A n \in 1..N : st[n] = Splice(st[n - 1], hunks[n])
  BY SplicedType
<1>3. st[N].lines # None
  BY DEF Applied
<1> HIDE DEF st, N
<1>4. 0 \in S
  <2>1. N - 0 = N /\ 0 \in 0..N
    BY <1>1
  <2> QED
    BY <1>3, <2>1
<1>5. \A j \in 0..(N - 1) : j \in S => j + 1 \in S
  <2> SUFFICES ASSUME NEW j \in 0..(N - 1), st[N - j].lines # None
               PROVE  j + 1 \in 0..N /\ st[N - (j + 1)].lines # None
    OBVIOUS
  <2>1. PICK n \in 1..N : n = N - j
    BY <1>1
  <2>2. j + 1 \in 0..N /\ N - (j + 1) = n - 1 /\ n - 1 \in 0..N
    BY <1>1, <2>1
  <2>3. st[n] = Splice(st[n - 1], hunks[n]) /\ st[n - 1] \in State /\ hunks[n] \in Hunk
    BY <1>1, <1>2, <2>2
  <2>4. st[n - 1].lines # None
    BY <2>1, <2>3, SpliceType
  <2> QED
    BY <2>2, <2>4
<1>6. 0..N \subseteq S
  <2> HIDE DEF S
  <2> QED
    BY <1>1, <1>4, <1>5, UpTo
<1>7. \A n \in 0..N : st[n].lines # None
  <2> SUFFICES ASSUME NEW n \in 0..N PROVE st[n].lines # None
    OBVIOUS
  <2>1. N - n \in 0..N /\ N - (N - n) = n
    BY <1>1
  <2>2. N - n \in S
    BY <1>6, <2>1
  <2> QED
    BY <2>1, <2>2
<1> QED
  BY <1>7 DEF st, N

\* What the format means, piece by piece.
LEMMA PatchedPieces ==
  ASSUME NEW s, NEW hunks \in Seq(Hunk)
  PROVE  \E flat :
           /\ Patched(s, hunks) = flat[Len(hunks) + 1]
           /\ flat[1] = Between(s, hunks, 1) \o IF 1 > Len(hunks) THEN << >> ELSE hunks[1].new
           /\ \A i \in 2..(Len(hunks) + 1) :
                flat[i] = flat[i - 1] \o (Between(s, hunks, i)
                                            \o IF i > Len(hunks) THEN << >> ELSE hunks[i].new)
<1> DEFINE Piece(i) == Between(s, hunks, i) \o IF i > Len(hunks) THEN << >> ELSE hunks[i].new
           k == Len(hunks) + 1
           pieces == [i \in 1..k |-> Piece(i)]
<1>1. Len(hunks) \in Nat /\ k \in Nat \ {0}
  BY LenProperties
<1>2. Patched(s, hunks) = FlattenSeq(pieces)
  BY DEF Patched
<1> HIDE DEF Piece, k
<1>3. Len(pieces) = k /\ \A i \in 1..k : pieces[i] = Piece(i)
  BY <1>1
<1> HIDE DEF pieces
<1>4. PICK flat : Flattens(flat, pieces, k)
  <2>1. Len(pieces) \in Nat \ {0}
    BY <1>1, <1>3
  <2>2. PICK flat : Flattens(flat, pieces, Len(pieces))
    BY <2>1, FlattenDef
  <2> QED
    BY <1>3, <2>2
<1>5. /\ Patched(s, hunks) = flat[k]
      /\ flat[1] = Piece(1)
      /\ \A i \in 2..k : flat[i] = flat[i - 1] \o Piece(i)
  <2>1. 1 \in 1..k /\ \A i \in 2..k : i \in 1..k
    BY <1>1
  <2> HIDE DEF Piece
  <2>2. \A i \in 2..k : flat[i] = flat[i - 1] \o Piece(i)
    <3> SUFFICES ASSUME NEW i \in 2..k PROVE flat[i] = flat[i - 1] \o Piece(i)
      OBVIOUS
    <3>1. pieces[i] = Piece(i)
      BY <1>3, <2>1
    <3> QED
      BY <1>4, <3>1 DEF Flattens
  <2> QED
    BY <1>2, <1>3, <1>4, <2>1, <2>2 DEF Flattens
<1> QED
  BY <1>5 DEF Piece, k

\* Sequences of lines can be put together in any grouping.
LEMMA Regroup ==
  ASSUME NEW x \in Seq(Lines), NEW y \in Seq(Lines), NEW z \in Seq(Lines)
  PROVE  x \o (y \o z) = (x \o y) \o z
BY ConcatAssociative

\* Hunks in the order of the file that go through fit, and make what the format
\* means.
LEMMA AppliedIsPatched ==
  ASSUME NEW s \in Seq(Lines), NEW hunks \in Seq(Hunk),
         WellFormed(hunks), Applied(s, hunks) # None
  PROVE  Fit(s, hunks) /\ Applied(s, hunks) = Patched(s, hunks)
<1> DEFINE N == Len(hunks)
           st == Spliced(s, hunks)
           New(i) == IF i > N THEN << >> ELSE hunks[i].new
<1>1. N \in Nat /\ DOMAIN hunks = 1..N /\ \A n \in 1..N : hunks[n] \in Hunk
  BY LenProperties, ElementOfSeq
<1>2. /\ st[0] = [lines |-> s, offset |-> 0]
      /\ \A n \in 1..N : st[n] = Splice(st[n - 1], hunks[n])
      /\ \A n \in 0..N : st[n].lines # None
      /\ Applied(s, hunks) = st[N].lines
  <2>1. s \in Content
    BY DEF Content
  <2> QED
    BY <2>1, SplicedType, NoneStays DEF Applied
<1>3. PICK flat : /\ Patched(s, hunks) = flat[N + 1]
                  /\ flat[1] = Between(s, hunks, 1) \o New(1)
                  /\ \A i \in 2..(N + 1) : flat[i] = flat[i - 1] \o (Between(s, hunks, i) \o New(i))
  BY PatchedPieces
<1>4. \A n \in 1..N : /\ hunks[n].old = << >> <=> hunks[n].start = 0
                      /\ hunks[n].old = << >> => n = 1
                      /\ n # 1 => After(hunks[n - 1]) <= First(hunks[n])
  BY <1>1 DEF WellFormed
<1>5. Len(s) \in Nat
  BY LenProperties
<1> DEFINE Made(n) == IF n = 0 THEN << >> ELSE flat[n]
           Edge(n) == IF n = 0 THEN 1 ELSE After(hunks[n])
           Good(n) ==
             /\ Made(n) \in Seq(Lines)
             /\ Edge(n) \in 1..(Len(s) + 1)
             /\ st[n] = Midway(Made(n), s, Edge(n))
             /\ n # 0 => /\ After(hunks[n]) <= Len(s) + 1
                         /\ SubSeq(s, First(hunks[n]), After(hunks[n]) - 1) = hunks[n].old
           S == {n \in 0..N : Good(n)}
<1> HIDE DEF st, N, New, Made, Edge
<1>6. SubSeq(s, 1, Len(s)) = s
  BY SubSeqFull
<1>7. Good(0)
  <2>1. Made(0) = << >> /\ Edge(0) = 1 /\ << >> \in Seq(Lines) /\ Len(<< >>) = 0
    BY EmptySeq DEF Made, Edge
  <2>2. << >> \o s = s
    BY ConcatEmptySeq
  <2>3. Len(Made(0)) - (Edge(0) - 1) = 0
    BY <2>1
  <2>4. Made(0) \o SubSeq(s, Edge(0), Len(s)) = s
    BY <1>6, <2>1, <2>2
  <2>5. st[0] = Midway(Made(0), s, Edge(0))
    BY <1>2, <2>3, <2>4 DEF Midway
  <2>6. Made(0) \in Seq(Lines)
    BY <2>1, Zenon
  <2>7. Edge(0) \in 1..(Len(s) + 1)
    BY <1>5, <2>1
  <2> HIDE DEF Good
  <2> QED
    BY <2>5, <2>6, <2>7 DEF Good
<1>8. \A n \in 0..(N - 1) : Good(n) => Good(n + 1)
  <2> HIDE DEF Good
  <2> SUFFICES ASSUME NEW n \in 0..(N - 1), Good(n) PROVE Good(n + 1)
    OBVIOUS
  <2> DEFINE h == hunks[n + 1]
             p == Made(n)
             a == Edge(n)
             part == SubSeq(s, a, First(h) - 1)
             longer == Longer(p, s, a, h)
  <2>1. n + 1 \in 1..N /\ h \in Hunk /\ (n + 1) - 1 = n /\ n \in 0..N
    BY <1>1
  <2>2. /\ p \in Seq(Lines) /\ a \in 1..(Len(s) + 1)
        /\ st[n] = Midway(p, s, a)
    BY DEF Good
  <2>3. st[n + 1] = Splice(st[n], h) /\ Splice(st[n], h).lines # None
    <3>1. st[n + 1] = Splice(st[n], h)
      BY <1>2, <2>1
    <3>2. n + 1 \in 0..N
      BY <1>1
    <3> QED
      BY <1>2, <3>1, <3>2
  <2>4. (h.old = << >> <=> h.start = 0) /\ (h.start = 0 => n = 0)
    BY <1>4, <2>1
  <2>5. First(h) >= a
    <3>1. CASE n = 0
      BY <2>1, <2>4, <3>1, HunkFacts DEF First, Edge
    <3>2. CASE n # 0
      <4>1. n + 1 # 1
        BY <3>2
      <4>2. After(hunks[n]) <= First(h)
        BY <1>4, <2>1, <4>1
      <4>3. hunks[n] \in Hunk
        BY <1>1, <3>2
      <4> QED
        BY <2>1, <3>2, <4>2, <4>3, HunkFacts DEF Edge
    <3> QED
      BY <3>1, <3>2
  <2>6. h.start = 0 => p = << >> /\ a = 1
    BY <2>4 DEF Made, Edge
  <2> HIDE DEF h, p, a
  <2>7. /\ After(h) \in First(h)..(Len(s) + 1)
        /\ SubSeq(s, First(h), After(h) - 1) = h.old
        /\ longer \in Seq(Lines)
        /\ Splice(st[n], h) = Midway(longer, s, After(h))
    <3>1. h.old = << >> <=> h.start = 0
      BY <2>4 DEF h
    <3> HIDE DEF longer
    <3> QED
      BY <2>1, <2>2, <2>3, <2>5, <2>6, <3>1, SpliceFits DEF longer
  <2>8. First(h) \in Nat /\ After(h) \in Nat /\ h.new \in Seq(Lines)
    BY <2>1, HunkFacts
  <2>9. part \in Seq(Lines)
    <3>1. PICK f \in Nat : f = First(h)
      BY <2>8
    <3>2. PICK g \in f..(Len(s) + 1) : g = After(h)
      BY <2>7, <3>1
    <3>3. f >= a
      BY <2>5, <3>1
    <3>4. a \in a..(Len(s) + 1) /\ f - 1 \in (a - 1)..Len(s)
      BY <1>5, <2>2, <3>2, <3>3
    <3> QED
      BY <2>2, <3>1, <3>4, CutInside
  <2>10. n + 1 <= N /\ New(n + 1) = h.new
    BY <1>1, <2>1 DEF New, h
  <2>11. flat[n + 1] = longer
    <3>1. CASE n = 0
      <4>0. n + 1 = 1
        BY <3>1
      <4>1. part = Between(s, hunks, 1)
        <5>1. h = hunks[1] /\ a = 1 /\ ~(1 > N)
          BY <1>1, <2>10, <3>1, <4>0 DEF h, a, Edge
        <5> QED
          BY <5>1 DEF Between, N
      <4>2. p \o part = part
        BY <2>9, <3>1, ConcatEmptySeq DEF p, Made
      <4> QED
        BY <1>3, <2>10, <4>0, <4>1, <4>2 DEF Longer
    <3>2. CASE n # 0
      <4>1. part = Between(s, hunks, n + 1)
        <5>1. ~(n + 1 > N) /\ n + 1 # 1 /\ (n + 1) - 1 = n
          BY <1>1, <2>1, <3>2
        <5> QED
          BY <3>2, <5>1 DEF Between, N, h, a, Edge
      <4>2. p = flat[n]
        BY <3>2 DEF p, Made
      <4>3. n + 1 \in 2..(N + 1)
        BY <1>1, <3>2
      <4>4. flat[n + 1] = p \o (part \o h.new)
        BY <1>3, <2>1, <2>10, <4>1, <4>2, <4>3
      <4> QED
        <5> HIDE DEF part
        <5>0. p \in Seq(Lines) /\ part \in Seq(Lines) /\ h.new \in Seq(Lines)
          BY <2>2, <2>8, <2>9
        <5>1. flat[n + 1] = (p \o part) \o h.new
          BY <4>4, <5>0, Regroup
        <5> QED
          BY <5>1 DEF longer, Longer, part
    <3> QED
      BY <3>1, <3>2
  <2> HIDE DEF longer, part
  <2>12. Made(n + 1) = longer /\ Edge(n + 1) = After(h)
    BY <2>1, <2>11 DEF Made, Edge, h
  <2>13. After(h) \in 1..(Len(s) + 1) /\ After(h) <= Len(s) + 1
    BY <1>5, <2>2, <2>5, <2>7, <2>8
  <2>14. st[n + 1] = Midway(Made(n + 1), s, Edge(n + 1))
    BY <2>3, <2>7, <2>12
  <2> QED
    BY <2>7, <2>12, <2>13, <2>14 DEF Good, h
<1>9. \A n \in 0..N : Good(n)
  <2> HIDE DEF Good
  <2>1. 0 \in S
    BY <1>1, <1>7
  <2>2. \A n \in 0..(N - 1) : n \in S => n + 1 \in S
    BY <1>1, <1>8
  <2>3. 0..N \subseteq S
    <3> HIDE DEF S
    <3> QED
      BY <1>1, <2>1, <2>2, UpTo
  <2> QED
    BY <2>3
<1>10. Fit(s, hunks)
  <2>1. \A n \in 1..N : /\ After(hunks[n]) <= Len(s) + 1
                        /\ SubSeq(s, First(hunks[n]), After(hunks[n]) - 1) = hunks[n].old
    <3> HIDE DEF Good
    <3> SUFFICES ASSUME NEW n \in 1..N
                 PROVE  /\ After(hunks[n]) <= Len(s) + 1
                        /\ SubSeq(s, First(hunks[n]), After(hunks[n]) - 1) = hunks[n].old
      OBVIOUS
    <3>1. n \in 0..N /\ n # 0
      BY <1>1
    <3> QED
      BY <1>9, <3>1 DEF Good
  <2> QED
    BY <1>1, <2>1 DEF Fit, WellFormed
<1>11. Applied(s, hunks) = Patched(s, hunks)
  <2> DEFINE rest == SubSeq(s, Edge(N), Len(s))
  <2>1. /\ Made(N) \in Seq(Lines) /\ Edge(N) \in 1..(Len(s) + 1)
        /\ st[N].lines = Made(N) \o rest
    <3> HIDE DEF Good
    <3>1. Good(N)
      BY <1>1, <1>9
    <3>2. /\ Made(N) \in Seq(Lines) /\ Edge(N) \in 1..(Len(s) + 1)
          /\ st[N] = [lines |-> Made(N) \o rest, offset |-> Len(Made(N)) - (Edge(N) - 1)]
      BY <3>1 DEF Good, Midway
    <3> DEFINE whole == Made(N) \o rest
               offset == Len(Made(N)) - (Edge(N) - 1)
    <3>3. st[N] = [lines |-> whole, offset |-> offset]
      BY <3>2
    <3>4. st[N].lines = whole
      <4> HIDE DEF whole, offset
      <4> QED
        BY <3>3
    <3> QED
      BY <3>2, <3>4
  <2>2. rest \in Seq(Lines)
    <3>1. Edge(N) \in Edge(N)..(Len(s) + 1) /\ Len(s) \in (Edge(N) - 1)..Len(s)
      BY <1>5, <2>1
    <3> QED
      BY <2>1, <3>1, CutInside
  <2>3. Between(s, hunks, N + 1) = rest
    <3>1. N + 1 > N /\ (N + 1) - 1 = N /\ (N + 1 = 1 <=> N = 0)
      BY <1>1
    <3> QED
      BY <3>1 DEF Between, N, Edge
  <2>4. New(N + 1) = << >>
    BY <1>1 DEF New
  <2> HIDE DEF rest
  <2>5. rest \o << >> = rest
    BY <2>2, ConcatEmptySeq
  <2>6. flat[N + 1] = Made(N) \o rest
    <3>1. CASE N = 0
      <4>1. Made(N) \o rest = rest
        BY <2>2, <3>1, ConcatEmptySeq DEF Made
      <4> QED
        BY <1>3, <2>3, <2>4, <2>5, <3>1, <4>1
    <3>2. CASE N # 0
      <4>1. N + 1 \in 2..(N + 1) /\ (N + 1) - 1 = N
        BY <1>1, <3>2
      <4> QED
        BY <1>3, <2>3, <2>4, <2>5, <3>2, <4>1 DEF Made
    <3> QED
      BY <3>1, <3>2
  <2> QED
    BY <1>2, <1>3, <2>1, <2>6
<1> QED
  BY <1>10, <1>11

-----------------------------------------------------------------------------
(* The journal and the changes of the files. *)

\* Nothing changes before the last check, and everything before the verification.
LEMMA NextKeepsMarks == MarkInv /\ [Next]_vars => MarkInv'
<1> SUFFICES ASSUME MarkInv, [Next]_vars PROVE MarkInv'
  OBVIOUS
<1> USE DEF MarkInv, WholeOrNothing, Phases
<1>1. CASE Ask
  BY <1>1 DEF Ask, Goto
<1>2. CASE Mark
  BY <1>2 DEF Mark, Goto, Outside
<1>3. CASE Snapshot
  BY <1>3 DEF Snapshot, Advance, Outside
<1>4. CASE NoPatches
  BY <1>4 DEF NoPatches, Fail, Goto, Outside
<1>5. CASE Prepare
  BY <1>5 DEF Prepare, Advance, Outside
<1>6. CASE Refuse
  BY <1>6 DEF Refuse, Fail, Goto, Outside
<1>7. CASE Stage
  BY <1>7 DEF Stage, Advance, Outside
<1>8. CASE RefuseLate
  BY <1>8 DEF RefuseLate, Fail, Goto, Outside
<1>9. ASSUME NEW i \in DOMAIN diff, NEW c, Changed(i, c) PROVE MarkInv'
  <2>1. pc = "write" /\ status' = status /\ diff' = diff /\ wrote' = wrote \cup {i}
    BY <1>9 DEF Changed, Change
  <2>2. CASE wrote' = DOMAIN diff
    BY <1>9, <2>1, <2>2 DEF Changed, Goto
  <2>3. CASE wrote' # DOMAIN diff
    BY <1>9, <2>1, <2>3 DEF Changed
  <2> QED BY <2>2, <2>3
<1>10. ASSUME NEW i \in DOMAIN diff, Write(i) PROVE MarkInv'
  BY <1>9, <1>10 DEF Write
<1>11. ASSUME NEW i \in DOMAIN diff, Delete(i) PROVE MarkInv'
  BY <1>9, <1>11 DEF Delete
<1>12. ASSUME NEW i \in DOMAIN diff, DeleteMissing(i) PROVE MarkInv'
  BY <1>12 DEF DeleteMissing, Leave
<1>13. ASSUME NEW i \in DOMAIN diff, TearFile(i) PROVE MarkInv'
  BY <1>13 DEF TearFile, Change, Leave
<1>14. CASE Verify
  BY <1>14 DEF Verify, Advance, Outside
<1>15. CASE VerifyFails
  BY <1>15 DEF VerifyFails, Fail, Goto, Outside
<1>16. CASE Close
  BY <1>16 DEF Close, Goto, Outside
<1>17. CASE Interrupt
  BY <1>17 DEF Interrupt, Leave
<1>18. CASE Edit
  BY <1>18 DEF Edit, local
<1>19. CASE UNCHANGED vars
  BY <1>19 DEF vars, local
<1> QED
  BY <1>1, <1>2, <1>3, <1>4, <1>5, <1>6, <1>7, <1>8, <1>10, <1>11, <1>12, <1>13,
     <1>14, <1>15, <1>16, <1>17, <1>18, <1>19 DEF Next


-----------------------------------------------------------------------------
(* Types. *)

\* What the patches of a diff are.
LEMMA DiffFacts ==
  ASSUME diff \in Diffs
  PROVE  /\ diff \in Seq(Patch) /\ Len(diff) \in Nat /\ DOMAIN diff = 1..Len(diff)
         /\ \A i \in 1..Len(diff) : /\ diff[i] \in Patch /\ diff[i].hunks \in Seq(Hunk)
                                    /\ diff[i].path \in Files
<1>1. diff \in Seq(Patch)
  BY PatchAssumption
<1>2. \A i \in 1..Len(diff) : diff[i] \in Patch
  BY <1>1, ElementOfSeq
<1>3. Len(diff) \in Nat /\ DOMAIN diff = 1..Len(diff)
  BY <1>1, LenProperties
<1> QED
  BY <1>1, <1>2, <1>3 DEF Patch

\* A patch makes a content of a content, or is refused.
LEMMA UpdatedType ==
  ASSUME NEW p \in Patch, NEW c \in Content
  PROVE  Updated(p, c) \in Content
<1>1. << >> \in Content
  BY EmptySeq DEF Content
<1>2. p.hunks \in Seq(Hunk)
  BY DEF Patch
<1>3. Applied(<< >>, p.hunks) \in Content /\ Applied(c, p.hunks) \in Content
  BY <1>1, <1>2, AppliedType
<1>4. None \in Content
  BY DEF Content, None
<1>5. CASE p.op = "add"
  BY <1>3, <1>4, <1>5 DEF Updated
<1>6. CASE p.op = "delete"
  BY <1>1, <1>4, <1>6 DEF Updated
<1>7. CASE p.op = "update"
  BY <1>3, <1>4, <1>7 DEF Updated
<1> QED
  BY <1>5, <1>6, <1>7 DEF Patch

\* The old content the hunks are replayed on is text.
LEMMA OldType ==
  ASSUME NEW i, plan[i] \in Content
  PROVE  Old(i) \in Seq(Lines)
BY EmptySeq DEF Old, Content

\* What is written, whole or in part, is text.
LEMMA OutputType ==
  ASSUME NEW f, NEW s \in Seq(Lines)
  PROVE  /\ Output(f, s) \in Seq(Lines)
         /\ \A n \in 0..(Len(Output(f, s)) - 1) : SubSeq(Output(f, s), 1, n) \in Seq(Lines)
<1>1. Len(s) \in Nat /\ DOMAIN s = 1..Len(s) /\ \A i \in 1..Len(s) : s[i] \in Lines
  BY LenProperties, ElementOfSeq
<1>2. Output(f, s) \in Seq(Lines)
  <2>1. \A i \in 1..Len(s) : Ascii[s[i]] \in Lines
    BY <1>1, PatchAssumption
  <2>2. [i \in 1..Len(s) |-> Ascii[s[i]]] \in Seq(Lines)
    BY <1>1, <2>1, SeqDef
  <2>3. [i \in DOMAIN s |-> Ascii[s[i]]] = [i \in 1..Len(s) |-> Ascii[s[i]]]
    BY <1>1
  <2>4. [i \in DOMAIN s |-> Ascii[s[i]]] \in Seq(Lines)
    BY <2>2, <2>3
  <2> QED
    BY <2>4 DEF Output
<1>3. PICK t \in Seq(Lines) : t = Output(f, s)
  BY <1>2
<1>4. ASSUME NEW n \in 0..(Len(t) - 1) PROVE SubSeq(t, 1, n) \in Seq(Lines)
  <2>1. Len(t) \in Nat /\ \A i \in 1..Len(t) : t[i] \in Lines
    BY LenProperties, ElementOfSeq
  <2>2. n \in Nat /\ \A i \in 1..n : t[i] \in Lines
    BY <2>1
  <2> QED
    BY <2>2, SubSeqProperties
<1> QED
  BY <1>2, <1>3, <1>4

-----------------------------------------------------------------------------
(* The loops of a call. *)

\* Steps that leave plan and list alone, and those that forget the list.
LEMMA SeenStays ==
  ASSUME SeenInv, UNCHANGED <<diff, plan, seen>>
  PROVE  SeenInv'
BY DEF SeenInv, Old, Deletes

LEMMA SeenForgotten ==
  ASSUME seen' = << >>
  PROVE  SeenInv'
<1>1. 1..Len(seen') = {}
  BY EmptySeq
<1> QED
  BY <1>1 DEF SeenInv

LEMMA AskStep ==
  ASSUME TypeOK, LoopInv, SeenInv, Ask
  PROVE  TypeOK' /\ LoopInv' /\ SeenInv'
<1>1. TypeOK'
  BY DEF Ask, Goto, TypeOK, Phases
<1>2. LoopInv'
  BY EmptySeq DEF Ask, Goto, TypeOK, LoopInv
<1>3. SeenInv'
  BY SeenStays DEF Ask
<1> QED
  BY <1>1, <1>2, <1>3

LEMMA MarkStep ==
  ASSUME TypeOK, LoopInv, SeenInv, Mark
  PROVE  TypeOK' /\ LoopInv' /\ SeenInv'
<1>1. TypeOK'
  BY DEF Mark, Goto, Outside, TypeOK, Phases
<1>2. LoopInv'
  BY EmptySeq DEF Mark, Goto, Outside, TypeOK, LoopInv
<1>3. SeenInv'
  BY SeenStays DEF Mark, Outside
<1> QED
  BY <1>1, <1>2, <1>3

LEMMA SnapshotStep ==
  ASSUME TypeOK, LoopInv, Snapshot
  PROVE  TypeOK' /\ LoopInv' /\ SeenInv'
<1>1. /\ pc = "snapshot" /\ at \in Nat /\ at >= 1 /\ at <= Len(diff) /\ Len(diff) \in Nat
      /\ diff[at].path \in Files
  BY DiffFacts DEF Snapshot, Advance, TypeOK, LoopInv
<1>2. PICK c : c \in {disk[diff[at].path], << >>} /\ plan' = Append(plan, c)
  BY DEF Snapshot
<1>3. c \in Content
  <2>1. disk[diff[at].path] \in Content
    BY <1>1 DEF TypeOK
  <2>2. << >> \in Content
    BY EmptySeq DEF Content
  <2> QED
    BY <1>2, <2>1, <2>2
<1>4. plan' \in Seq(Content) /\ Len(plan') = at
  <2>1. plan \in Seq(Content) /\ Len(plan) = at - 1
    BY <1>1 DEF TypeOK, LoopInv
  <2> QED
    BY <1>1, <1>2, <1>3, <2>1, AppendProperties
<1>5. TypeOK'
  BY <1>1, <1>4 DEF Snapshot, Advance, Outside, TypeOK, Phases
<1>6. LoopInv'
  BY <1>1, <1>4 DEF Snapshot, Advance, Outside, TypeOK, LoopInv
<1>7. SeenInv'
  BY <1>1, SeenForgotten DEF Snapshot, LoopInv
<1> QED
  BY <1>5, <1>6, <1>7

LEMMA FailStep ==
  ASSUME TypeOK, LoopInv, SeenInv, NEW from \in {"snapshot", "prepare", "stage", "verify"},
         Fail(from)
  PROVE  TypeOK' /\ LoopInv' /\ SeenInv'
<1>1. TypeOK'
  BY DEF Fail, Goto, Outside, TypeOK, Phases
<1>2. LoopInv'
  BY DEF Fail, Goto, Outside, TypeOK, LoopInv
<1>3. SeenInv'
  BY SeenStays DEF Fail, Outside
<1> QED
  BY <1>1, <1>2, <1>3

LEMMA PrepareStep ==
  ASSUME TypeOK, LoopInv, SeenInv, Prepare
  PROVE  TypeOK' /\ LoopInv' /\ SeenInv'
<1>1. TypeOK'
  BY DEF Prepare, Advance, Outside, TypeOK, Phases
<1>2. LoopInv'
  BY EmptySeq DEF Prepare, Advance, Outside, TypeOK, LoopInv
<1>3. SeenInv'
  BY SeenStays DEF Prepare, Outside
<1> QED
  BY <1>1, <1>2, <1>3

LEMMA StageStep ==
  ASSUME TypeOK, LoopInv, SeenInv, Stage
  PROVE  TypeOK' /\ LoopInv' /\ SeenInv'
<1> DEFINE new == Updated(diff[at], disk[diff[at].path])
<1>1. /\ pc = "stage" /\ at \in Nat /\ at >= 1 /\ at <= Len(diff) /\ Len(diff) \in Nat
      /\ diff[at] \in Patch /\ diff[at].path \in Files
      /\ new # None /\ staged' = Append(staged, new)
  BY DiffFacts DEF Stage, Advance, TypeOK, LoopInv
<1>2. new \in Seq(Lines)
  <2>1. disk[diff[at].path] \in Content
    BY <1>1 DEF TypeOK
  <2>2. new \in Content
    BY <1>1, <2>1, UpdatedType
  <2> QED
    BY <1>1, <2>2 DEF Content, None
<1> HIDE DEF new
<1>3. staged' \in Seq(Seq(Lines)) /\ Len(staged') = at
  <2>1. staged \in Seq(Seq(Lines)) /\ Len(staged) = at - 1
    BY <1>1 DEF TypeOK, LoopInv
  <2> QED
    BY <1>1, <1>2, <2>1, AppendProperties
<1>4. TypeOK'
  BY <1>1, <1>3 DEF Stage, Advance, Outside, TypeOK, Phases
<1>5. LoopInv'
  BY <1>1, <1>3 DEF Stage, Advance, Outside, TypeOK, LoopInv
<1>6. SeenInv'
  BY SeenStays DEF Stage, Outside
<1> QED
  BY <1>4, <1>5, <1>6

LEMMA ChangedStep ==
  ASSUME TypeOK, LoopInv, SeenInv, NEW i \in DOMAIN diff, NEW c \in Content, Changed(i, c)
  PROVE  TypeOK' /\ LoopInv' /\ SeenInv'
<1>1. pc = "write" /\ ((pc' = "verify" /\ at' = 1) \/ UNCHANGED <<pc, at>>)
  BY DEF Changed, Goto
<1>2. TypeOK'
  <2>1. disk' \in [Files -> Content] /\ wrote' \subseteq DOMAIN diff
    BY DEF Changed, Change, TypeOK
  <2>2. at' \in Nat /\ pc' \in Phases
    BY <1>1 DEF TypeOK, Phases
  <2> QED
    BY <2>1, <2>2 DEF Changed, TypeOK
<1>3. LoopInv'
  BY <1>1, EmptySeq DEF Changed, TypeOK, LoopInv
<1>4. SeenInv'
  BY SeenStays DEF Changed
<1> QED
  BY <1>2, <1>3, <1>4

LEMMA WriteStep ==
  ASSUME TypeOK, LoopInv, SeenInv, NEW i \in DOMAIN diff, Write(i) \/ Delete(i)
  PROVE  TypeOK' /\ LoopInv' /\ SeenInv'
<1>1. CASE Write(i)
  <2>1. pc = "write" /\ Changed(i, Output(diff[i].path, staged[i]))
    BY <1>1 DEF Write, Changed
  <2>2. staged[i] \in Seq(Lines)
    <3>1. i \in 1..Len(staged) /\ staged \in Seq(Seq(Lines))
      BY <2>1, DiffFacts DEF TypeOK, LoopInv
    <3> QED
      BY <3>1, ElementOfSeq
  <2>3. Output(diff[i].path, staged[i]) \in Content
    BY <2>2, OutputType DEF Content
  <2> QED
    BY <2>1, <2>3, ChangedStep
<1>2. CASE Delete(i)
  BY <1>2, ChangedStep DEF Delete, Content
<1> QED
  BY <1>1, <1>2

LEMMA VerifyStep ==
  ASSUME TypeOK, LoopInv, SeenInv, Verify
  PROVE  TypeOK' /\ LoopInv' /\ SeenInv'
<1> DEFINE found == disk[diff[at].path]
<1>1. /\ pc = "verify" /\ at \in Nat /\ at >= 1 /\ at <= Len(diff) /\ Len(diff) \in Nat
      /\ diff[at].path \in Files /\ seen' = Append(seen, found)
      /\ UNCHANGED <<diff, plan, staged>>
  BY DiffFacts DEF Verify, Advance, Outside, TypeOK, LoopInv
<1>2. found \in Content
  BY <1>1 DEF TypeOK
<1>3. Verified(at)
  BY DEF Verify
<1>4. seen \in Seq(Content) /\ Len(seen) = at - 1 /\ Len(plan) = Len(diff)
  BY <1>1 DEF TypeOK, LoopInv
<1>5. /\ seen' \in Seq(Content) /\ Len(seen') = at
      /\ \A i \in 1..(at - 1) : seen'[i] = seen[i]
      /\ seen'[at] = found
  <2> HIDE DEF found
  <2> QED
    BY <1>1, <1>2, <1>4, AppendProperties
<1>6. TypeOK'
  BY <1>1, <1>5 DEF Verify, Advance, Outside, TypeOK, Phases
<1>7. LoopInv'
  BY <1>1, <1>4, <1>5 DEF Verify, Advance, Outside, TypeOK, LoopInv
<1>8. SeenInv'
  <2> SUFFICES ASSUME NEW i \in 1..at
               PROVE  LET new == Applied(Old(i), diff[i].hunks)
                      IN  new # None /\ seen'[i] = IF Deletes(i) THEN Missing ELSE new
    BY <1>1, <1>5 DEF SeenInv, Old, Deletes
  <2>1. CASE i = at
    BY <1>3, <1>5, <2>1 DEF Verified
  <2>2. CASE i # at
    <3>1. i \in 1..(at - 1)
      BY <1>1, <2>2
    <3> QED
      BY <1>4, <1>5, <3>1 DEF SeenInv
  <2> QED
    BY <2>1, <2>2
<1> QED
  BY <1>6, <1>7, <1>8

LEMMA CloseStep ==
  ASSUME TypeOK, Close
  PROVE  TypeOK' /\ LoopInv' /\ SeenInv'
<1>1. TypeOK'
  BY EmptySeq DEF Close, Goto, Forget, Outside, TypeOK, Phases
<1>2. LoopInv'
  BY EmptySeq DEF Close, Goto, Forget, Outside, LoopInv
<1>3. SeenInv'
  BY SeenForgotten DEF Close, Forget
<1> QED
  BY <1>1, <1>2, <1>3

\* The call is cut off, or left by an exception.
LEMMA LeaveStep ==
  ASSUME TypeOK, Leave, disk' \in [Files -> Content], wrote' \subseteq DOMAIN diff, faults' \in Nat
  PROVE  TypeOK' /\ LoopInv' /\ SeenInv'
<1>1. TypeOK'
  BY EmptySeq DEF Leave, Forget, TypeOK, Phases
<1>2. LoopInv'
  BY EmptySeq DEF Leave, Forget, LoopInv
<1>3. SeenInv'
  BY SeenForgotten DEF Leave, Forget
<1> QED
  BY <1>1, <1>2, <1>3

LEMMA TearFileStep ==
  ASSUME TypeOK, LoopInv, NEW i \in DOMAIN diff, TearFile(i)
  PROVE  TypeOK' /\ LoopInv' /\ SeenInv'
<1> DEFINE new == Output(diff[i].path, staged[i])
<1>1. staged[i] \in Seq(Lines)
  <2>1. i \in 1..Len(staged) /\ staged \in Seq(Seq(Lines))
    BY DiffFacts DEF TearFile, TypeOK, LoopInv
  <2> QED
    BY <2>1, ElementOfSeq
<1>2. \A n \in 0..(Len(new) - 1) : SubSeq(new, 1, n) \in Seq(Lines)
  BY <1>1, OutputType
<1>3. PICK n \in 0..(Len(new) - 1) : Change(i, SubSeq(new, 1, n))
  BY DEF TearFile
<1> HIDE DEF new
<1>4. SubSeq(new, 1, n) \in Content
  BY <1>2 DEF Content
<1>5. disk' \in [Files -> Content] /\ wrote' \subseteq DOMAIN diff
  BY <1>3, <1>4 DEF Change, TypeOK
<1>6. Leave /\ faults' \in Nat
  BY DEF TearFile, TypeOK
<1> QED
  BY <1>5, <1>6, LeaveStep

LEMMA EditStep ==
  ASSUME TypeOK, LoopInv, SeenInv, Edit
  PROVE  TypeOK' /\ LoopInv' /\ SeenInv'
<1>1. TypeOK'
  <2>1. PICK f \in Files, c \in Contents : disk' = [disk EXCEPT ![f] = c]
    BY DEF Edit
  <2>2. disk' \in [Files -> Content]
    BY <2>1, PatchAssumption DEF TypeOK
  <2> QED
    BY <2>2 DEF Edit, local, TypeOK
<1>2. LoopInv'
  BY DEF Edit, local, LoopInv
<1>3. SeenInv'
  BY SeenStays DEF Edit, local
<1> QED
  BY <1>1, <1>2, <1>3

-----------------------------------------------------------------------------
(* The results. *)

\* The inductive invariant holds at first.
THEOREM InitEstablishesIInv == Init => IInv
<1> SUFFICES ASSUME Init PROVE IInv
  OBVIOUS
<1>1. TypeOK
  BY EmptySeq, PatchAssumption DEF Init, TypeOK, Phases
<1>2. MarkInv
  BY DEF Init, MarkInv, WholeOrNothing, Phases
<1>3. LoopInv
  BY EmptySeq DEF Init, LoopInv
<1>4. SeenInv
  <2>1. 1..Len(seen) = {}
    BY EmptySeq DEF Init
  <2> QED
    BY <2>1 DEF SeenInv
<1> QED
  BY <1>1, <1>2, <1>3, <1>4 DEF IInv

\* Every step keeps the inductive invariant.
THEOREM NextKeepsIInv == IInv /\ [Next]_vars => IInv'
<1> SUFFICES ASSUME IInv, [Next]_vars PROVE IInv'
  OBVIOUS
<1>1. MarkInv'
  BY NextKeepsMarks DEF IInv
<1>2. TypeOK /\ LoopInv /\ SeenInv
  BY DEF IInv
<1>3. TypeOK' /\ LoopInv' /\ SeenInv'
  <2>1. CASE Ask
    BY <1>2, <2>1, AskStep
  <2>2. CASE Mark
    BY <1>2, <2>2, MarkStep
  <2>3. CASE Snapshot
    BY <1>2, <2>3, SnapshotStep
  <2>4. CASE NoPatches \/ Refuse \/ RefuseLate \/ VerifyFails
    BY <1>2, <2>4, FailStep DEF NoPatches, Refuse, RefuseLate, VerifyFails
  <2>5. CASE Prepare
    BY <1>2, <2>5, PrepareStep
  <2>6. CASE Stage
    BY <1>2, <2>6, StageStep
  <2>7. ASSUME NEW i \in DOMAIN diff, Write(i) \/ Delete(i) PROVE TypeOK' /\ LoopInv' /\ SeenInv'
    BY <1>2, <2>7, WriteStep
  <2>8. ASSUME NEW i \in DOMAIN diff, DeleteMissing(i) PROVE TypeOK' /\ LoopInv' /\ SeenInv'
    BY <1>2, <2>8, LeaveStep DEF DeleteMissing, TypeOK
  <2>9. ASSUME NEW i \in DOMAIN diff, TearFile(i) PROVE TypeOK' /\ LoopInv' /\ SeenInv'
    BY <1>2, <2>9, TearFileStep
  <2>10. CASE Verify
    BY <1>2, <2>10, VerifyStep
  <2>11. CASE Close
    BY <1>2, <2>11, CloseStep
  <2>12. CASE Interrupt
    BY <1>2, <2>12, LeaveStep DEF Interrupt, Leave, TypeOK
  <2>13. CASE Edit
    BY <1>2, <2>13, EditStep
  <2>14. CASE UNCHANGED vars
    <3>1. TypeOK' /\ LoopInv'
      BY <1>2, <2>14 DEF vars, local, TypeOK, LoopInv
    <3>2. SeenInv'
      BY <1>2, <2>14, SeenStays DEF vars, local
    <3> QED
      BY <3>1, <3>2
  <2> QED
    BY <2>1, <2>2, <2>3, <2>4, <2>5, <2>6, <2>7, <2>8, <2>9, <2>10, <2>11, <2>12, <2>13, <2>14
       DEF Next
<1> QED
  BY <1>1, <1>3 DEF IInv

\* The inductive invariant holds in every state of every behaviour.
THEOREM Invariance == Spec => []IInv
BY InitEstablishesIInv, NextKeepsIInv, PTL DEF Spec

\* Every variable keeps its type: what the hunks make of a content is a content,
\* and the lists of the loops are as long as the diff where they are read.
THEOREM TypeCorrect == Spec => []TypeOK
<1>1. IInv => TypeOK
  BY DEF IInv
<1> QED
  BY <1>1, Invariance, PTL

\* Of the changes of a diff all are made or none when patch_files() has returned,
\* whatever its outcome; in between the journal has the diff in flight.
THEOREM AlwaysWholeOrNothing == Spec => []WholeOrNothing
<1>1. IInv => WholeOrNothing
  BY DEF IInv, MarkInv
<1> QED
  BY <1>1, Invariance, PTL

\* A diff that the executor records as completed has left in every file what the
\* diff format means, whatever others and earlier calls have done to the files.
THEOREM CompletedAlwaysPatched == Spec => []CompletedIsPatched
<1>1. IInv => CompletedIsPatched
  <2> SUFFICES ASSUME IInv, ok, NEW i \in DOMAIN diff, WellFormed(diff[i].hunks)
               PROVE  /\ Fit(Old(i), diff[i].hunks)
                      /\ seen[i] = IF Deletes(i) THEN Missing ELSE Patched(Old(i), diff[i].hunks)
    BY DEF CompletedIsPatched
  <2>1. /\ i \in 1..Len(plan) /\ i \in 1..Len(seen) /\ plan \in Seq(Content)
        /\ diff[i].hunks \in Seq(Hunk)
    BY DiffFacts DEF IInv, TypeOK, LoopInv
  <2>2. Old(i) \in Seq(Lines)
    <3>1. plan[i] \in Content
      BY <2>1, ElementOfSeq
    <3> QED
      BY <3>1, OldType
  <2>3. /\ Applied(Old(i), diff[i].hunks) # None
        /\ seen[i] = IF Deletes(i) THEN Missing ELSE Applied(Old(i), diff[i].hunks)
    BY <2>1 DEF IInv, SeenInv
  <2>4. /\ Fit(Old(i), diff[i].hunks)
        /\ Applied(Old(i), diff[i].hunks) = Patched(Old(i), diff[i].hunks)
    BY <2>1, <2>2, <2>3, AppliedIsPatched
  <2> QED
    BY <2>3, <2>4
<1> QED
  BY <1>1, Invariance, PTL
=============================================================================
