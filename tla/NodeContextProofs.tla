------------------------- MODULE NodeContextProofs -------------------------
(***************************************************************************)
(* Proofs about the context of a node, for any callers, notes, budget and  *)
(* schedule of failing statements, crashes and restarts; and, at the end,  *)
(* about the file reads that the same store keeps.                         *)
(***************************************************************************)
EXTENDS NodeContext, FiniteSetTheorems, WellFoundedInduction, TLAPS

(* The parts together are TypeOK, and more.                                *)
LEMMA TypesCorrect == TypeInv => TypeOK
<1>1. ASSUME NEW rows, RowsOK(rows)
      PROVE  /\ rows.capsule \in Capsule
             /\ rows.snap \in [DOMAIN rows.snap -> Context]
             /\ DOMAIN rows.snap \subseteq 1..MaxRevision
  BY <1>1 DEF RowsOK, Fits
<1>2. StoreOK => \A rows \in {view, disk} :
         /\ rows.capsule \in Capsule
         /\ rows.snap \in [DOMAIN rows.snap -> Context]
         /\ DOMAIN rows.snap \subseteq 1..MaxRevision
  BY <1>1 DEF StoreOK
<1>3. ctx \in Fits <=> ctx \in Context /\ Cardinality(ctx) <= Cap
  BY DEF Fits
<1> QED
  BY <1>2, <1>3 DEF TypeInv, TypeOK, MemoryOK, StoreOK, LoopOK, CallersOK, HistoryOK, BoundsOK

-----------------------------------------------------------------------------
(* Lemmas about the operators.                                             *)

(* A set of revisions has a greatest one.                                  *)
LEMMA GreatestExists ==
  ASSUME NEW N \in Nat, NEW S \in SUBSET (1..N), S # {}
  PROVE  \E r \in S : \A s \in S : s <= r
<1> DEFINE T == {N - s : s \in S}
<1>1. T \subseteq Nat /\ T # {}
  <2>1. \A s \in S : s \in Nat /\ s <= N
    OBVIOUS
  <2>2. \A s \in S : N - s \in Nat
    BY <2>1
  <2>3. PICK s \in S : TRUE
    OBVIOUS
  <2>4. N - s \in T
    OBVIOUS
  <2> QED
    BY <2>2, <2>4
<1>2. PICK x \in T : \A y \in T : <<y, x>> \notin OpToRel(<, Nat)
  <2> HIDE DEF T
  <2> QED
    BY <1>1, NatLessThanWellFounded, WFMin
<1>3. \A y \in T : ~(y < x)
  BY <1>1, <1>2 DEF OpToRel
<1>4. PICK r \in S : x = N - r
  OBVIOUS
<1>5. \A s \in S : s <= r
  BY <1>3, <1>4
<1> QED
  BY <1>5

LEMMA NewestFacts ==
  ASSUME NEW S \in SUBSET (1..MaxRevision), S # {}
  PROVE  Newest(S) \in S /\ \A s \in S : s <= Newest(S)
<1>1. \E r \in S : \A s \in S : s <= r
  BY GreatestExists, ContextAssumption
<1> QED
  BY <1>1 DEF Newest

LEMMA Bounds == MaxRevision \in Nat /\ MaxRuns \in Nat /\ MaxFaults \in Nat
  BY ContextAssumption

LEMMA BlankFits == {} \in Fits /\ Blank \in Read /\ Blank.ctx \in Fits /\ Blank.rev = 0 /\ Blank.ctx = {}
  BY ContextAssumption, FS_EmptySet DEF Blank, Read, Fits, Context

LEMMA FittedFacts ==
  ASSUME NEW all \in Context, NEW s \in Fitted(all)
  PROVE  s \in Fits /\ s \subseteq all
  BY DEF Fitted, Fits, Context

(* What _restore_node_capsules() takes over.                               *)
LEMMA RestoredFacts ==
  ASSUME RowsOK(disk), NEW found \in SUBSET DOMAIN disk.snap
  PROVE  /\ Restored(found) \in Read /\ Restored(found).ctx \in Fits
         /\ \/ Restored(found) = Blank /\ ~disk.capsule.saved
            \/ /\ disk.capsule.saved
               /\ \E r \in Read :
                    /\ \/ /\ r.rev \in found /\ disk.capsule.rev <= r.rev
                          /\ \A x \in found : x <= r.rev
                          /\ r.ctx = disk.snap[r.rev]
                       \/ /\ \A x \in found : x < disk.capsule.rev
                          /\ r.rev = disk.capsule.rev /\ r.ctx = disk.capsule.ctx
                    /\ Restored(found) = IF disk.capsule.done /\ r.ctx = {} THEN Blank ELSE r
<1> DEFINE c == disk.capsule
           n == Newest(found)
           r == IF found # {} /\ n >= c.rev THEN [rev |-> n, ctx |-> disk.snap[n]]
                                            ELSE [rev |-> c.rev, ctx |-> c.ctx]
<1>1. Restored(found) = IF ~c.saved \/ (c.done /\ r.ctx = {}) THEN Blank ELSE r
  BY DEF Restored
<1>2. c \in Capsule /\ c.rev \in 0..MaxRevision /\ c.ctx \in Fits
  BY DEF RowsOK, Capsule
<1>3. found \subseteq 1..MaxRevision
  BY DEF RowsOK
<1>4. found # {} => n \in found /\ (\A x \in found : x <= n)
  BY <1>3, NewestFacts
<1>5. CASE found # {} /\ n >= c.rev
  <2>1. n \in 1..MaxRevision /\ disk.snap[n] \in Fits
    BY <1>3, <1>4, <1>5 DEF RowsOK
  <2>2. r.rev = n /\ r.ctx = disk.snap[n] /\ r \in Read
    BY <1>5, <2>1 DEF Read, Fits
  <2>3. /\ r.rev \in found /\ c.rev <= r.rev
        /\ \A x \in found : x <= r.rev
        /\ r.ctx = disk.snap[r.rev]
    BY <1>2, <1>4, <1>5, <2>1, <2>2
  <2> HIDE DEF r
  <2> QED
    BY <1>1, <2>1, <2>2, <2>3, BlankFits
<1>6. CASE ~(found # {} /\ n >= c.rev)
  <2>1. \A x \in found : x < c.rev
    BY <1>2, <1>3, <1>4, <1>6
  <2>2. r.rev = c.rev /\ r.ctx = c.ctx /\ r \in Read
    BY <1>2, <1>6 DEF Read, Fits
  <2> HIDE DEF r
  <2> QED
    BY <1>1, <1>2, <2>1, <2>2, BlankFits
<1> QED
  BY <1>5, <1>6

(* A snapshot is added or replaced, the rest stays.                        *)
LEMMA WithSnapshotFacts ==
  ASSUME RowsOK(view), NEW r \in Read, r.ctx \in Fits, r.rev # 0
  PROVE  /\ RowsOK(WithSnapshot(r))
         /\ DOMAIN WithSnapshot(r).snap = DOMAIN view.snap \cup {r.rev}
         /\ WithSnapshot(r).snap[r.rev] = r.ctx
         /\ \A x \in DOMAIN view.snap : x # r.rev => WithSnapshot(r).snap[x] = view.snap[x]
         /\ WithSnapshot(r).capsule = view.capsule
<1> DEFINE s == [x \in DOMAIN view.snap \cup {r.rev} |-> IF x = r.rev THEN r.ctx ELSE view.snap[x]]
<1>1. view = [snap |-> view.snap, capsule |-> view.capsule]
  BY DEF RowsOK
<1>2. WithSnapshot(r) = [snap |-> s, capsule |-> view.capsule]
  BY <1>1 DEF WithSnapshot
<1>3. WithSnapshot(r).snap = s /\ WithSnapshot(r).capsule = view.capsule
  BY <1>2
<1>4. r.rev \in 1..MaxRevision
  BY ContextAssumption DEF Read
<1>5. \A x \in DOMAIN s : s[x] \in Fits
  BY DEF RowsOK
<1>6. DOMAIN s \subseteq 1..MaxRevision
  BY <1>4 DEF RowsOK
<1>7. RowsOK(WithSnapshot(r))
  <2>1. s = [x \in DOMAIN s |-> s[x]]
    OBVIOUS
  <2> HIDE DEF s
  <2> QED
    BY <1>2, <1>3, <1>5, <1>6, <2>1 DEF RowsOK
<1> QED
  BY <1>3, <1>7

LEMMA WithCapsuleFacts ==
  ASSUME RowsOK(view), MemoryOK
  PROVE  /\ RowsOK(WithCapsule)
         /\ WithCapsule.snap = view.snap
         /\ WithCapsule.capsule.saved /\ WithCapsule.capsule.rev = rev /\ WithCapsule.capsule.ctx = ctx
<1> DEFINE c == [saved |-> TRUE, rev |-> rev, ctx |-> ctx, done |-> done]
<1>1. c \in Capsule /\ c.ctx \in Fits /\ c.rev = rev /\ c.ctx = ctx /\ c.saved
  BY DEF Capsule, MemoryOK, Fits
<1>2. WithCapsule = [snap |-> view.snap, capsule |-> c]
  <2>1. view = [snap |-> view.snap, capsule |-> view.capsule]
    BY DEF RowsOK
  <2>2. WithCapsule = [view EXCEPT !.capsule = c]
    BY DEF WithCapsule
  <2> HIDE DEF c
  <2> QED
    BY <2>1, <2>2
<1>3. WithCapsule.snap = view.snap /\ WithCapsule.capsule = c
  BY <1>2
<1> HIDE DEF c
<1> QED
  BY <1>1, <1>2, <1>3 DEF RowsOK

LEMMA StoreKept ==
  ASSUME StoreOK, BoundsOK, NEW new, RowsOK(new), Write(new) \/ FailToWrite(new)
  PROVE  StoreOK' /\ faults' \in 0..MaxFaults
<1>1. view' \in {view, new, disk} /\ disk' \in {disk, new}
  BY DEF Write, FailToWrite
<1>2. faults' \in 0..MaxFaults
  BY ContextAssumption DEF Write, FailToWrite, Fault, BoundsOK
<1> QED
  BY <1>1, <1>2 DEF StoreOK

-----------------------------------------------------------------------------
(* Types.                                                                  *)

LEMMA InitTypes == Init => TypeInv
<1> SUFFICES ASSUME Init PROVE TypeInv
  OBVIOUS
<1> USE Bounds, BlankFits
<1>1. RowsOK(NoRows)
  <2>1. NoRows.snap = << >> /\ NoRows.capsule = [saved |-> FALSE, rev |-> 0, ctx |-> {}, done |-> FALSE]
    BY DEF NoRows
  <2>2. NoRows.capsule \in Capsule /\ NoRows.capsule.ctx \in Fits
    BY <2>1, FS_EmptySet DEF Capsule, Fits, Context
  <2>3. NoRows = [snap |-> NoRows.snap, capsule |-> NoRows.capsule]
    BY DEF NoRows
  <2>4. DOMAIN NoRows.snap = {} /\ NoRows.snap = [x \in {} |-> NoRows.snap[x]]
    BY <2>1
  <2> QED
    BY <2>2, <2>3, <2>4 DEF RowsOK
<1>2. StoreOK
  BY <1>1 DEF Init, StoreOK
<1>3. MemoryOK
  <2>1. rev \in 0..MaxRevision /\ ctx \in Fits
    BY DEF Init
  <2>2. done \in BOOLEAN
    BY Zenon DEF Init
  <2> QED
    BY <2>1, <2>2, Zenon DEF MemoryOK
<1>4. LoopOK
  <2>1. retried \in BOOLEAN
    BY Zenon DEF Init
  <2>2. pc = "down" /\ draft \in Read /\ draft.ctx \in Fits
    BY DEF Init
  <2> QED
    BY <2>1, <2>2, Zenon DEF LoopOK
<1>6. HistoryOK /\ BoundsOK
  BY DEF Init, HistoryOK, BoundsOK
<1>5. CallersOK
  <2>1. Idle \in [note : Notes \cup {Execution}, new : Read, old : Read] /\ Idle.new = Blank /\ Idle.old = Blank
    BY DEF Idle
  <2> QED
    BY <2>1 DEF Init, CallersOK
<1> QED
  BY <1>2, <1>3, <1>4, <1>5, <1>6 DEF TypeInv

(* A caller moves on, within the lock it holds or takes.                   *)
LEMMA CallerMoves ==
  ASSUME CallersOK, NEW c \in Callers, at[c] # "idle",
         NEW to \in {"record", "assign", "verify", "failed"}, CallerGoes(c, to),
         UNCHANGED <<held, seen>>
  PROVE  CallersOK'
<1>1. at' = [at EXCEPT ![c] = to] /\ held' = held /\ seen' = seen
  BY DEF CallerGoes
<1>2. at' \in [Callers -> {"idle", "record", "assign", "verify", "failed"}]
  BY <1>1 DEF CallersOK
<1>3. \A d \in Callers : at'[d] # "idle" <=> at[d] # "idle"
  BY <1>1 DEF CallersOK
<1> QED
  BY <1>1, <1>2, <1>3 DEF CallersOK

LEMMA CallerReleases ==
  ASSUME CallersOK, NEW c \in Callers, Release(c), seen' \in [Callers -> Read]
  PROVE  CallersOK'
<1>1. Idle \in [note : Notes \cup {Execution}, new : Read, old : Read] /\ Idle.new = Blank /\ Idle.old = Blank
  BY BlankFits DEF Idle
<1>2. at' = [at EXCEPT ![c] = "idle"] /\ held' = [held EXCEPT ![c] = Idle]
  BY DEF Release, CallerGoes
<1>3. /\ at' \in [Callers -> {"idle", "record", "assign", "verify", "failed"}]
      /\ \A d \in Callers : at'[d] # "idle" => at[d] # "idle" /\ d # c
  BY <1>2 DEF CallersOK
<1>4. held' \in [Callers -> [note : Notes \cup {Execution}, new : Read, old : Read]]
  <2> HIDE DEF Idle
  <2> QED
    BY <1>1, <1>2 DEF CallersOK
<1>5. held'[c] = Idle /\ \A d \in Callers : d # c => held'[d] = held[d]
  BY <1>2 DEF CallersOK
<1> QED
  BY <1>1, <1>3, <1>4, <1>5, BlankFits DEF CallersOK

LEMMA DownTypes ==
  ASSUME TypeInv, Down, faults' \in 0..MaxFaults
  PROVE  TypeInv'
<1> USE Bounds, BlankFits
<1>1. MemoryOK'
  <2>1. rev' \in 0..MaxRevision /\ ctx' \in Fits
    BY DEF Down
  <2>2. done' \in BOOLEAN
    BY Zenon DEF Down
  <2> QED
    BY <2>1, <2>2, Zenon DEF MemoryOK
<1>2. StoreOK'
  BY DEF Down, TypeInv, StoreOK
<1>3. LoopOK'
  BY DEF Down, LoopOK
<1>4. CallersOK'
  <2>1. Idle \in [note : Notes \cup {Execution}, new : Read, old : Read] /\ Idle.new = Blank /\ Idle.old = Blank
    BY DEF Idle
  <2> QED
    BY <2>1 DEF Down, CallersOK
<1>5. HistoryOK' /\ BoundsOK'
  BY DEF Down, TypeInv, HistoryOK, BoundsOK, history
<1> QED
  BY <1>1, <1>2, <1>3, <1>4, <1>5 DEF TypeInv

LEMMA StartTypes ==
  ASSUME TypeInv, Start
  PROVE  TypeInv'
<1> USE Bounds
<1>1. MemoryOK /\ StoreOK /\ LoopOK /\ CallersOK /\ HistoryOK /\ BoundsOK
  BY DEF TypeInv
<1>2. PICK found \in SUBSET DOMAIN disk.snap :
       /\ IF found = DOMAIN disk.snap THEN UNCHANGED faults ELSE Fault
       /\ rev' = Restored(found).rev /\ ctx' = Restored(found).ctx
       /\ gaps' = gaps \cup (IF found # DOMAIN disk.snap THEN {"search"} ELSE {})
                       \cup (IF ~disk.capsule.saved /\ found # {} THEN {"capsule"} ELSE {})
                       \cup (IF rev' < disk.capsule.rev THEN {"empty"} ELSE {})
  BY DEF Start
<1>3. Restored(found) \in Read /\ Restored(found).ctx \in Fits
  BY <1>1, RestoredFacts DEF StoreOK
<1>4. disk.capsule.done \in BOOLEAN
  BY <1>1 DEF StoreOK, RowsOK, Capsule
<1>5. MemoryOK'
  BY <1>2, <1>3, <1>4 DEF MemoryOK, Start, Read
<1>6. StoreOK' /\ CallersOK' /\ LoopOK'
  BY <1>1 DEF Start, StoreOK, CallersOK, LoopOK, store, callers
<1>7. HistoryOK' /\ BoundsOK'
  BY <1>1, <1>2 DEF Start, HistoryOK, BoundsOK, Fault
<1> QED
  BY <1>5, <1>6, <1>7 DEF TypeInv

(* The steps of run_loop().                                                *)
LEMMA LoopTypes ==
  ASSUME TypeInv, Begin \/ Emit \/ Judge \/ Compose \/ Record \/ Assign \/ Raise
  PROVE  TypeInv'
<1> USE Bounds
<1>1. MemoryOK /\ StoreOK /\ LoopOK /\ CallersOK /\ HistoryOK /\ BoundsOK
  BY DEF TypeInv
<1>2. ASSUME NEW cond, NoteRace(cond) PROVE gaps' \subseteq gaps \cup {"race"}
  BY <1>2 DEF NoteRace
<1>3. CASE Begin
  <2>1. MemoryOK' /\ LoopOK'
    BY <1>1, <1>3 DEF Begin, MemoryOK, LoopOK
  <2>2. StoreOK' /\ CallersOK' /\ BoundsOK' /\ HistoryOK'
    BY <1>1, <1>2, <1>3 DEF Begin, StoreOK, CallersOK, BoundsOK, HistoryOK, store, callers
  <2> QED
    BY <2>1, <2>2 DEF TypeInv
<1>4. CASE Emit
  <2>1. RowsOK(WithCapsule)
    BY <1>1, WithCapsuleFacts DEF StoreOK
  <2>2. StoreOK' /\ faults' \in 0..MaxFaults
    BY <1>1, <1>4, <2>1, StoreKept DEF Emit
  <2>3. MemoryOK' /\ LoopOK' /\ CallersOK' /\ HistoryOK' /\ BoundsOK'
    BY <1>1, <1>4, <2>2 DEF Emit, MemoryOK, LoopOK, CallersOK, HistoryOK, BoundsOK, memory, callers, history
  <2> QED
    BY <2>2, <2>3 DEF TypeInv
<1>5. CASE Judge
  <2>1. MemoryOK' /\ StoreOK' /\ LoopOK' /\ CallersOK' /\ HistoryOK' /\ BoundsOK'
    BY <1>1, <1>5 DEF Judge, MemoryOK, StoreOK, LoopOK, CallersOK, HistoryOK, BoundsOK, store, loop, callers, history
  <2> QED
    BY <2>1 DEF TypeInv
<1>6. CASE Compose
  <2>1. PICK c \in Fitted(ctx \cup {Execution}) :
           draft' = [rev |-> rev + 1, ctx |-> c] /\ kept' = kept \ (ctx \ c)
    BY <1>6 DEF Compose
  <2>2. c \in Fits /\ c \in Context
    <3>1. ctx \cup {Execution} \in Context
      BY <1>1 DEF MemoryOK, Fits, Context
    <3> QED
      BY <3>1, FittedFacts DEF Fits
  <2>3. LoopOK'
    BY <1>1, <1>6, <2>1, <2>2 DEF Compose, LoopOK, MemoryOK, Read
  <2>4. MemoryOK' /\ StoreOK' /\ CallersOK' /\ HistoryOK' /\ BoundsOK'
    BY <1>1, <1>2, <1>6, <2>1 DEF Compose, MemoryOK, StoreOK, CallersOK, HistoryOK, BoundsOK, memory, store, callers
  <2> QED
    BY <2>3, <2>4 DEF TypeInv
<1>7. CASE Record /\ pc' # "down"
  <2>1. pc = "record" /\ draft \in Read /\ draft.ctx \in Fits /\ draft.rev # 0
    BY <1>1, <1>7 DEF Record, LoopOK
  <2>2. RowsOK(WithSnapshot(draft))
    BY <1>1, <2>1, WithSnapshotFacts DEF StoreOK
  <2>3. Write(WithSnapshot(draft)) \/ FailToWrite(WithSnapshot(draft))
    BY <1>7 DEF Record, Down
  <2>4. StoreOK' /\ faults' \in 0..MaxFaults
    BY <1>1, <2>2, <2>3, StoreKept
  <2>5. /\ rev' = rev /\ ctx' = ctx /\ done' \in {done, FALSE} /\ draft' = draft
        /\ pc' \in {"assign", "error"} /\ retried' \in {retried, TRUE}
        /\ UNCHANGED <<callers, history, runs>>
    BY <1>7 DEF Record, Raised, Down, memory
  <2>6. MemoryOK' /\ LoopOK' /\ CallersOK' /\ HistoryOK' /\ BoundsOK'
    BY <1>1, <2>4, <2>5 DEF MemoryOK, LoopOK, CallersOK, HistoryOK, BoundsOK, callers, history
  <2> QED
    BY <2>4, <2>6 DEF TypeInv
<1>8. CASE Record /\ pc' = "down"
  <2>1. Fault /\ Down
    BY <1>8 DEF Record, Raised
  <2> QED
    BY <1>1, <2>1, DownTypes DEF Fault, BoundsOK
<1>9. CASE Assign
  <2>1. rev' = draft.rev /\ ctx' = draft.ctx /\ kept' = kept /\ draft' = draft /\ NoteRace(Busy)
        /\ pc' \in {"loop", "error"} /\ retried' \in BOOLEAN /\ done' \in {done, FALSE} /\ UNCHANGED <<callers, runs>>
        /\ (Write(view) \/ FailToWrite(view))
    BY <1>9 DEF Assign, Raised
  <2>2. StoreOK' /\ faults' \in 0..MaxFaults
    BY <1>1, <2>1, StoreKept DEF StoreOK
  <2>3. MemoryOK' /\ LoopOK'
    BY <1>1, <2>1 DEF MemoryOK, LoopOK, Read
  <2>4. CallersOK' /\ HistoryOK' /\ BoundsOK'
    BY <1>1, <1>2, <2>1, <2>2 DEF CallersOK, HistoryOK, BoundsOK, callers
  <2> QED
    BY <2>2, <2>3, <2>4 DEF TypeInv
<1>10. CASE Raise
  <2>1. BoundsOK'
    BY <1>1, <1>10 DEF Raise, Raised, Fault, BoundsOK
  <2>2. MemoryOK' /\ LoopOK'
    BY <1>1, <1>10, Zenon DEF Raise, Raised, MemoryOK, LoopOK
  <2>3. StoreOK' /\ CallersOK' /\ HistoryOK'
    BY <1>1, <1>10 DEF Raise, Raised, StoreOK, CallersOK, HistoryOK, store, callers, history
  <2> QED
    BY <2>1, <2>2, <2>3 DEF TypeInv
<1> QED
  BY <1>3, <1>4, <1>5, <1>6, <1>7, <1>8, <1>9, <1>10

(* The steps of a caller.                                                  *)
LEMMA CallerTypes ==
  ASSUME TypeInv, NEW c \in Callers,
         \/ ReadContext(c) \/ RecordNote(c) \/ AssignNote(c) \/ Verify(c) \/ Recover(c)
         \/ \E n \in Notes : AppendNote(c, n)
  PROVE  TypeInv'
<1> USE Bounds
<1>1. MemoryOK /\ StoreOK /\ LoopOK /\ CallersOK /\ HistoryOK /\ BoundsOK
  BY DEF TypeInv
<1>2. /\ held[c].new \in Read /\ held[c].old \in Read
      /\ held[c].new.ctx \in Fits /\ held[c].old.ctx \in Fits /\ held[c].note \in Notes \cup {Execution}
      /\ held[c].new.rev \in 0..MaxRevision /\ held[c].old.rev \in 0..MaxRevision
      /\ at[c] # "idle" => held[c].note \in Notes /\ held[c].new.rev = held[c].old.rev + 1
  BY <1>1 DEF CallersOK, Read
<1>3. CASE ReadContext(c)
  <2>1. [rev |-> rev, ctx |-> ctx] \in Read
    BY <1>1 DEF MemoryOK, Read, Fits
  <2>2. CallersOK'
    BY <1>1, <1>3, <2>1 DEF ReadContext, CallersOK
  <2>3. MemoryOK' /\ StoreOK' /\ LoopOK' /\ HistoryOK' /\ BoundsOK'
    BY <1>1, <1>3 DEF ReadContext, MemoryOK, StoreOK, LoopOK, HistoryOK, BoundsOK, memory, store, loop, history
  <2> QED
    BY <2>2, <2>3 DEF TypeInv
<1>4. ASSUME NEW n \in Notes, AppendNote(c, n) PROVE TypeInv'
  <2>1. PICK s \in Fitted(ctx \cup {n}) :
          /\ held' = [held EXCEPT ![c] = [note |-> n, new |-> [rev |-> rev + 1, ctx |-> s],
                                          old |-> [rev |-> rev, ctx |-> ctx]]]
          /\ kept' = kept \ (ctx \ s)
    BY <1>4 DEF AppendNote
  <2>2. s \in Fits /\ s \in Context
    <3>1. ctx \cup {n} \in Context
      BY <1>1 DEF MemoryOK, Fits, Context
    <3> QED
      BY <3>1, FittedFacts DEF Fits
  <2> DEFINE h == [note |-> n, new |-> [rev |-> rev + 1, ctx |-> s], old |-> [rev |-> rev, ctx |-> ctx]]
  <2>3. /\ h \in [note : Notes \cup {Execution}, new : Read, old : Read]
        /\ h.new.ctx \in Fits /\ h.old.ctx \in Fits /\ h.note \in Notes /\ h.new.rev = h.old.rev + 1
    BY <1>1, <1>4, <2>2 DEF AppendNote, MemoryOK, Read, Fits
  <2>4. /\ at' = [at EXCEPT ![c] = "record"] /\ seen' = seen
        /\ \A d \in Callers : at[d] = "idle"
    BY <1>4 DEF AppendNote, CallerGoes, Busy
  <2>5. CallersOK'
    <3> HIDE DEF h
    <3>1. held' = [held EXCEPT ![c] = h]
      BY <2>1 DEF h
    <3>2. /\ held' \in [Callers -> [note : Notes \cup {Execution}, new : Read, old : Read]]
          /\ held'[c] = h /\ \A d \in Callers : d # c => held'[d] = held[d]
      BY <1>1, <2>3, <3>1 DEF CallersOK
    <3>3. /\ at' \in [Callers -> {"idle", "record", "assign", "verify", "failed"}]
          /\ \A d \in Callers : at'[d] # "idle" => d = c
      BY <1>1, <2>4 DEF CallersOK
    <3> QED
      BY <1>1, <2>3, <2>4, <3>2, <3>3 DEF CallersOK
  <2>6. HistoryOK'
    BY <1>1, <1>4, <2>1 DEF AppendNote, HistoryOK, NoteRace
  <2>7. MemoryOK' /\ StoreOK' /\ LoopOK' /\ BoundsOK'
    BY <1>1, <1>4 DEF AppendNote, MemoryOK, StoreOK, LoopOK, BoundsOK, memory, store, loop
  <2> QED
    BY <2>5, <2>6, <2>7 DEF TypeInv
<1>5. CASE RecordNote(c)
  <2>1. RowsOK(WithSnapshot(held[c].new))
    BY <1>1, <1>2, <1>5, WithSnapshotFacts DEF StoreOK, RecordNote
  <2>2. StoreOK' /\ faults' \in 0..MaxFaults
    BY <1>1, <1>5, <2>1, StoreKept DEF RecordNote
  <2>3. CallersOK'
    BY <1>1, <1>5, CallerMoves DEF RecordNote
  <2>4. MemoryOK' /\ LoopOK' /\ HistoryOK' /\ BoundsOK'
    BY <1>1, <1>5, <2>2 DEF RecordNote, MemoryOK, LoopOK, HistoryOK, BoundsOK, memory, loop, history
  <2> QED
    BY <2>2, <2>3, <2>4 DEF TypeInv
<1>6. CASE AssignNote(c)
  <2>1. CallersOK'
    BY <1>1, <1>6, CallerMoves DEF AssignNote
  <2>2. MemoryOK' /\ BoundsOK'
    BY <1>1, <1>2, <1>6 DEF AssignNote, MemoryOK, BoundsOK, Fault
  <2>3. StoreOK' /\ LoopOK' /\ HistoryOK'
    BY <1>1, <1>6 DEF AssignNote, StoreOK, LoopOK, HistoryOK, store, loop, history
  <2> QED
    BY <2>1, <2>2, <2>3 DEF TypeInv
<1>7. CASE Verify(c)
  <2>1. [rev |-> rev, ctx |-> ctx] \in Read
    BY <1>1 DEF MemoryOK, Read, Fits
  <2>2. Release(c) /\ seen' \in [Callers -> Read]
    BY <1>1, <1>7, <2>1 DEF Verify, CallersOK
  <2>3. CallersOK'
    BY <1>1, <2>2, CallerReleases
  <2>4. MemoryOK' /\ BoundsOK'
    BY <1>1, <1>2, <1>7 DEF Verify, MemoryOK, BoundsOK, Fault, Undo
  <2>5. HistoryOK'
    BY <1>1, <1>2, <1>7 DEF Verify, HistoryOK, MemoryOK, Fits, Context
  <2>6. StoreOK' /\ LoopOK'
    BY <1>1, <1>7 DEF Verify, StoreOK, LoopOK, store, loop
  <2> QED
    BY <2>3, <2>4, <2>5, <2>6 DEF TypeInv
<1>8. CASE Recover(c)
  <2>1. CallersOK'
    BY <1>1, <1>8, CallerReleases DEF Recover, CallersOK
  <2>2. MemoryOK' /\ BoundsOK'
    BY <1>1, <1>2, <1>8 DEF Recover, MemoryOK, BoundsOK, Fault, Undo, StoreOK, RowsOK
  <2>3. StoreOK' /\ LoopOK' /\ HistoryOK'
    BY <1>1, <1>8 DEF Recover, StoreOK, LoopOK, HistoryOK, store, loop, history
  <2> QED
    BY <2>1, <2>2, <2>3 DEF TypeInv
<1> QED
  BY <1>3, <1>4, <1>5, <1>6, <1>7, <1>8

LEMMA NextTypes == TypeInv /\ [Next]_vars => TypeInv'
<1> SUFFICES ASSUME TypeInv, [Next]_vars PROVE TypeInv'
  OBVIOUS
<1>1. MemoryOK /\ StoreOK /\ LoopOK /\ CallersOK /\ HistoryOK /\ BoundsOK
  BY DEF TypeInv
<1>2. CASE Start
  BY <1>2, StartTypes
<1>3. CASE Crash \/ Finish
  BY <1>1, <1>3, ContextAssumption, DownTypes DEF Crash, Finish, Fault, BoundsOK
<1>4. CASE Begin \/ Emit \/ Judge \/ Compose \/ Record \/ Assign \/ Raise
  BY <1>4, LoopTypes
<1>5. ASSUME NEW c \in Callers,
             \/ ReadContext(c) \/ RecordNote(c) \/ AssignNote(c) \/ Verify(c) \/ Recover(c)
             \/ \E n \in Notes : AppendNote(c, n)
      PROVE TypeInv'
  BY <1>5, CallerTypes
<1>6. CASE UNCHANGED vars
  <2>1. MemoryOK' /\ StoreOK' /\ LoopOK' /\ CallersOK' /\ HistoryOK' /\ BoundsOK'
    BY <1>1, <1>6 DEF vars, memory, store, loop, callers, history,
         MemoryOK, StoreOK, LoopOK, CallersOK, HistoryOK, BoundsOK
  <2> QED
    BY <2>1 DEF TypeInv
<1> QED
  BY <1>2, <1>3, <1>4, <1>5, <1>6 DEF Next

-----------------------------------------------------------------------------
(* Without an overlap of the loop and a caller.                            *)

LEMMA InitRaceFree == Init => RaceFree
  BY BlankFits DEF Init, RaceFree, NoRows, Busy, Known

(* Steps of run_loop() that leave the context alone.                       *)
LEMMA StaysRaceFree ==
  ASSUME RaceFree, UNCHANGED <<rev, ctx, at, held, seen>>,
         pc \notin {"down", "loop"}, pc' \notin {"down", "loop"},
         pc' \in {"record", "assign"} => ~Busy /\ draft'.rev = rev + 1,
         view'.capsule.saved => view'.capsule.rev # 0,
         disk'.capsule.saved => disk'.capsule.rev # 0
  PROVE  RaceFree'
<1>1. Busy' = Busy
  BY DEF Busy
<1>2. \A c \in Callers : Inside(c) => Inside(c)'
  BY DEF Inside, Memory, Known
<1>3. Known([rev |-> rev, ctx |-> ctx])' <=> Known([rev |-> rev, ctx |-> ctx])
  BY DEF Known
<1> QED
  BY <1>1, <1>2, <1>3 DEF RaceFree

LEMMA DownRaceFree ==
  ASSUME RaceFree, Down
  PROVE  RaceFree'
  BY BlankFits DEF RaceFree, Down, Busy, Known

LEMMA StartRaceFree ==
  ASSUME TypeInv, RaceFree, Start
  PROVE  RaceFree'
<1>1. StoreOK /\ CallersOK
  BY DEF TypeInv
<1>2. PICK found \in SUBSET DOMAIN disk.snap : rev' = Restored(found).rev /\ ctx' = Restored(found).ctx
  BY DEF Start
<1>3. pc = "down" /\ pc' = "loop" /\ UNCHANGED <<view, disk, at, held, seen>>
  BY DEF Start, store, callers
<1>4. ~Busy /\ ~Busy' /\ rev = 0 /\ ctx = {}
  BY <1>3 DEF RaceFree, Inside, Busy
<1>5. rev' \in Nat /\ (rev' = 0 => ctx' = {})
  <2>1. found \subseteq 1..MaxRevision
    BY <1>1 DEF StoreOK, RowsOK
  <2>2. disk.capsule.saved => disk.capsule.rev # 0
    BY DEF RaceFree
  <2> QED
    BY <1>1, <1>2, <2>1, <2>2, RestoredFacts, BlankFits DEF StoreOK, Read
<1>6. \A d \in Callers : seen[d].rev <= rev' /\ (seen[d].rev = rev' => seen[d].ctx = ctx')
  <2> SUFFICES ASSUME NEW d \in Callers PROVE seen[d].rev <= rev' /\ (seen[d].rev = rev' => seen[d].ctx = ctx')
    OBVIOUS
  <2>1. seen[d].rev \in Nat /\ seen[d].rev <= 0 /\ (seen[d].rev = 0 => seen[d].ctx = {})
    BY <1>1, <1>4 DEF RaceFree, Known, CallersOK, Read
  <2> QED
    BY <1>5, <2>1
<1>7. Known([rev |-> rev, ctx |-> ctx])'
  BY <1>3, <1>6 DEF Known
<1> QED
  BY <1>3, <1>4, <1>7 DEF RaceFree, Busy

(* What an earlier caller has read is older than a new revision.           *)
LEMMA NewRevision ==
  ASSUME CallersOK, MemoryOK, Known([rev |-> rev, ctx |-> ctx]), NEW r, r.rev = rev + 1
  PROVE  Known(r)
<1> SUFFICES ASSUME NEW d \in Callers PROVE seen[d].rev < rev + 1
  BY DEF Known, CallersOK, Read, MemoryOK
<1> QED
  BY DEF Known, CallersOK, Read, MemoryOK

(* run_loop().                                                             *)
LEMMA LoopRaceFree ==
  ASSUME TypeInv, RaceFree, "race" \notin gaps',
         Begin \/ Emit \/ Judge \/ Compose \/ Record \/ Assign \/ Raise
  PROVE  RaceFree'
<1>1. MemoryOK /\ StoreOK /\ LoopOK /\ CallersOK
  BY DEF TypeInv
<1>2. ASSUME NoteRace(Busy) PROVE ~Busy
  BY <1>2 DEF NoteRace
<1>3. pc \notin {"down", "loop"} => rev # 0
  BY DEF RaceFree
<1>4. ASSUME NEW new, new.capsule.saved => new.capsule.rev # 0, Write(new) \/ FailToWrite(new)
      PROVE  /\ view'.capsule.saved => view'.capsule.rev # 0
             /\ disk'.capsule.saved => disk'.capsule.rev # 0
  BY <1>4 DEF Write, FailToWrite, RaceFree
<1>5. CASE Begin
  <2>1. /\ ~Busy /\ ~Busy' /\ pc' = "start" /\ rev' = rev + 1 /\ ctx' = ctx
        /\ UNCHANGED <<view, disk, at, held, seen>>
    BY <1>2, <1>5 DEF Begin, store, callers, Busy
  <2>2. \A d \in Callers : seen[d].rev <= rev + 1 /\ seen[d].rev # rev + 1
    BY <1>1, <2>1 DEF RaceFree, Known, MemoryOK, CallersOK, Read
  <2>3. Known([rev |-> rev, ctx |-> ctx])'
    BY <2>1, <2>2 DEF Known
  <2>4. rev' # 0
    BY <1>1, <2>1 DEF MemoryOK
  <2> QED
    BY <2>1, <2>3, <2>4 DEF RaceFree, Busy
<1>6. CASE Emit
  <2>1. WithCapsule.capsule.saved => WithCapsule.capsule.rev # 0
    BY <1>1, <1>3, <1>6, WithCapsuleFacts DEF Emit, StoreOK
  <2> QED
    BY <1>4, <1>6, <2>1, StaysRaceFree DEF Emit, memory, callers
<1>7. CASE Judge
  BY <1>7, StaysRaceFree DEF Judge, RaceFree, store, loop, callers
<1>8. CASE Compose
  <2>1. ~Busy /\ draft'.rev = rev + 1 /\ UNCHANGED <<rev, ctx, at, held, seen, view, disk>>
        /\ pc \in {"cycle", "report"} /\ pc' = "record"
    BY <1>2, <1>8 DEF Compose, memory, callers, store
  <2> QED
    BY <2>1, StaysRaceFree DEF RaceFree
<1>9. CASE Record /\ pc' = "down"
  BY <1>9, DownRaceFree DEF Record, Raised
<1>10. CASE Record /\ pc' # "down"
  <2>1. pc = "record" /\ ~Busy /\ draft.rev = rev + 1
    BY <1>10 DEF Record, RaceFree
  <2>2. RowsOK(view) /\ draft \in Read /\ draft.ctx \in Fits /\ draft.rev # 0
    BY <1>1, <2>1 DEF StoreOK, LoopOK
  <2>3. WithSnapshot(draft).capsule = view.capsule
    BY <2>2, WithSnapshotFacts
  <2>4. /\ Write(WithSnapshot(draft)) \/ FailToWrite(WithSnapshot(draft))
        /\ pc' \in {"assign", "error"} /\ draft' = draft
        /\ UNCHANGED <<rev, ctx, at, held, seen>>
    BY <1>10 DEF Record, Raised, Down, memory, callers
  <2>5. WithSnapshot(draft).capsule.saved => WithSnapshot(draft).capsule.rev # 0
    BY <2>3 DEF RaceFree
  <2> QED
    BY <1>4, <2>1, <2>4, <2>5, StaysRaceFree
<1>11. CASE Assign
  <2>1. pc = "assign" /\ ~Busy /\ draft.rev = rev + 1
    BY <1>11 DEF Assign, RaceFree
  <2>2. /\ rev' = draft.rev /\ ctx' = draft.ctx /\ pc' \in {"loop", "error"} /\ UNCHANGED <<at, held, seen>>
        /\ Write(view) \/ FailToWrite(view)
    BY <1>11 DEF Assign, Raised, callers
  <2>3. ~Busy' /\ rev' # 0
    BY <1>1, <2>1, <2>2 DEF Busy, MemoryOK
  <2>4. Known([rev |-> rev, ctx |-> ctx])'
    <3>1. \A d \in Callers : seen[d].rev <= rev + 1 /\ seen[d].rev # rev + 1
      BY <1>1, <2>1 DEF RaceFree, Known, MemoryOK, CallersOK, Read
    <3> QED
      BY <2>1, <2>2, <3>1 DEF Known
  <2>5. /\ view'.capsule.saved => view'.capsule.rev # 0
        /\ disk'.capsule.saved => disk'.capsule.rev # 0
    BY <1>4, <2>2 DEF RaceFree
  <2> QED
    BY <2>2, <2>3, <2>4, <2>5 DEF RaceFree, Busy
<1>12. CASE Raise
  BY <1>12, StaysRaceFree DEF Raise, Raised, RaceFree, store, callers
<1> QED
  BY <1>5, <1>6, <1>7, <1>8, <1>9, <1>10, <1>11, <1>12

(* The end of a call: back at the context from before, or at a new one.    *)
LEMMA ReleaseRaceFree ==
  ASSUME TypeInv, RaceFree, NEW c \in Callers, at[c] # "idle", Release(c),
         (rev' = held[c].old.rev /\ ctx' = held[c].old.ctx) \/ rev' = held[c].old.rev + 1,
         \A d \in Callers : \/ seen'[d] = seen[d]
                            \/ seen'[d].rev = rev' /\ seen'[d].ctx = ctx',
         UNCHANGED <<view, disk, pc, draft>>
  PROVE  RaceFree'
<1>1. CallersOK /\ Inside(c) /\ Busy
  BY DEF TypeInv, RaceFree, Busy
<1>2. \A d \in Callers : at'[d] = "idle"
  BY <1>1 DEF CallersOK, Release, CallerGoes
<1>3. ~Busy' /\ pc \notin {"down", "record", "assign"}
  BY <1>1, <1>2 DEF Busy, Inside, RaceFree
<1>4. held[c].old.rev \in Nat
  BY <1>1 DEF CallersOK, Read
<1>5. pc \notin {"down", "loop"} => rev' # 0
  BY <1>1, <1>4 DEF Inside
<1>6. \A d \in Callers : seen'[d].rev <= rev' /\ (seen'[d].rev = rev' => seen'[d].ctx = ctx')
  <2> SUFFICES ASSUME NEW d \in Callers PROVE seen'[d].rev <= rev' /\ (seen'[d].rev = rev' => seen'[d].ctx = ctx')
    OBVIOUS
  <2>1. /\ seen[d].rev \in Nat /\ seen[d].rev <= held[c].old.rev
        /\ seen[d].rev = held[c].old.rev => seen[d].ctx = held[c].old.ctx
    BY <1>1 DEF Inside, Known, CallersOK, Read
  <2> QED
    BY <1>4, <2>1
<1>7. Known([rev |-> rev, ctx |-> ctx])'
  BY <1>6 DEF Known
<1> QED
  BY <1>2, <1>3, <1>5, <1>7 DEF RaceFree

(* codemode_context().                                                     *)
LEMMA CallerRaceFree ==
  ASSUME TypeInv, RaceFree, "race" \notin gaps', NEW c \in Callers,
         \/ ReadContext(c) \/ RecordNote(c) \/ AssignNote(c) \/ Verify(c) \/ Recover(c)
         \/ \E n \in Notes : AppendNote(c, n)
  PROVE  RaceFree'
<1>1. MemoryOK /\ StoreOK /\ LoopOK /\ CallersOK
  BY DEF TypeInv
<1>2. CASE ReadContext(c)
  <2>1. ~Busy /\ ~Busy' /\ pc # "down" /\ UNCHANGED <<rev, ctx, view, disk, pc, draft, at, held>>
        /\ seen' = [seen EXCEPT ![c] = [rev |-> rev, ctx |-> ctx]]
    BY <1>2 DEF ReadContext, Busy, memory, store, loop
  <2>2. \A d \in Callers : seen'[d].rev <= rev /\ (seen'[d].rev = rev => seen'[d].ctx = ctx)
    <3>1. \A d \in Callers : seen[d].rev <= rev /\ (seen[d].rev = rev => seen[d].ctx = ctx)
      BY <2>1 DEF RaceFree, Known
    <3> QED
      BY <1>1, <2>1, <3>1 DEF CallersOK, MemoryOK
  <2>3. Known([rev |-> rev, ctx |-> ctx])'
    BY <2>1, <2>2 DEF Known
  <2> QED
    BY <2>1, <2>3 DEF RaceFree, Busy
<1>3. ASSUME NEW n \in Notes, AppendNote(c, n) PROVE RaceFree'
  <2>1. /\ ~Busy /\ pc \notin {"down", "record", "assign"}
        /\ UNCHANGED <<rev, ctx, view, disk, pc, draft, seen>>
        /\ at' = [at EXCEPT ![c] = "record"]
    BY <1>3 DEF AppendNote, NoteRace, CallerGoes, memory, store, loop
  <2>2. held'[c].old = [rev |-> rev, ctx |-> ctx]
    BY <1>1, <1>3 DEF AppendNote, CallersOK
  <2>3. \A d \in Callers : at'[d] # "idle" => d = c
    BY <1>1, <2>1 DEF CallersOK, Busy
  <2>4. at'[c] = "record" /\ Busy'
    BY <1>1, <2>1 DEF CallersOK, Busy
  <2>5. Known([rev |-> rev, ctx |-> ctx])
    BY <2>1 DEF RaceFree
  <2>6. Inside(c)'
    BY <2>1, <2>2, <2>4, <2>5 DEF Inside, Memory, Known, RaceFree
  <2> QED
    BY <2>1, <2>3, <2>4, <2>6 DEF RaceFree
<1>4. CASE RecordNote(c)
  <2>1. /\ at[c] = "record" /\ UNCHANGED <<rev, ctx, pc, draft, held, seen>>
        /\ Write(WithSnapshot(held[c].new)) \/ FailToWrite(WithSnapshot(held[c].new))
    BY <1>4 DEF RecordNote, memory, loop
  <2>2. Inside(c) /\ Memory(held[c].old) /\ Busy
    BY <2>1 DEF RaceFree, Inside, Busy
  <2>3. PICK to \in {"assign", "failed"} : at' = [at EXCEPT ![c] = to]
    BY <1>4 DEF RecordNote, CallerGoes
  <2>4. at'[c] = to /\ \A d \in Callers : d # c => at'[d] = at[d] /\ at[d] = "idle"
    BY <1>1, <2>1, <2>3 DEF CallersOK
  <2>5. held[c].new \in Read /\ held[c].new.ctx \in Fits /\ held[c].new.rev # 0
    BY <1>1, <2>1 DEF CallersOK, Read
  <2>6. WithSnapshot(held[c].new).capsule = view.capsule
    BY <1>1, <2>5, WithSnapshotFacts DEF StoreOK
  <2>7. /\ view'.capsule.saved => view'.capsule.rev # 0
        /\ disk'.capsule.saved => disk'.capsule.rev # 0
    BY <2>1, <2>6 DEF Write, FailToWrite, RaceFree
  <2>8. Inside(c)' /\ Busy'
    BY <2>1, <2>2, <2>4 DEF Inside, Memory, Known, Busy
  <2> QED
    BY <2>1, <2>2, <2>4, <2>7, <2>8 DEF RaceFree
<1>5. CASE AssignNote(c)
  <2>1. /\ at[c] = "assign" /\ UNCHANGED <<view, disk, pc, draft, held, seen>>
        /\ rev' = held[c].new.rev /\ ctx' = held[c].new.ctx
    BY <1>5 DEF AssignNote, store, loop
  <2>2. Inside(c) /\ Busy
    BY <2>1 DEF RaceFree, Busy
  <2>3. PICK to \in {"verify", "failed"} : at' = [at EXCEPT ![c] = to]
    BY <1>5 DEF AssignNote, CallerGoes
  <2>4. at'[c] = to /\ \A d \in Callers : d # c => at'[d] = at[d] /\ at[d] = "idle"
    BY <1>1, <2>1, <2>3 DEF CallersOK
  <2>5. rev' # 0
    BY <1>1, <2>1 DEF CallersOK, Read
  <2>6. Inside(c)' /\ Busy'
    BY <2>1, <2>2, <2>4 DEF Inside, Memory, Known, Busy
  <2> QED
    BY <2>1, <2>2, <2>4, <2>5, <2>6 DEF RaceFree, Inside
<1>6. CASE Verify(c)
  <2>1. /\ at[c] = "verify" /\ Release(c) /\ UNCHANGED <<view, disk, pc, draft>>
        /\ \/ rev' = rev /\ ctx' = ctx /\ seen' = [seen EXCEPT ![c] = [rev |-> rev, ctx |-> ctx]]
           \/ rev' = held[c].old.rev /\ ctx' = held[c].old.ctx /\ seen' = seen
    BY <1>6 DEF Verify, Undo, store, loop
  <2>2. rev = held[c].old.rev + 1
    BY <1>1, <2>1 DEF RaceFree, Inside, Memory, CallersOK
  <2>3. \A d \in Callers : seen'[d] = seen[d] \/ (seen'[d].rev = rev' /\ seen'[d].ctx = ctx')
    BY <1>1, <2>1 DEF CallersOK
  <2> QED
    BY <2>1, <2>2, <2>3, ReleaseRaceFree
<1>7. CASE Recover(c)
  BY <1>7, ReleaseRaceFree DEF Recover, Undo, store, loop
<1> QED
  BY <1>2, <1>3, <1>4, <1>5, <1>6, <1>7

(* A gap is remembered.                                                    *)
LEMMA GapsGrow == [Next]_vars => gaps \subseteq gaps'
<1> SUFFICES ASSUME [Next]_vars PROVE gaps \subseteq gaps'
  OBVIOUS
<1>1. ASSUME NEW cond, NoteRace(cond) PROVE gaps \subseteq gaps'
  BY <1>1 DEF NoteRace
<1>2. CASE Start \/ Crash \/ Finish
  BY <1>2 DEF Start, Crash, Finish, Down, history
<1>3. CASE Begin \/ Emit \/ Judge \/ Compose \/ Record \/ Assign \/ Raise
  BY <1>1, <1>3 DEF Begin, Emit, Judge, Compose, Record, Assign, Raise, Down, history
<1>4. ASSUME NEW c \in Callers,
             \/ ReadContext(c) \/ RecordNote(c) \/ AssignNote(c) \/ Verify(c) \/ Recover(c)
             \/ \E n \in Notes : AppendNote(c, n)
      PROVE  gaps \subseteq gaps'
  BY <1>1, <1>4 DEF ReadContext, RecordNote, AssignNote, Verify, Recover, AppendNote, history
<1>5. CASE UNCHANGED vars
  BY <1>5 DEF vars, history
<1> QED
  BY <1>2, <1>3, <1>4, <1>5 DEF Next

LEMMA NextRaceFree ==
  TypeInv /\ ("race" \notin gaps => RaceFree) /\ [Next]_vars => ("race" \notin gaps' => RaceFree')
<1> SUFFICES ASSUME TypeInv, "race" \notin gaps => RaceFree, [Next]_vars, "race" \notin gaps'
             PROVE  RaceFree'
  OBVIOUS
<1>1. gaps \subseteq gaps'
  BY GapsGrow
<1>2. RaceFree
  BY <1>1
<1>3. CASE Start
  BY <1>2, <1>3, StartRaceFree
<1>4. CASE Crash \/ Finish
  BY <1>2, <1>4, DownRaceFree DEF Crash, Finish
<1>5. CASE Begin \/ Emit \/ Judge \/ Compose \/ Record \/ Assign \/ Raise
  BY <1>2, <1>5, LoopRaceFree
<1>6. ASSUME NEW c \in Callers,
             \/ ReadContext(c) \/ RecordNote(c) \/ AssignNote(c) \/ Verify(c) \/ Recover(c)
             \/ \E n \in Notes : AppendNote(c, n)
      PROVE RaceFree'
  BY <1>2, <1>6, CallerRaceFree
<1>7. CASE UNCHANGED vars
  <2>1. UNCHANGED <<rev, ctx, at, held, seen, pc, draft, view, disk>>
    BY <1>7 DEF vars, memory, store, loop, callers
  <2>2. Busy' = Busy /\ \A c \in Callers : Inside(c) => Inside(c)'
    BY <2>1 DEF Busy, Inside, Memory, Known
  <2>3. Known([rev |-> rev, ctx |-> ctx])' <=> Known([rev |-> rev, ctx |-> ctx])
    BY <2>1 DEF Known
  <2> QED
    BY <1>2, <2>1, <2>2, <2>3 DEF RaceFree
<1> QED
  BY <1>3, <1>4, <1>5, <1>6, <1>7 DEF Next

-----------------------------------------------------------------------------
(* Without a gap: what the rows hold.                                      *)

LEMMA WrittenRows ==
  ASSUME NEW new, Write(new) \/ FailToWrite(new)
  PROVE  view' \in {view, new, disk} /\ disk' \in {disk, new}
  BY DEF Write, FailToWrite

LEMMA HoldsLess ==
  ASSUME NEW rows, NEW k, Holds(rows, k), NEW l, l \subseteq k
  PROVE  Holds(rows, l)
<1>1. DOMAIN rows.snap = {} => l = {}
  BY DEF Holds
<1> QED
  BY <1>1 DEF Holds

(* A snapshot that is the newest holds what it shows.                      *)
LEMMA HoldsNewest ==
  ASSUME NEW rows, RowsOK(rows), NEW r \in Read, Has(rows, r), Below(rows, r.rev), NEW k, k \subseteq r.ctx
  PROVE  Holds(rows, k)
<1>1. r.rev \in DOMAIN rows.snap /\ r.rev \in Nat /\ rows.capsule.rev \in Nat
  BY DEF Has, RowsOK, Capsule, Read
<1>2. DOMAIN rows.snap \subseteq 1..r.rev /\ rows.capsule.rev <= r.rev
  BY DEF Below
<1>3. ASSUME NEW x \in DOMAIN rows.snap, \A y \in DOMAIN rows.snap : y <= x
      PROVE  k \subseteq rows.snap[x]
  <2>1. x = r.rev
    BY <1>1, <1>2, <1>3
  <2> QED
    BY <2>1 DEF Has
<1>4. ~(\A x \in DOMAIN rows.snap : x < rows.capsule.rev)
  BY <1>1, <1>2
<1> QED
  BY <1>1, <1>3, <1>4 DEF Holds

LEMMA HoldsSnapshot ==
  ASSUME RowsOK(view), NEW r \in Read, r.ctx \in Fits, r.rev # 0, Below(view, r.rev),
         NEW k, k \subseteq r.ctx
  PROVE  LET new == WithSnapshot(r)
         IN  Holds(new, k) /\ Below(new, r.rev) /\ Has(new, r) /\ RowsOK(new)
<1> DEFINE new == WithSnapshot(r)
<1>1. /\ RowsOK(new) /\ DOMAIN new.snap = DOMAIN view.snap \cup {r.rev} /\ new.snap[r.rev] = r.ctx
      /\ new.capsule = view.capsule
  BY WithSnapshotFacts
<1>2. r.rev \in 1..r.rev
  BY DEF Read
<1> HIDE DEF new
<1>3. Below(new, r.rev) /\ Has(new, r)
  BY <1>1, <1>2 DEF Below, Has
<1>4. Holds(new, k)
  BY <1>1, <1>3, HoldsNewest
<1> QED
  BY <1>1, <1>3, <1>4 DEF new

LEMMA HoldsCapsule ==
  ASSUME RowsOK(view), MemoryOK, NEW k, k \subseteq ctx, Holds(view, k)
  PROVE  /\ Holds(WithCapsule, k)
         /\ \A top \in Nat : Below(view, top) /\ rev <= top => Below(WithCapsule, top)
         /\ \A r : Has(view, r) => Has(WithCapsule, r)
<1> DEFINE new == WithCapsule
<1>1. new.snap = view.snap /\ new.capsule.rev = rev /\ new.capsule.ctx = ctx
  BY WithCapsuleFacts
<1> HIDE DEF new
<1>2. Holds(new, k)
  BY <1>1 DEF Holds
<1>3. \A top \in Nat : Below(view, top) /\ rev <= top => Below(new, top)
  BY <1>1 DEF Below
<1>4. \A r : Has(view, r) => Has(new, r)
  BY <1>1 DEF Has
<1> QED
  BY <1>2, <1>3, <1>4 DEF new

(* A restart finds what the rows hold.                                     *)
LEMMA RestoredHolds ==
  ASSUME RowsOK(disk), disk.capsule.saved, NEW k, Holds(disk, k)
  PROVE  k \subseteq Restored(DOMAIN disk.snap).ctx
<1> DEFINE found == DOMAIN disk.snap
<1>1. PICK r \in Read :
        /\ \/ /\ r.rev \in found /\ disk.capsule.rev <= r.rev
              /\ \A x \in found : x <= r.rev
              /\ r.ctx = disk.snap[r.rev]
           \/ /\ \A x \in found : x < disk.capsule.rev
              /\ r.rev = disk.capsule.rev /\ r.ctx = disk.capsule.ctx
        /\ Restored(found) = IF disk.capsule.done /\ r.ctx = {} THEN Blank ELSE r
  BY RestoredFacts
<1>2. k \subseteq r.ctx
  BY <1>1 DEF Holds
<1> QED
  BY <1>1, <1>2

LEMMA InitGapFree == Init => GapFree
  BY DEF Init, GapFree, Holds, NoRows

(* Steps of run_loop() that leave the context alone.                       *)
LEMMA StaysGapFree ==
  ASSUME GapFree, UNCHANGED <<rev, ctx, at, held>>, kept' \subseteq kept,
         pc # "down", pc' # "down",
         pc' \in {"record", "assign"} => kept' \subseteq draft'.ctx,
         Holds(view', kept'), Holds(disk', kept'), Placed(view)', Placed(disk)'
  PROVE  GapFree'
  BY DEF GapFree

LEMMA DownGapFree ==
  ASSUME GapFree, Down
  PROVE  GapFree'
  BY DEF GapFree, Down, history

LEMMA StartGapFree ==
  ASSUME TypeInv, RaceFree, GapFree, Start, gaps' = {}
  PROVE  GapFree'
<1> DEFINE found == DOMAIN disk.snap
           res == Restored(found)
<1>1. RowsOK(disk)
  BY DEF TypeInv, StoreOK
<1>2. /\ rev' = res.rev /\ ctx' = res.ctx
      /\ ~disk.capsule.saved => found = {}
      /\ ~(rev' < disk.capsule.rev)
  BY DEF Start
<1>3. /\ pc = "down" /\ pc' = "loop" /\ view = disk
      /\ UNCHANGED <<view, disk, at, held, kept>>
  BY DEF Start, store, callers, GapFree
<1>4. ~Busy' /\ \A c \in Callers : at[c] = "idle"
  BY <1>3 DEF RaceFree, Inside, Busy
<1>5. res \in Read /\ found \subseteq 1..MaxRevision /\ disk.capsule.rev \in Nat
  BY <1>1, RestoredFacts DEF RowsOK, Capsule
<1>6. kept \subseteq ctx'
  <2>1. CASE disk.capsule.saved
    BY <1>1, <1>2, <2>1, RestoredHolds DEF GapFree
  <2>2. CASE ~disk.capsule.saved
    BY <1>2, <2>2 DEF GapFree, Holds
  <2> QED
    BY <2>1, <2>2
<1>7. Below(disk, rev' + 1)
  <2>1. rev' \in Nat /\ disk.capsule.rev <= rev'
    BY <1>2, <1>5 DEF Read
  <2>2. \A x \in found : x <= rev'
    <3>1. CASE ~disk.capsule.saved
      BY <1>2, <3>1
    <3>2. CASE disk.capsule.saved
      <4>1. PICK r \in Read :
              /\ \/ \A x \in found : x <= r.rev
                 \/ r.rev = disk.capsule.rev /\ \A x \in found : x < disk.capsule.rev
              /\ res = Blank \/ res = r
        BY <1>1, <3>2, RestoredFacts
      <4>2. disk.capsule.rev # 0
        BY <3>2 DEF RaceFree
      <4>3. res # Blank
        BY <1>2, <1>5, <4>2, BlankFits
      <4>4. rev' = r.rev /\ r.rev \in Nat
        BY <1>2, <4>1, <4>3 DEF Read
      <4> QED
        BY <1>5, <4>1, <4>4
    <3> QED
      BY <3>1, <3>2
  <2> QED
    BY <1>5, <2>1, <2>2 DEF Below
<1>8. Placed(disk)' /\ Placed(view)'
  BY <1>3, <1>4, <1>7 DEF Placed
<1> QED
  BY <1>3, <1>4, <1>6, <1>8 DEF GapFree

(* run_loop().                                                             *)
LEMMA LoopGapFree ==
  ASSUME TypeInv, RaceFree, GapFree, gaps' = {},
         Begin \/ Emit \/ Judge \/ Compose \/ Record \/ Assign \/ Raise
  PROVE  GapFree'
<1>1. MemoryOK /\ StoreOK /\ LoopOK /\ CallersOK /\ rev \in Nat
  BY DEF TypeInv, MemoryOK
<1>2. ASSUME NoteRace(Busy) PROVE ~Busy
  BY <1>2 DEF NoteRace
<1>3. ASSUME ~Busy, ~Busy', NEW rows, RowsOK(rows),
             rev' \in {rev, rev + 1}, Below(rows, rev + 1), at' = at
      PROVE  Placed(rows)'
  <2>1. rows.capsule.rev \in Nat
    BY <1>3, ContextAssumption DEF RowsOK, Capsule
  <2>2. rows.capsule.rev <= rev + 1 /\ \A x \in DOMAIN rows.snap : x \in 1..(rev + 1)
    BY <1>3 DEF Below
  <2>3. rows.capsule.rev <= rev' + 1 /\ \A x \in DOMAIN rows.snap : x \in 1..(rev' + 1)
    BY <1>1, <1>3, <2>1, <2>2
  <2>4. Below(rows, rev' + 1)
    BY <2>3 DEF Below
  <2> QED
    BY <1>3, <2>4 DEF Placed, Busy
<1>4. CASE Begin
  <2>1. /\ ~Busy /\ ~Busy' /\ pc = "loop" /\ pc' = "start" /\ rev' = rev + 1 /\ ctx' = ctx /\ kept' = kept
        /\ UNCHANGED <<view, disk, at, held>>
    BY <1>2, <1>4 DEF Begin, store, callers, Busy
  <2>2. Placed(view)' /\ Placed(disk)'
    BY <1>1, <1>3, <2>1 DEF StoreOK, GapFree, Placed, Below
  <2> QED
    BY <2>1, <2>2 DEF GapFree
<1>5. CASE Emit
  <2>1. /\ pc \notin {"down", "loop", "record", "assign"} /\ pc' \in {"report", "cycle"}
        /\ UNCHANGED <<rev, ctx, at, held, kept>>
        /\ Write(WithCapsule) \/ FailToWrite(WithCapsule)
    BY <1>5 DEF Emit, memory, callers, history
  <2>2. kept \subseteq ctx /\ Holds(view, kept) /\ Holds(disk, kept) /\ Placed(view) /\ Placed(disk)
    BY <2>1 DEF GapFree
  <2> DEFINE new == WithCapsule
  <2>3. /\ Holds(new, kept)
        /\ \A top \in Nat : Below(view, top) /\ rev <= top => Below(new, top)
        /\ \A r : Has(view, r) => Has(new, r)
    BY <1>1, <2>2, HoldsCapsule DEF StoreOK
  <2>4. view' \in {view, new, disk} /\ disk' \in {disk, new}
    BY <2>1, WrittenRows
  <2> HIDE DEF new
  <2>5. Placed(new)
    <3>1. ~Busy => Below(new, rev + 1)
      BY <1>1, <2>2, <2>3 DEF Placed
    <3>2. ASSUME NEW c \in Callers, at[c] # "idle"
          PROVE  /\ Below(new, held[c].new.rev)
                 /\ at[c] \in {"assign", "verify"} => Has(new, held[c].new)
      <4>1. held[c].new.rev \in Nat /\ rev <= held[c].new.rev
        BY <1>1, <3>2 DEF RaceFree, Inside, Memory, CallersOK, Read
      <4> QED
        BY <2>2, <2>3, <3>2, <4>1 DEF Placed
    <3> QED
      BY <3>1, <3>2 DEF Placed
  <2>6. Busy' = Busy
    BY <2>1 DEF Busy
  <2>7. Placed(view)' /\ Placed(disk)'
    BY <2>1, <2>2, <2>4, <2>5, <2>6 DEF Placed
  <2> QED
    BY <2>1, <2>2, <2>3, <2>4, <2>7, StaysGapFree
<1>6. CASE Judge \/ Raise
  <2>1. /\ pc \in {"start", "cycle"} /\ pc' \in {pc, "error"}
        /\ UNCHANGED <<rev, ctx, at, held, kept, view, disk>>
    BY <1>6 DEF Judge, Raise, Raised, store, loop, callers, history
  <2>2. Placed(view)' /\ Placed(disk)'
    BY <2>1 DEF GapFree, Placed, Busy
  <2> QED
    BY <2>1, <2>2, StaysGapFree DEF GapFree
<1>7. CASE Compose
  <2>1. /\ ~Busy /\ pc \in {"cycle", "report"} /\ pc' = "record" /\ UNCHANGED <<rev, ctx, at, held, view, disk>>
    BY <1>2, <1>7 DEF Compose, memory, store, callers
  <2>2. PICK c \in Fitted(ctx \cup {Execution}) :
          draft' = [rev |-> rev + 1, ctx |-> c] /\ kept' = kept \ (ctx \ c)
    BY <1>7 DEF Compose
  <2>3. kept' \subseteq kept /\ kept' \subseteq draft'.ctx
    BY <2>1, <2>2 DEF GapFree
  <2>4. Holds(view', kept') /\ Holds(disk', kept')
    BY <2>1, <2>3, HoldsLess DEF GapFree
  <2>5. Placed(view)' /\ Placed(disk)'
    BY <2>1 DEF GapFree, Placed, Busy
  <2> QED
    BY <2>1, <2>3, <2>4, <2>5, StaysGapFree
<1>8. CASE Record /\ pc' = "down"
  BY <1>8, DownGapFree DEF Record, Raised
<1>9. CASE Record /\ pc' # "down"
  <2>1. /\ pc = "record" /\ ~Busy /\ draft.rev = rev + 1 /\ kept \subseteq draft.ctx
        /\ Holds(view, kept) /\ Holds(disk, kept) /\ Placed(view) /\ Placed(disk)
    BY <1>9 DEF Record, RaceFree, GapFree
  <2>2. draft \in Read /\ draft.ctx \in Fits /\ draft.rev # 0
    BY <1>1, <2>1 DEF LoopOK
  <2>3. Below(view, draft.rev) /\ Below(disk, draft.rev)
    BY <2>1 DEF Placed
  <2> DEFINE new == WithSnapshot(draft)
  <2>4. Holds(new, kept) /\ Below(new, draft.rev)
    BY <1>1, <2>1, <2>2, <2>3, HoldsSnapshot DEF StoreOK
  <2>5. Write(new) \/ FailToWrite(new)
    BY <1>9 DEF Record, Down
  <2>6. view' \in {view, new, disk} /\ disk' \in {disk, new}
    BY <2>5, WrittenRows
  <2>7. /\ pc' \in {"assign", "error"} /\ draft' = draft
        /\ UNCHANGED <<rev, ctx, at, held, kept>>
    BY <1>9 DEF Record, Raised, Down, memory, callers, history
  <2> HIDE DEF new
  <2>8. Placed(view)' /\ Placed(disk)'
    <3>1. Below(view', rev + 1) /\ Below(disk', rev + 1) /\ ~Busy'
      BY <2>1, <2>3, <2>4, <2>6, <2>7 DEF Busy
    <3> QED
      BY <2>7, <3>1 DEF Placed, Busy
  <2> QED
    BY <2>1, <2>4, <2>6, <2>7, <2>8, StaysGapFree
<1>10. CASE Assign
  <2>1. /\ pc = "assign" /\ ~Busy /\ draft.rev = rev + 1 /\ kept \subseteq draft.ctx
        /\ Holds(view, kept) /\ Holds(disk, kept) /\ Placed(view) /\ Placed(disk)
    BY <1>10 DEF Assign, RaceFree, GapFree
  <2>2. /\ rev' = draft.rev /\ ctx' = draft.ctx /\ pc' \in {"loop", "error"} /\ UNCHANGED <<at, held, kept>>
        /\ Write(view) \/ FailToWrite(view)
    BY <1>10 DEF Assign, Raised, callers
  <2>3. view' \in {view, disk} /\ disk' \in {view, disk}
    BY <2>2, WrittenRows
  <2>4. Placed(view)' /\ Placed(disk)'
    <3>1. /\ RowsOK(view') /\ Below(view', rev + 1)
          /\ RowsOK(disk') /\ Below(disk', rev + 1)
      BY <1>1, <2>1, <2>3 DEF StoreOK, Placed
    <3>2. ~Busy' /\ at' = at /\ rev' = rev + 1
      BY <2>1, <2>2 DEF Busy
    <3> QED
      BY <1>3, <2>1, <3>1, <3>2
  <2>5. \A c \in Callers : at'[c] = "idle"
    BY <2>1, <2>2 DEF Busy
  <2> QED
    BY <2>1, <2>2, <2>3, <2>4, <2>5 DEF GapFree
<1> QED
  BY <1>4, <1>5, <1>6, <1>7, <1>8, <1>9, <1>10

(* The end of a call.                                                      *)
LEMMA ReleaseGapFree ==
  ASSUME TypeInv, RaceFree, GapFree, NEW c \in Callers, at[c] # "idle", Release(c),
         rev' \in {held[c].old.rev, held[c].new.rev}, kept' \subseteq ctx',
         Holds(view, kept'), Holds(disk, kept'),
         UNCHANGED <<view, disk, pc>>
  PROVE  GapFree'
<1>1. CallersOK /\ Inside(c) /\ Busy
  BY DEF TypeInv, RaceFree, Busy
<1>2. (\A d \in Callers : at'[d] = "idle") /\ ~Busy'
  BY <1>1 DEF CallersOK, Release, CallerGoes, Busy
<1>3. pc \notin {"down", "record", "assign"}
  BY <1>1 DEF Inside, RaceFree
<1>4. held[c].new.rev = held[c].old.rev + 1 /\ held[c].old.rev \in Nat
  BY <1>1 DEF CallersOK, Read
<1>5. ASSUME NEW rows, Below(rows, held[c].new.rev), RowsOK(rows) PROVE Below(rows, rev' + 1)
  BY <1>4, <1>5 DEF Below, RowsOK, Capsule
<1>6. Below(view, rev' + 1) /\ Below(disk, rev' + 1)
  BY <1>3, <1>5 DEF GapFree, Placed, TypeInv, StoreOK
<1>7. Placed(view)' /\ Placed(disk)'
  BY <1>2, <1>6 DEF Placed
<1> QED
  BY <1>2, <1>3, <1>7 DEF GapFree

(* codemode_context().                                                     *)
LEMMA CallerGapFree ==
  ASSUME TypeInv, RaceFree, GapFree, gaps' = {}, NEW c \in Callers,
         \/ ReadContext(c) \/ RecordNote(c) \/ AssignNote(c) \/ Verify(c) \/ Recover(c)
         \/ \E n \in Notes : AppendNote(c, n)
  PROVE  GapFree'
<1>1. MemoryOK /\ StoreOK /\ LoopOK /\ CallersOK /\ rev \in Nat
  BY DEF TypeInv, MemoryOK
<1>2. ASSUME at[c] # "idle"
      PROVE  /\ Inside(c) /\ Busy /\ pc \notin {"down", "record", "assign"}
             /\ \A d \in Callers : d # c => at[d] = "idle"
             /\ Placed(view) /\ Placed(disk) /\ kept \subseteq ctx
             /\ kept \subseteq held[c].old.ctx /\ kept \subseteq held[c].new.ctx
             /\ held[c].new \in Read /\ held[c].new.ctx \in Fits /\ held[c].new.rev # 0
             /\ held[c].new.rev = held[c].old.rev + 1 /\ held[c].old.rev \in Nat
  <2>1. Inside(c) /\ Busy /\ pc \notin {"down", "record", "assign"}
    BY <1>2 DEF RaceFree, Inside, Busy
  <2>2. \A d \in Callers : d # c => at[d] = "idle"
    BY <1>1, <1>2 DEF CallersOK
  <2>3. /\ Placed(view) /\ Placed(disk) /\ kept \subseteq ctx
        /\ kept \subseteq held[c].old.ctx /\ kept \subseteq held[c].new.ctx
    BY <1>2, <2>1 DEF GapFree
  <2>4. /\ held[c].new \in Read /\ held[c].new.ctx \in Fits /\ held[c].new.rev # 0
        /\ held[c].new.rev = held[c].old.rev + 1 /\ held[c].old.rev \in Nat
    BY <1>1, <1>2 DEF CallersOK, Read
  <2> QED
    BY <2>1, <2>2, <2>3, <2>4
<1>3. CASE ReadContext(c)
  <2>1. UNCHANGED <<rev, ctx, at, held, kept, pc, draft, view, disk>> /\ pc # "down"
    BY <1>3 DEF ReadContext, memory, store, loop, history
  <2>2. Placed(view)' /\ Placed(disk)'
    BY <2>1 DEF GapFree, Placed, Busy
  <2> QED
    BY <2>1, <2>2 DEF GapFree
<1>4. ASSUME NEW n \in Notes, AppendNote(c, n) PROVE GapFree'
  <2>1. /\ ~Busy /\ pc \notin {"down", "record", "assign"}
        /\ UNCHANGED <<rev, ctx, view, disk, pc, draft>>
        /\ at' = [at EXCEPT ![c] = "record"]
    BY <1>4 DEF AppendNote, NoteRace, CallerGoes, memory, store, loop
  <2>2. PICK s : /\ held' = [held EXCEPT ![c] = [note |-> n, new |-> [rev |-> rev + 1, ctx |-> s],
                                                  old |-> [rev |-> rev, ctx |-> ctx]]]
                 /\ kept' = kept \ (ctx \ s)
    BY <1>4 DEF AppendNote
  <2>3. held'[c].old.ctx = ctx /\ held'[c].new.rev = rev + 1 /\ held'[c].new.ctx = s
    BY <1>1, <2>2 DEF CallersOK
  <2>4. at'[c] = "record" /\ Busy' /\ \A d \in Callers : at'[d] # "idle" => d = c
    BY <1>1, <2>1 DEF CallersOK, Busy
  <2>5. kept' \subseteq kept /\ kept' \subseteq ctx /\ kept' \subseteq s
    BY <2>1, <2>2 DEF GapFree
  <2>6. Placed(view)' /\ Placed(disk)'
    <3>1. Below(view, rev + 1) /\ Below(disk, rev + 1)
      BY <2>1 DEF GapFree, Placed
    <3> QED
      BY <2>1, <2>3, <2>4, <3>1 DEF Placed
  <2>7. Holds(view', kept') /\ Holds(disk', kept')
    BY <2>1, <2>5, HoldsLess DEF GapFree
  <2> QED
    BY <2>1, <2>3, <2>4, <2>5, <2>6, <2>7 DEF GapFree
<1>5. CASE RecordNote(c)
  <2>1. /\ at[c] = "record" /\ UNCHANGED <<rev, ctx, pc, draft, held, kept>>
        /\ \/ Write(WithSnapshot(held[c].new)) /\ at' = [at EXCEPT ![c] = "assign"]
           \/ FailToWrite(WithSnapshot(held[c].new)) /\ at' = [at EXCEPT ![c] = "failed"]
    BY <1>5 DEF RecordNote, CallerGoes, memory, loop, history
  <2>2. Below(view, held[c].new.rev) /\ Below(disk, held[c].new.rev)
    BY <1>2, <2>1 DEF Placed
  <2> DEFINE new == WithSnapshot(held[c].new)
  <2>3. Holds(new, kept) /\ Below(new, held[c].new.rev) /\ Has(new, held[c].new)
    BY <1>1, <1>2, <2>1, <2>2, HoldsSnapshot DEF StoreOK
  <2> HIDE DEF new
  <2>4. /\ view' \in {view, new, disk} /\ disk' \in {disk, new}
        /\ at'[c] = "assign" => view' = new /\ disk' = new
        /\ at'[c] \in {"assign", "failed"}
        /\ \A d \in Callers : d # c => at'[d] = "idle"
    BY <1>1, <1>2, <2>1, WrittenRows DEF Write, CallersOK, new
  <2>5. /\ Holds(view', kept) /\ Below(view', held[c].new.rev) /\ (at'[c] = "assign" => Has(view', held[c].new))
        /\ Holds(disk', kept) /\ Below(disk', held[c].new.rev) /\ (at'[c] = "assign" => Has(disk', held[c].new))
    BY <2>2, <2>3, <2>4 DEF GapFree
  <2>6. Busy'
    BY <2>4 DEF Busy
  <2>7. Placed(view)' /\ Placed(disk)'
    BY <2>1, <2>4, <2>5, <2>6 DEF Placed
  <2> QED
    BY <1>2, <2>1, <2>4, <2>5, <2>7 DEF GapFree
<1>6. CASE AssignNote(c)
  <2>1. /\ at[c] = "assign" /\ UNCHANGED <<view, disk, pc, draft, held, kept>>
        /\ ctx' = held[c].new.ctx
    BY <1>6 DEF AssignNote, store, loop, history
  <2>2. PICK to \in {"verify", "failed"} : at' = [at EXCEPT ![c] = to]
    BY <1>6 DEF AssignNote, CallerGoes
  <2>3. at'[c] = to /\ Busy' /\ \A d \in Callers : d # c => at'[d] = "idle"
    BY <1>1, <1>2, <2>1, <2>2 DEF CallersOK, Busy
  <2>4. Placed(view)' /\ Placed(disk)'
    BY <1>2, <2>1, <2>3 DEF Placed
  <2> QED
    BY <1>2, <2>1, <2>3, <2>4 DEF GapFree
<1>7. CASE Verify(c)
  <2>1. /\ at[c] = "verify" /\ Release(c) /\ UNCHANGED <<view, disk, pc>>
        /\ \/ rev' = rev /\ ctx' = ctx /\ kept' = kept \cup ({held[c].note} \cap ctx)
           \/ rev' = held[c].old.rev /\ ctx' = held[c].old.ctx /\ kept' = kept
    BY <1>7 DEF Verify, Undo, store, loop
  <2>2. rev = held[c].new.rev /\ ctx = held[c].new.ctx
    BY <1>2, <2>1 DEF Inside, Memory
  <2>3. kept' \subseteq ctx'
    BY <1>2, <2>1
  <2>4. Holds(view, kept') /\ Holds(disk, kept')
    <3>1. CASE kept' = kept
      BY <3>1 DEF GapFree
    <3>2. CASE kept' # kept
      <4>1. kept' \subseteq held[c].new.ctx
        BY <1>2, <2>1, <2>2, <3>2
      <4>2. /\ Has(view, held[c].new) /\ Below(view, held[c].new.rev)
            /\ Has(disk, held[c].new) /\ Below(disk, held[c].new.rev)
        BY <1>2, <2>1 DEF Placed
      <4> QED
        BY <1>1, <1>2, <2>1, <4>1, <4>2, HoldsNewest DEF StoreOK
    <3> QED
      BY <3>1, <3>2
  <2> QED
    BY <2>1, <2>2, <2>3, <2>4, ReleaseGapFree
<1>8. CASE Recover(c)
  <2> DEFINE r == held[c].old.rev + 1
  <2>1. /\ at[c] = "failed" /\ Release(c) /\ UNCHANGED <<view, disk, pc, kept>>
        /\ \/ r \in DOMAIN view.snap /\ rev' = r /\ ctx' = view.snap[r]
           \/ rev' = held[c].old.rev /\ ctx' = held[c].old.ctx
    BY <1>8 DEF Recover, Undo, store, loop, history
  <2>2. \A x \in DOMAIN view.snap : x <= r
    BY <1>2, <2>1 DEF Placed, Below
  <2>3. kept' \subseteq ctx'
    BY <1>2, <2>1, <2>2 DEF GapFree, Holds
  <2> QED
    BY <1>2, <2>1, <2>3, ReleaseGapFree DEF GapFree
<1> QED
  BY <1>3, <1>4, <1>5, <1>6, <1>7, <1>8

LEMMA NextGapFree ==
  IInv /\ [Next]_vars => (gaps' = {} => GapFree')
<1> SUFFICES ASSUME IInv, [Next]_vars, gaps' = {} PROVE GapFree'
  OBVIOUS
<1>1. gaps = {}
  BY GapsGrow
<1>2. TypeInv /\ RaceFree /\ GapFree
  BY <1>1 DEF IInv
<1>3. CASE Start
  BY <1>2, <1>3, StartGapFree
<1>4. CASE Crash \/ Finish
  BY <1>2, <1>4, DownGapFree DEF Crash, Finish
<1>5. CASE Begin \/ Emit \/ Judge \/ Compose \/ Record \/ Assign \/ Raise
  BY <1>2, <1>5, LoopGapFree
<1>6. ASSUME NEW c \in Callers,
             \/ ReadContext(c) \/ RecordNote(c) \/ AssignNote(c) \/ Verify(c) \/ Recover(c)
             \/ \E n \in Notes : AppendNote(c, n)
      PROVE GapFree'
  BY <1>2, <1>6, CallerGapFree
<1>7. CASE UNCHANGED vars
  <2>1. UNCHANGED <<rev, ctx, at, held, pc, draft, view, disk, kept>>
    BY <1>7 DEF vars, memory, store, loop, callers, history
  <2>2. Placed(view)' = Placed(view) /\ Placed(disk)' = Placed(disk)
    BY <2>1 DEF Placed, Busy
  <2> QED
    BY <1>2, <2>1, <2>2 DEF GapFree
<1> QED
  BY <1>3, <1>4, <1>5, <1>6, <1>7 DEF Next

-----------------------------------------------------------------------------
(* The inductive invariant: types, and what holds without an overlap and   *)
(* without any of the gaps.                                                *)
THEOREM Invariance == Spec => []IInv
<1>1. Init => IInv
  BY InitTypes, InitRaceFree, InitGapFree DEF IInv
<1>2. IInv /\ [Next]_vars => IInv'
  BY NextTypes, NextRaceFree, NextGapFree DEF IInv
<1> QED
  BY <1>1, <1>2, PTL DEF Spec

(* Every variable keeps its type; in particular no context, in memory, in a *)
(* snapshot or in a capsule, exceeds the budget, and one caller at a time  *)
(* is inside codemode_context().                                           *)
THEOREM TypeCorrect == Spec => []TypeOK
<1>1. IInv => TypeOK
  BY TypesCorrect DEF IInv
<1> QED
  BY Invariance, <1>1, PTL

(* An append that codemode_context() has acknowledged is in the context and *)
(* in what _restore_node_capsules() would restore, for any number of       *)
(* callers and restarts and any statements and commits that fail, as long  *)
(* as none of the gaps was met.                                            *)
THEOREM AcknowledgedNotesStay == Spec => []AckedNotesKept
<1>1. IInv => AckedNotesKept
  BY RestoredHolds DEF IInv, GapFree, AckedNotesKept, TypeInv, StoreOK
<1> QED
  BY Invariance, <1>1, PTL

(* expected_revision is a sound check: as long as the loop and a caller    *)
(* have not overlapped, two contexts that were read in the life of an      *)
(* orchestrator with one revision are the same.                            *)
THEOREM RevisionsAreUnique == Spec => []RevisionNamesContext
<1>1. IInv => RevisionNamesContext
  BY DEF IInv, RaceFree, Known, RevisionNamesContext
<1> QED
  BY Invariance, <1>1, PTL

-----------------------------------------------------------------------------
(***************************************************************************)
(* The chunked reads that the same store keeps: proofs about FileRead,     *)
(* under names of its own.  What that module assumes of its constants is a *)
(* hypothesis of them.                                                     *)
(***************************************************************************)
CONSTANTS Readers, Versions, Missing, Length, Sizes

VARIABLES file, session, chunks, readPc, version, size, row, piece

FR == INSTANCE FileRead WITH pc <- readPc

-----------------------------------------------------------------------------
(* Sets of chunks. *)

\* A chunk written at a boundary keeps the tiling, and replaces no other one.
LEMMA AddChunk ==
  ASSUME FR!FileConstants,
         NEW v \in Versions, NEW k \in Nat, NEW S \in SUBSET FR!Piece, NEW c \in FR!Piece,
         FR!Tiled(S, v, k), FR!Boundary(S, c.start),
         c.from = v, c.start < c.end, c.end = FR!Lesser(c.start + k, Length[v])
  PROVE  /\ {d \in S : d.start # c.start} \cup {c} = S \cup {c}
         /\ FR!Tiled(S \cup {c}, v, k)
<1> Length[v] \in Nat
  BY DEF FR!FileConstants
<1>t. \A d \in S \cup {c} : d \in FR!Piece /\ d.start \in Nat /\ d.end \in Nat
  BY DEF FR!Piece
<1>1. \A d \in S : d.start = c.start => d = c
  BY DEF FR!Tiled, FR!Piece
<1>2. \A d \in S : d.start < c.start => d.end <= c.start
  <2> SUFFICES ASSUME NEW d \in S, d.start < c.start
               PROVE  d.end <= c.start
    OBVIOUS
  <2>1. PICK e \in S : e.end = c.start
    BY <1>t DEF FR!Boundary, FR!Piece
  <2>2. CASE d.start < e.start
    BY <1>t, <2>1, <2>2 DEF FR!Tiled
  <2>3. CASE e.start < d.start
    BY <1>t, <2>1, <2>3 DEF FR!Tiled
  <2>4. CASE d.start = e.start
    BY <1>t, <2>1, <2>4 DEF FR!Tiled
  <2> QED BY <1>t, <2>2, <2>3, <2>4
<1>3. \A d \in S : c.start < d.start => c.end <= d.start
  <2> SUFFICES ASSUME NEW d \in S, c.start < d.start
               PROVE  c.end <= d.start
    OBVIOUS
  <2>1. c.start \in 0..(d.end - 1)
    BY <1>t DEF FR!Tiled
  <2>2. PICK f \in S : FR!Covers(f, c.start)
    BY <2>1 DEF FR!Tiled
  <2>3. f.start = c.start
    BY <1>t, <1>2, <2>2 DEF FR!Covers
  <2> QED BY <1>1, <2>2, <2>3 DEF FR!Tiled
<1>4. \A d \in S \cup {c} : \A p \in 0..(d.end - 1) : \E e \in S \cup {c} : FR!Covers(e, p)
  <2> SUFFICES ASSUME NEW p \in 0..(c.end - 1)
               PROVE  \E e \in S \cup {c} : FR!Covers(e, p)
    BY DEF FR!Tiled
  <2>1. CASE c.start <= p
    BY <1>t, <2>1 DEF FR!Covers
  <2>2. CASE p < c.start
    <3>1. PICK e \in S : e.end = c.start
      BY <1>t, <2>2 DEF FR!Boundary
    <3>2. p \in 0..(e.end - 1)
      BY <1>t, <2>2, <3>1
    <3> QED BY <3>2 DEF FR!Tiled
  <2> QED BY <1>t, <2>1, <2>2
<1>5. {d \in S : d.start # c.start} \cup {c} = S \cup {c}
  BY <1>1
<1> QED BY <1>t, <1>2, <1>3, <1>4, <1>5 DEF FR!Tiled

\* A tiling that ends where the content ends is the content.
LEMMA TilingIsWhole ==
  ASSUME FR!FileConstants,
         NEW v \in Versions, NEW k \in Nat, chunks[v] \in SUBSET FR!Piece,
         FR!Tiled(chunks[v], v, k), FR!Boundary(chunks[v], Length[v])
  PROVE  FR!Whole(v)
<1> Length[v] \in Nat
  BY DEF FR!FileConstants
<1>t. \A d \in chunks[v] : d \in FR!Piece /\ d.start \in Nat /\ d.end \in Nat
  BY DEF FR!Piece
<1>1. \A c \in chunks[v] : c.from = v /\ c.end <= Length[v]
  <2> TAKE c \in chunks[v]
  <2>1. c.from = v /\ c.end = FR!Lesser(c.start + k, Length[v])
    BY DEF FR!Tiled
  <2>2. c.start + k \in Nat
    BY <1>t
  <2> QED BY <2>1, <2>2 DEF FR!Lesser
<1>2. ASSUME NEW p \in 0..(Length[v] - 1)
      PROVE  \E c \in chunks[v] : FR!Covers(c, p)
  <2>1. PICK e \in chunks[v] : e.end = Length[v]
    BY <1>2 DEF FR!Boundary
  <2>2. p \in 0..(e.end - 1)
    BY <2>1
  <2> QED BY <2>1, <2>2 DEF FR!Tiled
<1>3. ASSUME NEW p \in 0..(Length[v] - 1), NEW c \in chunks[v], NEW d \in chunks[v],
             FR!Covers(c, p), FR!Covers(d, p)
      PROVE  d = c
  <2>1. ~(c.start < d.start) /\ ~(d.start < c.start)
    BY <1>t, <1>3 DEF FR!Covers, FR!Tiled
  <2>2. c.start = d.start
    BY <1>t, <2>1
  <2>3. c.end = d.end /\ c.from = d.from
    BY <2>2 DEF FR!Tiled
  <2> QED BY <1>t, <2>2, <2>3 DEF FR!Piece
<1> QED BY <1>1, <1>2, <1>3 DEF FR!Whole

LEMMA BoundaryKept ==
  ASSUME NEW S, NEW T, S \subseteq T, NEW p, FR!Boundary(S, p)
  PROVE  FR!Boundary(T, p)
BY DEF FR!Boundary

-----------------------------------------------------------------------------
(* The steps. *)

LEMMA InitKeepsReads == FR!FileConstants /\ FR!Init => FR!IInv
<1> SUFFICES ASSUME FR!FileConstants, FR!Init PROVE FR!IInv
  OBVIOUS
<1>1. FR!TypeOK
  BY DEF FR!FileConstants, FR!Init, FR!TypeOK, FR!Session, FR!NoSession, FR!NoPiece
<1>2. ASSUME NEW v \in Versions PROVE FR!SessionInv(v)
  BY DEF FR!Init, FR!SessionInv, FR!Tiled, FR!Boundary, FR!NoSession
<1>3. ASSUME NEW r \in Readers PROVE FR!ReaderInv(r)
  BY <1>3 DEF FR!Init, FR!ReaderInv
<1> QED BY <1>1, <1>2, <1>3 DEF FR!IInv

\* A step of one reader that leaves the store alone keeps what the sessions and
\* the other readers rest on.
LEMMA ReaderStep ==
  ASSUME FR!FileConstants,
         FR!IInv, NEW r \in Readers, FR!TypeOK', UNCHANGED FR!store, FR!ReaderInv(r)',
         \A q \in Readers \ {r} : /\ readPc'[q] = readPc[q] /\ version'[q] = version[q]
                                  /\ row'[q] = row[q] /\ piece'[q] = piece[q]
  PROVE  FR!IInv'
<1>1. ASSUME NEW v \in Versions PROVE FR!SessionInv(v)'
  <2>1. FR!SessionInv(v)
    BY DEF FR!IInv
  <2> QED BY <2>1 DEF FR!SessionInv, FR!Tiled, FR!store
<1>2. ASSUME NEW q \in Readers, q # r PROVE FR!ReaderInv(q)'
  <2>1. FR!ReaderInv(q)
    BY DEF FR!IInv
  <2> QED BY <1>2, <2>1 DEF FR!ReaderInv, FR!store
<1> QED BY <1>1, <1>2 DEF FR!IInv

LEMMA LeaveStep ==
  ASSUME FR!FileConstants,
         FR!IInv, NEW r \in Readers, FR!Leave(r)
  PROVE  FR!IInv'
<1>1. FR!TypeOK'
  BY DEF FR!IInv, FR!TypeOK, FR!Leave, FR!Session, FR!NoSession, FR!NoPiece, FR!store
<1>2. FR!ReaderInv(r)'
  BY DEF FR!IInv, FR!TypeOK, FR!Leave, FR!ReaderInv
<1>3. \A q \in Readers \ {r} : /\ readPc'[q] = readPc[q] /\ version'[q] = version[q]
                               /\ row'[q] = row[q] /\ piece'[q] = piece[q]
  BY DEF FR!IInv, FR!TypeOK, FR!Leave
<1> QED BY <1>1, <1>2, <1>3, ReaderStep DEF FR!Leave

LEMMA BeginStep ==
  ASSUME FR!FileConstants,
         FR!IInv, NEW r \in Readers, NEW k \in Sizes, FR!Begin(r, k)
  PROVE  FR!IInv'
<1>1. FR!TypeOK'
  BY DEF FR!IInv, FR!TypeOK, FR!Begin, FR!Goto, FR!store
<1>2. FR!ReaderInv(r)'
  BY DEF FR!IInv, FR!TypeOK, FR!Begin, FR!Goto, FR!ReaderInv
<1>3. \A q \in Readers \ {r} : /\ readPc'[q] = readPc[q] /\ version'[q] = version[q]
                               /\ row'[q] = row[q] /\ piece'[q] = piece[q]
  BY DEF FR!IInv, FR!TypeOK, FR!Begin, FR!Goto
<1> QED BY <1>1, <1>2, <1>3, ReaderStep DEF FR!Begin

LEMMA LookStep ==
  ASSUME FR!FileConstants,
         FR!IInv, NEW r \in Readers, FR!Look(r)
  PROVE  FR!IInv'
<1> DEFINE v == version[r]
<1>1. CASE FR!Leave(r)
  BY <1>1, LeaveStep
<1>2. CASE /\ session[v].status = "none" /\ FR!Goto(r, "look", "insert")
           /\ UNCHANGED <<file, FR!store, version, size, row, piece>>
  <2>1. FR!TypeOK'
    BY <1>2 DEF FR!IInv, FR!TypeOK, FR!Goto, FR!store
  <2>2. FR!ReaderInv(r)'
    BY <1>2 DEF FR!IInv, FR!TypeOK, FR!Goto, FR!ReaderInv
  <2>3. \A q \in Readers \ {r} : /\ readPc'[q] = readPc[q] /\ version'[q] = version[q]
                                 /\ row'[q] = row[q] /\ piece'[q] = piece[q]
    BY <1>2 DEF FR!IInv, FR!TypeOK, FR!Goto
  <2> QED BY <1>2, <2>1, <2>2, <2>3, ReaderStep
<1>3. CASE /\ session[v].status # "none" /\ session[v].size = size[r] /\ FR!Goto(r, "look", "read")
           /\ UNCHANGED <<file, FR!store, version, size, piece>> /\ FR!Load(r)
  <2>0. v \in Versions
    BY <1>3 DEF FR!IInv, FR!TypeOK, FR!Goto
  <2>1. FR!TypeOK'
    BY <1>3, <2>0 DEF FR!IInv, FR!TypeOK, FR!Goto, FR!Load, FR!store
  <2>2. FR!ReaderInv(r)'
    BY <1>3, <2>0 DEF FR!IInv, FR!TypeOK, FR!Goto, FR!Load, FR!ReaderInv, FR!store
  <2>3. \A q \in Readers \ {r} : /\ readPc'[q] = readPc[q] /\ version'[q] = version[q]
                                 /\ row'[q] = row[q] /\ piece'[q] = piece[q]
    BY <1>3 DEF FR!IInv, FR!TypeOK, FR!Goto, FR!Load
  <2> QED BY <1>3, <2>1, <2>2, <2>3, ReaderStep
<1> QED BY <1>1, <1>2, <1>3 DEF FR!Look

LEMMA ReadChunkStep ==
  ASSUME FR!FileConstants,
         FR!IInv, NEW r \in Readers, FR!ReadChunk(r)
  PROVE  FR!IInv'
<1> DEFINE v == version[r]
<1> DEFINE c == [start |-> row[r].next, from |-> file,
                 end |-> FR!Lesser(row[r].next + row[r].size, Length[file])]
<1>1. CASE FR!Leave(r)
  BY <1>1, LeaveStep
<1>2. CASE /\ file = v /\ FR!Goto(r, "read", "check")
           /\ piece' = [piece EXCEPT ![r] = c]
           /\ UNCHANGED <<file, FR!store, version, size, row>>
  <2>1. v \in Versions /\ Length[v] \in Nat /\ row[r].next \in Nat
    BY <1>2 DEF FR!FileConstants, FR!IInv, FR!TypeOK, FR!Goto, FR!Session
  <2>2. row[r].size = session[v].size /\ row[r].size \in Nat \ {0}
    BY <1>2, <2>1 DEF FR!FileConstants, FR!IInv, FR!TypeOK, FR!Goto, FR!ReaderInv
  <2>3. /\ c \in FR!Piece /\ c.from = v /\ c.start < c.end /\ c.end <= Length[v]
        /\ c.end = FR!Lesser(c.start + session[v].size, Length[v])
    <3>1. row[r].next < Length[v]
      BY <1>2 DEF FR!ReadChunk, FR!Unread
    <3> QED BY <1>2, <2>1, <2>2, <3>1 DEF FR!Piece, FR!Lesser
  <2> HIDE DEF c
  <2>4. piece'[r] = c
    BY <1>2 DEF FR!IInv, FR!TypeOK
  <2>5. FR!TypeOK'
    BY <1>2, <2>1, <2>3 DEF FR!IInv, FR!TypeOK, FR!Goto, FR!store
  <2>6. FR!ReaderInv(r)'
    <3>1. readPc'[r] = "check" /\ session' = session /\ version' = version
      BY <1>2 DEF FR!IInv, FR!TypeOK, FR!Goto, FR!store
    <3>2. session[v].status # "none"
      BY <1>2 DEF FR!IInv, FR!ReaderInv, FR!Goto
    <3> QED BY <2>3, <2>4, <3>1, <3>2 DEF FR!ReaderInv
  <2>7. \A q \in Readers \ {r} : /\ readPc'[q] = readPc[q] /\ version'[q] = version[q]
                                 /\ row'[q] = row[q] /\ piece'[q] = piece[q]
    BY <1>2 DEF FR!IInv, FR!TypeOK, FR!Goto
  <2> QED BY <1>2, <2>5, <2>6, <2>7, ReaderStep
<1> QED BY <1>1, <1>2 DEF FR!ReadChunk

LEMMA CheckStep ==
  ASSUME FR!FileConstants,
         FR!IInv, NEW r \in Readers, FR!Check(r)
  PROVE  FR!IInv'
<1> DEFINE v == version[r]
<1>1. CASE FR!Leave(r)
  BY <1>1, LeaveStep
<1>2. CASE /\ piece[r].start = session[v].next /\ piece[r].end <= Length[v]
           /\ FR!Goto(r, "check", "write")
           /\ UNCHANGED <<file, FR!store, version, size, row, piece>>
  <2>1. v \in Versions
    BY <1>2 DEF FR!IInv, FR!TypeOK, FR!Goto
  <2>2. FR!TypeOK'
    BY <1>2 DEF FR!IInv, FR!TypeOK, FR!Goto, FR!store
  <2>3. FR!Boundary(chunks[v], piece[r].start)
    BY <1>2, <2>1 DEF FR!IInv, FR!SessionInv
  <2>4. FR!ReaderInv(r)'
    BY <1>2, <2>3 DEF FR!IInv, FR!TypeOK, FR!Goto, FR!ReaderInv, FR!store
  <2>5. \A q \in Readers \ {r} : /\ readPc'[q] = readPc[q] /\ version'[q] = version[q]
                                 /\ row'[q] = row[q] /\ piece'[q] = piece[q]
    BY <1>2 DEF FR!IInv, FR!TypeOK, FR!Goto
  <2> QED BY <1>2, <2>2, <2>4, <2>5, ReaderStep
<1> QED BY <1>1, <1>2 DEF FR!Check

LEMMA StatusStep ==
  ASSUME FR!FileConstants,
         FR!IInv, NEW r \in Readers, FR!Status(r)
  PROVE  FR!IInv'
<1>0. version[r] \in Versions
  BY DEF FR!IInv, FR!TypeOK, FR!Status, FR!Goto
<1>1. FR!TypeOK'
  BY <1>0 DEF FR!IInv, FR!TypeOK, FR!Status, FR!Goto, FR!Load, FR!store
<1>2. FR!ReaderInv(r)'
  BY <1>0 DEF FR!IInv, FR!TypeOK, FR!Status, FR!Goto, FR!Load, FR!ReaderInv, FR!store
<1>3. \A q \in Readers \ {r} : /\ readPc'[q] = readPc[q] /\ version'[q] = version[q]
                               /\ row'[q] = row[q] /\ piece'[q] = piece[q]
  BY DEF FR!IInv, FR!TypeOK, FR!Status, FR!Goto, FR!Load
<1> QED BY <1>1, <1>2, <1>3, ReaderStep DEF FR!Status

LEMMA ProbeStep ==
  ASSUME FR!FileConstants,
         FR!IInv, NEW r \in Readers, FR!Probe(r)
  PROVE  FR!IInv'
<1>1. CASE FR!Leave(r)
  BY <1>1, LeaveStep
<1>2. CASE /\ FR!Goto(r, "read", "finish")
           /\ UNCHANGED <<file, FR!store, version, size, row, piece>>
  <2>1. FR!TypeOK'
    BY <1>2 DEF FR!IInv, FR!TypeOK, FR!Goto, FR!store
  <2>2. FR!ReaderInv(r)'
    BY <1>2 DEF FR!IInv, FR!TypeOK, FR!Goto, FR!ReaderInv, FR!store
  <2>3. \A q \in Readers \ {r} : /\ readPc'[q] = readPc[q] /\ version'[q] = version[q]
                                 /\ row'[q] = row[q] /\ piece'[q] = piece[q]
    BY <1>2 DEF FR!IInv, FR!TypeOK, FR!Goto
  <2> QED BY <1>2, <2>1, <2>2, <2>3, ReaderStep
<1> QED BY <1>1, <1>2 DEF FR!Probe

LEMMA FinishStep ==
  ASSUME FR!FileConstants,
         FR!IInv, NEW r \in Readers, FR!Finish(r)
  PROVE  FR!IInv'
<1> DEFINE v == version[r]
<1>1. CASE FR!Leave(r)
  BY <1>1, LeaveStep
<1>2. CASE /\ session[v].next = Length[v] /\ FR!Goto(r, "finish", "close")
           /\ UNCHANGED <<file, FR!store, version, size, row, piece>>
  <2>0. v \in Versions
    BY <1>2 DEF FR!IInv, FR!TypeOK, FR!Goto
  <2>1. FR!TypeOK'
    BY <1>2 DEF FR!IInv, FR!TypeOK, FR!Goto, FR!store
  <2>2. FR!Boundary(chunks[v], Length[v])
    BY <1>2, <2>0 DEF FR!IInv, FR!SessionInv
  <2>3. FR!ReaderInv(r)'
    BY <1>2, <2>2 DEF FR!IInv, FR!TypeOK, FR!Goto, FR!ReaderInv, FR!store
  <2>4. \A q \in Readers \ {r} : /\ readPc'[q] = readPc[q] /\ version'[q] = version[q]
                                 /\ row'[q] = row[q] /\ piece'[q] = piece[q]
    BY <1>2 DEF FR!IInv, FR!TypeOK, FR!Goto
  <2> QED BY <1>2, <2>1, <2>3, <2>4, ReaderStep
<1> QED BY <1>1, <1>2 DEF FR!Finish

LEMMA EditStep ==
  ASSUME FR!FileConstants,
         FR!IInv, FR!Edit
  PROVE  FR!IInv'
<1>1. FR!TypeOK'
  BY DEF FR!IInv, FR!TypeOK, FR!Edit, FR!store, FR!reader
<1>2. ASSUME NEW v \in Versions PROVE FR!SessionInv(v)'
  BY DEF FR!IInv, FR!Edit, FR!SessionInv, FR!Tiled, FR!store
<1>3. ASSUME NEW q \in Readers PROVE FR!ReaderInv(q)'
  BY DEF FR!IInv, FR!Edit, FR!ReaderInv, FR!store, FR!reader
<1> QED BY <1>1, <1>2, <1>3 DEF FR!IInv

\* A new session has no chunks, and nobody else reads in it yet.
LEMMA InsertStep ==
  ASSUME FR!FileConstants,
         FR!IInv, NEW r \in Readers, FR!Insert(r)
  PROVE  FR!IInv'
<1> DEFINE v == version[r]
<1> DEFINE new == [size |-> size[r], next |-> 0, status |-> "active"]
<1>1. CASE FR!Leave(r)
  BY <1>1, LeaveStep
<1>2. CASE /\ session[v].status = "none" /\ FR!Goto(r, "insert", "read")
           /\ session' = [session EXCEPT ![v] = new] /\ FR!Load(r)
           /\ UNCHANGED <<file, chunks, version, size, piece>>
  <2>0. v \in Versions /\ size[r] \in Sizes
    BY <1>2 DEF FR!IInv, FR!TypeOK, FR!Goto
  <2>1. new \in FR!Session /\ new.next = 0 /\ new.status = "active" /\ new.size \in Sizes
    BY <2>0 DEF FR!Session
  <2> HIDE DEF new
  <2>2. row' = [row EXCEPT ![r] = new] /\ session'[v] = new
    BY <1>2, <2>0 DEF FR!IInv, FR!TypeOK, FR!Load
  <2>3. FR!TypeOK'
    BY <1>2, <2>0, <2>1, <2>2 DEF FR!IInv, FR!TypeOK, FR!Goto
  <2>4. ASSUME NEW w \in Versions PROVE FR!SessionInv(w)'
    <3>1. FR!SessionInv(w)
      BY DEF FR!IInv
    <3>2. CASE w = v
      <4>1. chunks'[w] = {}
        BY <1>2, <3>1, <3>2 DEF FR!SessionInv
      <4> QED BY <2>1, <2>2, <3>2, <4>1 DEF FR!SessionInv, FR!Tiled, FR!Boundary
    <3>3. CASE w # v
      <4>1. session'[w] = session[w] /\ chunks'[w] = chunks[w]
        BY <1>2, <3>3 DEF FR!IInv, FR!TypeOK
      <4> QED BY <3>1, <4>1 DEF FR!SessionInv, FR!Tiled, FR!Boundary
    <3> QED BY <3>2, <3>3
  <2>5. FR!ReaderInv(r)'
    BY <1>2, <2>0, <2>1, <2>2 DEF FR!IInv, FR!TypeOK, FR!Goto, FR!ReaderInv
  <2>6. ASSUME NEW q \in Readers, q # r PROVE FR!ReaderInv(q)'
    <3>1. /\ FR!ReaderInv(q) /\ readPc'[q] = readPc[q] /\ version'[q] = version[q]
          /\ row'[q] = row[q] /\ piece'[q] = piece[q]
      BY <1>2, <2>2, <2>6 DEF FR!IInv, FR!TypeOK, FR!Goto
    <3>2. CASE readPc[q] \in {"idle", "look", "insert"}
      BY <3>1, <3>2 DEF FR!ReaderInv
    <3>3. CASE readPc[q] \notin {"idle", "look", "insert"}
      <4>1. version[q] # v
        BY <1>2, <3>1, <3>3 DEF FR!ReaderInv
      <4>2. session'[version[q]] = session[version[q]] /\ chunks' = chunks
        BY <1>2, <4>1 DEF FR!IInv, FR!TypeOK
      <4> QED BY <3>1, <4>2 DEF FR!ReaderInv
    <3> QED BY <3>2, <3>3
  <2> QED BY <2>3, <2>4, <2>5, <2>6 DEF FR!IInv
<1> QED BY <1>1, <1>2 DEF FR!Insert

\* A change of a session that keeps its size, does not unmake it and only adds
\* chunks leaves the other readers undisturbed.
LEMMA OtherReaders ==
  ASSUME FR!FileConstants,
         FR!IInv, NEW q \in Readers, NEW w \in Versions,
         readPc'[q] = readPc[q], version'[q] = version[q], row'[q] = row[q], piece'[q] = piece[q],
         \A x \in Versions \ {w} : session'[x] = session[x] /\ chunks'[x] = chunks[x],
         session'[w].size = session[w].size, session'[w].status # "none",
         chunks[w] \subseteq chunks'[w]
  PROVE  FR!ReaderInv(q)'
<1>1. FR!ReaderInv(q)
  BY DEF FR!IInv
<1>2. CASE readPc[q] = "idle"
  BY <1>2 DEF FR!ReaderInv
<1>3. CASE readPc[q] # "idle"
  <2>1. version[q] \in Versions
    BY <1>3 DEF FR!IInv, FR!TypeOK
  <2>2. CASE version[q] # w
    BY <1>1, <2>1, <2>2 DEF FR!ReaderInv
  <2>3. CASE version[q] = w
    <3>1. \A p : FR!Boundary(chunks[w], p) => FR!Boundary(chunks'[w], p)
      BY DEF FR!Boundary
    <3> QED BY <1>1, <2>3, <3>1 DEF FR!ReaderInv
  <2> QED BY <2>2, <2>3
<1> QED BY <1>2, <1>3

LEMMA SizeIsNat ==
  ASSUME FR!FileConstants,
         FR!TypeOK, NEW v \in Versions
  PROVE  session[v].size \in Nat
<1>1. session[v] \in FR!Session
  BY DEF FR!TypeOK
<1>2. session[v].size \in Sizes \cup {0}
  BY <1>1 DEF FR!Session
<1>3. Sizes \cup {0} \subseteq Nat
  BY DEF FR!FileConstants
<1> QED BY <1>2, <1>3

LEMMA WriteChunkStep ==
  ASSUME FR!FileConstants,
         FR!IInv, NEW r \in Readers, FR!WriteChunk(r)
  PROVE  FR!IInv'
<1> DEFINE v == version[r]
<1> DEFINE c == piece[r]
<1>1. /\ readPc[r] = "write" /\ readPc' = [readPc EXCEPT ![r] = "status"]
      /\ chunks' = [chunks EXCEPT ![v] = {d \in @ : d.start # c.start} \cup {c}]
      /\ piece' = [piece EXCEPT ![r] = FR!NoPiece]
      /\ session' = [session EXCEPT ![v].next = c.end]
      /\ UNCHANGED <<file, version, size, row>>
  BY DEF FR!WriteChunk, FR!Goto
<1>2. v \in Versions /\ c \in FR!Piece /\ chunks[v] \in SUBSET FR!Piece /\ c.end \in Nat
  BY <1>1 DEF FR!IInv, FR!TypeOK, FR!Piece
<1>3. session[v].size \in Nat
  BY <1>2, SizeIsNat DEF FR!IInv
<1>4. /\ c.from = v /\ c.start < c.end
      /\ c.end = FR!Lesser(c.start + session[v].size, Length[v])
      /\ FR!Boundary(chunks[v], c.start) /\ session[v].status # "none"
  BY <1>1 DEF FR!IInv, FR!ReaderInv
<1>5. /\ {d \in chunks[v] : d.start # c.start} \cup {c} = chunks[v] \cup {c}
      /\ FR!Tiled(chunks[v] \cup {c}, v, session[v].size)
  <2>1. FR!Tiled(chunks[v], v, session[v].size)
    BY <1>2 DEF FR!IInv, FR!SessionInv
  <2> HIDE DEF c
  <2> QED BY <1>2, <1>3, <1>4, <2>1, AddChunk
<1>6. /\ chunks'[v] = chunks[v] \cup {c}
      /\ session'[v].size = session[v].size /\ session'[v].status = session[v].status
      /\ session'[v].next = c.end /\ session'[v] \in FR!Session
      /\ \A x \in Versions \ {v} : session'[x] = session[x] /\ chunks'[x] = chunks[x]
  <2>1. chunks'[v] = chunks[v] \cup {c}
    BY <1>1, <1>2, <1>5 DEF FR!IInv, FR!TypeOK
  <2>2. session[v] \in FR!Session
    BY <1>2 DEF FR!IInv, FR!TypeOK
  <2> QED BY <1>1, <1>2, <2>1, <2>2 DEF FR!IInv, FR!TypeOK, FR!Session
<1>7. FR!TypeOK'
  <2>1. session' \in [Versions -> FR!Session]
    BY <1>1, <1>6 DEF FR!IInv, FR!TypeOK
  <2>2. chunks' \in [Versions -> SUBSET FR!Piece]
    BY <1>1, <1>2, <1>6 DEF FR!IInv, FR!TypeOK
  <2>3. \A w \in Versions : session'[w].status # "none" => session'[w].size \in Sizes
    BY <1>6 DEF FR!IInv, FR!TypeOK
  <2> QED BY <1>1, <2>1, <2>2, <2>3 DEF FR!IInv, FR!TypeOK
<1>8. ASSUME NEW w \in Versions PROVE FR!SessionInv(w)'
  <2>1. FR!SessionInv(w)
    BY DEF FR!IInv
  <2>2. CASE w # v
    <3>1. session'[w] = session[w] /\ chunks'[w] = chunks[w]
      BY <1>6, <2>2
    <3> QED BY <2>1, <3>1 DEF FR!SessionInv, FR!Tiled, FR!Boundary
  <2>3. CASE w = v
    <3>2. FR!Tiled(chunks'[v], v, session'[v].size)
      BY <1>5, <1>6
    <3>3. FR!Boundary(chunks'[v], session'[v].next)
      BY <1>6 DEF FR!Boundary
    <3>4. FR!Boundary(chunks[v], Length[v]) => FR!Boundary(chunks'[v], Length[v])
      BY <1>6 DEF FR!Boundary
    <3>5. /\ session'[v].status # "none"
          /\ session'[v].status = "complete" => FR!Boundary(chunks'[v], Length[v])
      BY <1>4, <1>6, <2>1, <2>3, <3>4 DEF FR!SessionInv
    <3> QED BY <2>3, <3>2, <3>3, <3>5 DEF FR!SessionInv, FR!Tiled
  <2> QED BY <2>2, <2>3
<1>9. FR!ReaderInv(r)'
  <2>1. readPc'[r] = "status" /\ version'[r] = v
    BY <1>1 DEF FR!IInv, FR!TypeOK
  <2> QED BY <1>4, <1>6, <2>1 DEF FR!ReaderInv
<1>10. ASSUME NEW q \in Readers, q # r PROVE FR!ReaderInv(q)'
  <2>1. readPc'[q] = readPc[q] /\ version'[q] = version[q] /\ row'[q] = row[q] /\ piece'[q] = piece[q]
    BY <1>1, <1>10 DEF FR!IInv, FR!TypeOK
  <2>2. chunks[v] \subseteq chunks'[v] /\ session'[v].status # "none"
    BY <1>4, <1>6
  <2> HIDE DEF v, c
  <2> QED BY <1>2, <1>6, <2>1, <2>2, OtherReaders
<1> QED BY <1>7, <1>8, <1>9, <1>10 DEF FR!IInv

LEMMA CloseStep ==
  ASSUME FR!FileConstants,
         FR!IInv, NEW r \in Readers, FR!Close(r)
  PROVE  FR!IInv'
<1> DEFINE v == version[r]
<1>1. /\ readPc[r] = "close" /\ readPc' = [readPc EXCEPT ![r] = "content"]
      /\ session' = [session EXCEPT ![v].status = "complete"]
      /\ UNCHANGED <<file, chunks, version, size, row, piece>>
  BY DEF FR!Close, FR!Goto
<1>2. v \in Versions
  BY <1>1 DEF FR!IInv, FR!TypeOK
<1>3. session[v].status # "none" /\ FR!Boundary(chunks[v], Length[v])
  BY <1>1 DEF FR!IInv, FR!ReaderInv
<1>4. /\ session'[v].size = session[v].size /\ session'[v].status = "complete"
      /\ session'[v].next = session[v].next /\ session'[v] \in FR!Session
      /\ \A x \in Versions \ {v} : session'[x] = session[x] /\ chunks'[x] = chunks[x]
  <2>1. session[v] \in FR!Session
    BY <1>2 DEF FR!IInv, FR!TypeOK
  <2> QED BY <1>1, <1>2, <2>1 DEF FR!IInv, FR!TypeOK, FR!Session
<1>5. FR!TypeOK'
  <2>1. session' \in [Versions -> FR!Session]
    BY <1>1, <1>4 DEF FR!IInv, FR!TypeOK
  <2>2. \A w \in Versions : session'[w].status # "none" => session'[w].size \in Sizes
    BY <1>3, <1>4 DEF FR!IInv, FR!TypeOK
  <2> QED BY <1>1, <2>1, <2>2 DEF FR!IInv, FR!TypeOK
<1>6. ASSUME NEW w \in Versions PROVE FR!SessionInv(w)'
  <2>1. FR!SessionInv(w) /\ chunks' = chunks
    BY <1>1 DEF FR!IInv
  <2>2. CASE w # v
    BY <1>4, <2>1, <2>2 DEF FR!SessionInv, FR!Tiled, FR!Boundary
  <2>3. CASE w = v
    BY <1>3, <1>4, <2>1, <2>3 DEF FR!SessionInv, FR!Tiled, FR!Boundary
  <2> QED BY <2>2, <2>3
<1>7. FR!ReaderInv(r)'
  <2>1. readPc'[r] = "content" /\ version'[r] = v /\ chunks' = chunks
    BY <1>1 DEF FR!IInv, FR!TypeOK
  <2> QED BY <1>3, <1>4, <2>1 DEF FR!ReaderInv
<1>8. ASSUME NEW q \in Readers, q # r PROVE FR!ReaderInv(q)'
  <2>1. readPc'[q] = readPc[q] /\ version'[q] = version[q] /\ row'[q] = row[q] /\ piece'[q] = piece[q]
    BY <1>1, <1>8 DEF FR!IInv, FR!TypeOK
  <2>2. chunks[v] \subseteq chunks'[v] /\ session'[v].status # "none"
    BY <1>1, <1>4
  <2> HIDE DEF v
  <2> QED BY <1>2, <1>4, <2>1, <2>2, OtherReaders
<1> QED BY <1>5, <1>6, <1>7, <1>8 DEF FR!IInv

-----------------------------------------------------------------------------
(* The theorems. *)

LEMMA NextKeepsReads == FR!FileConstants /\ FR!IInv /\ [FR!Next]_FR!vars => FR!IInv'
<1> SUFFICES ASSUME FR!FileConstants, FR!IInv, [FR!Next]_FR!vars PROVE FR!IInv'
  OBVIOUS
<1>1. CASE UNCHANGED FR!vars
  BY <1>1 DEF FR!IInv, FR!TypeOK, FR!SessionInv, FR!ReaderInv, FR!Tiled, FR!Boundary,
              FR!vars, FR!store, FR!reader
<1>2. CASE FR!Edit
  BY <1>2, EditStep
<1>3. ASSUME NEW r \in Readers, NEW k \in Sizes, FR!Begin(r, k) PROVE FR!IInv'
  BY <1>3, BeginStep
<1>4. ASSUME NEW r \in Readers, FR!Crash(r) PROVE FR!IInv'
  BY <1>4, LeaveStep DEF FR!Crash
<1>5. ASSUME NEW r \in Readers, FR!Step(r) PROVE FR!IInv'
  <2>1. CASE FR!Content(r)
    BY <2>1, LeaveStep DEF FR!Content
  <2> QED BY <1>5, <2>1, LookStep, InsertStep, ReadChunkStep, CheckStep, WriteChunkStep,
             StatusStep, ProbeStep, FinishStep, CloseStep DEF FR!Step
<1> QED BY <1>1, <1>2, <1>3, <1>4, <1>5 DEF FR!Next

\* The inductive invariant of the reads holds in every state of every behaviour.
THEOREM ReadsInvariance ==
  ASSUME FR!FileConstants
  PROVE  FR!Spec => []FR!IInv
BY InitKeepsReads, NextKeepsReads, PTL DEF FR!Spec

\* FR!TypeOK: the store and the readers keep their types.
THEOREM ReadsTypeCorrect ==
  ASSUME FR!FileConstants
  PROVE  FR!Spec => []FR!TypeOK
<1>1. FR!IInv => FR!TypeOK
  BY DEF FR!IInv
<1> QED BY <1>1, ReadsInvariance, PTL

\* FR!WholeFile: for every number of readers, length and chunk size, a completed
\* read names one content of the file from end to end.
THEOREM ReadsAreWhole ==
  ASSUME FR!FileConstants
  PROVE  FR!Spec => []FR!WholeFile
<1>1. FR!IInv => FR!WholeFile
  <2> SUFFICES ASSUME FR!IInv PROVE FR!WholeFile
    OBVIOUS
  <2>1. ASSUME NEW v \in Versions, FR!Boundary(chunks[v], Length[v]) PROVE FR!Whole(v)
    <3>1. chunks[v] \in SUBSET FR!Piece /\ session[v].size \in Nat
      BY SizeIsNat DEF FR!IInv, FR!TypeOK
    <3>2. FR!Tiled(chunks[v], v, session[v].size)
      BY DEF FR!IInv, FR!SessionInv
    <3> QED BY <2>1, <3>1, <3>2, TilingIsWhole
  <2>2. ASSUME NEW v \in Versions, session[v].status = "complete" PROVE FR!Whole(v)
    BY <2>1, <2>2 DEF FR!IInv, FR!SessionInv
  <2>3. ASSUME NEW r \in Readers, readPc[r] = "content" PROVE FR!Whole(version[r])
    <3>1. version[r] \in Versions /\ FR!Boundary(chunks[version[r]], Length[version[r]])
      BY <2>3 DEF FR!IInv, FR!TypeOK, FR!ReaderInv
    <3> QED BY <2>1, <3>1
  <2> QED BY <2>2, <2>3 DEF FR!WholeFile
<1> QED BY <1>1, ReadsInvariance, PTL
=============================================================================
