----------------------------- MODULE NodeContext -----------------------------
(***************************************************************************)
(* The context of one node of stagewarden/goal_loop_orchestrator.py: a     *)
(* text with a revision, of which every revision is kept as a snapshot in  *)
(* the node knowledge store.  The goal loop appends to it after every      *)
(* execution of the node, and callers of codemode_context() append and     *)
(* read under the lock of the node, which the loop does not take.  A new   *)
(* orchestrator restores the context from the newest snapshot or from the  *)
(* capsule of the node.                                                    *)
(*                                                                         *)
(* A context is the set of entries it shows.  Of the knowledge store the   *)
(* connection and the committed rows are kept apart: a commit that fails   *)
(* may leave its row in the transaction, where it is read and where the    *)
(* next commit takes it along.                                             *)
(***************************************************************************)
EXTENDS Naturals, FiniteSets

CONSTANTS
  Callers,      \* threads that call codemode_context()
  Notes,        \* the entries they append
  Execution,    \* the entry of an execution of the node
  Cap,          \* entries that fit the budget of the node
  MaxRevision,  \* bound: revisions
  MaxRuns,      \* bound: orchestrators
  MaxFaults     \* bound: crashes, failing statements and incomplete searches

ASSUME ContextAssumption ==
  /\ Execution \notin Notes
  /\ Cap \in Nat \ {0}
  /\ {MaxRevision, MaxRuns, MaxFaults} \subseteq Nat

VARIABLES
  rev,      \* NodeState.context_revision
  ctx,      \* NodeState.compacted_context
  done,     \* NodeState.status is completed
  view,     \* the rows the connection sees
  disk,     \* durable: the rows that are committed
  pc,       \* where run_loop() is
  retried,  \* run_loop() is in the except clause of the node
  draft,    \* what it is about to record
  at,       \* where each caller is in codemode_context()
  held,     \* what a caller is about to record, and what it goes back to
  seen,     \* the revision and context each caller has read last
  kept,     \* notes reported as appended, not compacted since (history variable)
  gaps,     \* what has happened of the gaps named below (history variable)
  runs,     \* orchestrators started
  faults    \* faults so far

memory  == <<rev, ctx, done>>
store   == <<view, disk>>
loop    == <<pc, retried, draft>>
callers == <<at, held, seen>>
history == <<kept, gaps>>
vars    == <<memory, store, loop, callers, history, runs, faults>>

Context == SUBSET (Notes \cup {Execution})
Capsule == [saved : BOOLEAN, rev : 0..MaxRevision, ctx : Context, done : BOOLEAN]
Read == [rev : 0..MaxRevision, ctx : Context]
Blank == [rev |-> 0, ctx |-> {}]
NoRows == [snap |-> << >>, capsule |-> [saved |-> FALSE, rev |-> 0, ctx |-> {}, done |-> FALSE]]
Idle == [note |-> Execution, new |-> Blank, old |-> Blank]

TypeOK ==
  /\ rev \in 0..MaxRevision /\ ctx \in Context /\ Cardinality(ctx) <= Cap
  /\ done \in BOOLEAN
  /\ \A rows \in {view, disk} :
       /\ rows.capsule \in Capsule
       /\ rows.snap \in [DOMAIN rows.snap -> Context]
       /\ DOMAIN rows.snap \subseteq 1..MaxRevision
  /\ pc \in {"down", "loop", "start", "cycle", "error", "report", "record", "assign"}
  /\ retried \in BOOLEAN
  /\ draft \in Read
  /\ at \in [Callers -> {"idle", "record", "assign", "verify", "failed"}]
  /\ \A c, d \in Callers : at[c] # "idle" /\ at[d] # "idle" => c = d
  /\ held \in [Callers -> [note : Notes \cup {Execution}, new : Read, old : Read]]
  /\ seen \in [Callers -> Read]
  /\ kept \subseteq Notes
  /\ gaps \subseteq {"race", "search", "capsule", "empty"}
  /\ runs \in 0..MaxRuns /\ faults \in 0..MaxFaults

Init ==
  /\ rev = 0 /\ ctx = {} /\ done = FALSE
  /\ view = NoRows /\ disk = NoRows
  /\ pc = "down" /\ retried = FALSE /\ draft = Blank
  /\ at = [c \in Callers |-> "idle"] /\ held = [c \in Callers |-> Idle]
  /\ seen = [c \in Callers |-> Blank]
  /\ kept = {} /\ gaps = {}
  /\ runs = 0 /\ faults = 0

-----------------------------------------------------------------------------
(* The knowledge store. *)

Fault == faults < MaxFaults /\ faults' = faults + 1

\* Execute and commit, which takes along what an earlier commit left.
Write(new) == view' = new /\ disk' = new /\ UNCHANGED faults

\* The statement fails, or the commit does; the transaction stays open or is
\* rolled back.
FailToWrite(new) ==
  /\ Fault
  /\ UNCHANGED disk
  /\ view' \in {view, new, disk}

WithSnapshot(r) ==
  [view EXCEPT !.snap = [x \in DOMAIN @ \cup {r.rev} |-> IF x = r.rev THEN r.ctx ELSE @[x]]]

WithCapsule ==
  [view EXCEPT !.capsule = [saved |-> TRUE, rev |-> rev, ctx |-> ctx, done |-> done]]

Newest(S) == CHOOSE r \in S : \A s \in S : s <= r

\* Mutant: the capsule is taken if there is one.
RestoredFromCapsule(found) ==
  LET c == disk.capsule
  IN  IF c.saved THEN [rev |-> c.rev, ctx |-> c.ctx] ELSE Blank

\* _restore_node_capsules(): without a capsule nothing is restored; the newest
\* snapshot found wins unless the capsule is newer; a completed node takes over
\* no empty context.
Restored(found) ==
  LET c == disk.capsule
      r == IF found # {} /\ Newest(found) >= c.rev
             THEN [rev |-> Newest(found), ctx |-> disk.snap[Newest(found)]]
             ELSE [rev |-> c.rev, ctx |-> c.ctx]
  IN  IF ~c.saved \/ (c.done /\ r.ctx = {}) THEN Blank ELSE r

-----------------------------------------------------------------------------
(* Orchestrators come and go. *)

\* The search for snapshots returns at most 100 of all the tasks that have a
\* node of this name.
Start ==
  /\ pc = "down" /\ runs < MaxRuns
  /\ runs' = runs + 1
  /\ pc' = "loop"
  /\ \E found \in SUBSET DOMAIN disk.snap :
       /\ IF found = DOMAIN disk.snap THEN UNCHANGED faults ELSE Fault
       /\ rev' = Restored(found).rev /\ ctx' = Restored(found).ctx
       /\ gaps' = gaps \cup (IF found # DOMAIN disk.snap THEN {"search"} ELSE {})
                       \cup (IF ~disk.capsule.saved /\ found # {} THEN {"capsule"} ELSE {})
                       \cup (IF rev' < disk.capsule.rev THEN {"empty"} ELSE {})
  /\ done' = disk.capsule.done
  /\ UNCHANGED <<store, retried, draft, callers, kept>>

\* Memory, open transaction and callers are gone.
Down ==
  /\ pc' = "down" /\ retried' = FALSE /\ draft' = Blank
  /\ rev' = 0 /\ ctx' = {} /\ done' = FALSE
  /\ view' = disk
  /\ at' = [c \in Callers |-> "idle"] /\ held' = [c \in Callers |-> Idle]
  /\ seen' = [c \in Callers |-> Blank]
  /\ UNCHANGED <<disk, history, runs>>

Crash == pc # "down" /\ Fault /\ Down

\* run_loop() is over and closes the store.
Finish == pc = "loop" /\ Down /\ UNCHANGED faults

-----------------------------------------------------------------------------
(* run_loop(), which takes no lock. *)

Busy == \E c \in Callers : at[c] # "idle"
NoteRace(condition) == gaps' = IF condition THEN gaps \cup {"race"} ELSE gaps

\* What is left of a context that exceeds the budget is up to the compaction.
Fitted(all) ==
  IF Cardinality(all) <= Cap THEN {all} ELSE {s \in SUBSET all : Cardinality(s) <= Cap}

\* _execute_node() begins a cycle: a new revision of the same context.
Begin ==
  /\ pc = "loop" /\ ~done /\ rev < MaxRevision
  /\ pc' = "start"
  /\ rev' = rev + 1
  /\ NoteRace(Busy)
  /\ UNCHANGED <<ctx, done, store, retried, draft, callers, kept, runs, faults>>

\* _emit_node_event() saves the capsule, and goes on when that fails.
Emit ==
  /\ pc \in {"start", "cycle", "error"}
  /\ pc' = IF pc = "error" THEN "report" ELSE "cycle"
  /\ Write(WithCapsule) \/ FailToWrite(WithCapsule)
  /\ UNCHANGED <<memory, retried, draft, callers, history, runs>>

\* The result of the execution, and what the tolerance gate makes of it.
Judge ==
  /\ pc = "cycle"
  /\ done' = ~done
  /\ UNCHANGED <<rev, ctx, store, loop, callers, history, runs, faults>>

\* _append_node_context() of _record_node_execution_to_handoff().
Compose ==
  /\ pc \in {"cycle", "report"} /\ rev < MaxRevision
  /\ pc' = "record"
  /\ \E c \in Fitted(ctx \cup {Execution}) :
       /\ draft' = [rev |-> rev + 1, ctx |-> c]
       /\ kept' = kept \ (ctx \ c)
  /\ NoteRace(Busy)
  /\ UNCHANGED <<memory, store, retried, callers, runs, faults>>

\* The first exception of a node is reported by run_loop(), a second one ends it.
Raised == ~retried /\ pc' = "error" /\ retried' = TRUE /\ done' = FALSE
                   /\ UNCHANGED <<draft, callers, runs>>

Record ==
  /\ pc = "record"
  /\ \/ Write(WithSnapshot(draft)) /\ pc' = "assign"
                                   /\ UNCHANGED <<memory, retried, draft, callers, history, runs>>
     \/ FailToWrite(WithSnapshot(draft)) /\ Raised /\ UNCHANGED <<rev, ctx, history>>
     \/ retried /\ Fault /\ Down

\* Mutant: the revision stays what it was.
AssignUnnumbered ==
  /\ pc = "assign"
  /\ ctx' = draft.ctx /\ UNCHANGED rev
  /\ NoteRace(Busy)
  /\ UNCHANGED <<store, kept>>
  /\ \/ pc' = "loop" /\ retried' = FALSE /\ UNCHANGED <<done, draft, callers, runs, faults>>
     \/ Fault /\ Raised

\* The event, the record of the event, which commits too, or an exception of them.
Assign ==
  /\ pc = "assign"
  /\ rev' = draft.rev /\ ctx' = draft.ctx
  /\ NoteRace(Busy)
  /\ UNCHANGED kept
  /\ \/ /\ pc' = "loop" /\ retried' = FALSE /\ UNCHANGED <<done, draft, callers, runs>>
        /\ Write(view)
     \/ FailToWrite(view) /\ Raised

\* Any other exception in _execute_node().
Raise ==
  /\ pc \in {"start", "cycle"}
  /\ Fault /\ Raised
  /\ UNCHANGED <<rev, ctx, store, history>>

-----------------------------------------------------------------------------
(* codemode_context(), under the lock of the node.  A call with another    *)
(* revision than the expected one is refused and changes nothing.          *)

CallerGoes(c, to) == at' = [at EXCEPT ![c] = to]

ReadContext(c) ==
  /\ pc # "down" /\ ~Busy
  /\ seen' = [seen EXCEPT ![c] = [rev |-> rev, ctx |-> ctx]]
  /\ UNCHANGED <<memory, store, loop, at, held, history, runs, faults>>

\* Mutant: the text grows beyond the budget.
AppendUnfitted(c, n) ==
  /\ pc # "down" /\ ~Busy /\ rev < MaxRevision
  /\ CallerGoes(c, "record")
  /\ held' = [held EXCEPT ![c] = [note |-> n, new |-> [rev |-> rev + 1, ctx |-> ctx \cup {n}],
                                  old |-> [rev |-> rev, ctx |-> ctx]]]
  /\ NoteRace(pc \in {"record", "assign"})
  /\ UNCHANGED <<memory, store, loop, seen, kept, runs, faults>>

AppendNote(c, n) ==
  /\ pc # "down" /\ ~Busy /\ rev < MaxRevision
  /\ CallerGoes(c, "record")
  /\ \E s \in Fitted(ctx \cup {n}) :
       /\ held' = [held EXCEPT ![c] = [note |-> n, new |-> [rev |-> rev + 1, ctx |-> s],
                                       old |-> [rev |-> rev, ctx |-> ctx]]]
       /\ kept' = kept \ (ctx \ s)
  /\ NoteRace(pc \in {"record", "assign"})
  /\ UNCHANGED <<memory, store, loop, seen, runs, faults>>

RecordNote(c) ==
  /\ at[c] = "record"
  /\ \/ Write(WithSnapshot(held[c].new)) /\ CallerGoes(c, "assign")
     \/ FailToWrite(WithSnapshot(held[c].new)) /\ CallerGoes(c, "failed")
  /\ UNCHANGED <<memory, loop, held, seen, history, runs>>

\* The event of the append may fail after the assignment.
AssignNote(c) ==
  /\ at[c] = "assign"
  /\ rev' = held[c].new.rev /\ ctx' = held[c].new.ctx
  /\ \/ CallerGoes(c, "verify") /\ UNCHANGED faults
     \/ CallerGoes(c, "failed") /\ Fault
  /\ UNCHANGED <<done, store, loop, held, seen, history, runs>>

Release(c) == CallerGoes(c, "idle") /\ held' = [held EXCEPT ![c] = Idle]
Undo(c) == rev' = held[c].old.rev /\ ctx' = held[c].old.ctx
InView(r) == r.rev \in DOMAIN view.snap /\ view.snap[r.rev] = r.ctx

\* The success is reported if the snapshot of the revision is the context.
Verify(c) ==
  LET now == [rev |-> rev, ctx |-> ctx]
  IN  /\ at[c] = "verify"
      /\ Release(c)
      /\ \/ /\ InView(now)
            /\ seen' = [seen EXCEPT ![c] = now]
            /\ kept' = kept \cup ({held[c].note} \cap ctx)
            /\ UNCHANGED <<rev, ctx, faults>>
         \/ /\ IF InView(now) THEN Fault ELSE UNCHANGED faults
            /\ Undo(c)
            /\ UNCHANGED <<seen, kept>>
      /\ UNCHANGED <<done, store, loop, gaps, runs>>

\* After an exception memory follows the store, as far as the store can be read.
Recover(c) ==
  LET r == held[c].old.rev + 1
      stored == r \in DOMAIN view.snap
  IN  /\ at[c] = "failed"
      /\ Release(c)
      /\ \/ stored /\ rev' = r /\ ctx' = view.snap[r] /\ UNCHANGED faults
         \/ (IF stored THEN Fault ELSE UNCHANGED faults) /\ Undo(c)
      /\ UNCHANGED <<done, store, loop, seen, history, runs>>

-----------------------------------------------------------------------------
Next ==
  \/ Start \/ Crash \/ Finish
  \/ Begin \/ Emit \/ Judge \/ Compose \/ Record \/ Assign \/ Raise
  \/ \E c \in Callers :
       \/ ReadContext(c) \/ RecordNote(c) \/ AssignNote(c) \/ Verify(c) \/ Recover(c)
       \/ \E n \in Notes : AppendNote(c, n)

Spec == Init /\ [][Next]_vars

-----------------------------------------------------------------------------
(* Properties. *)

\* A note that was reported as appended is in the context, and in what a new
\* orchestrator would restore, until a compaction drops it: through failing
\* statements, commits that left their row behind, rolled back appends, crashes
\* and restarts.
AckedNotesKept ==
  gaps = {} =>
    /\ pc # "down" => kept \subseteq ctx
    /\ disk.capsule.saved => kept \subseteq Restored(DOMAIN disk.snap).ctx

\* Optimistic concurrency: a revision a caller has read names the context it has
\* read as long as the orchestrator lives, so an append that expects the revision
\* extends what its caller knows.
RevisionNamesContext ==
  "race" \notin gaps /\ ~Busy =>
    \A c \in Callers : seen[c].rev = rev => seen[c].ctx = ctx

-----------------------------------------------------------------------------
(* What the safety proofs carry from step to step.                         *)

Fits == {s \in Context : Cardinality(s) <= Cap}

\* Rows of the store: a snapshot has a revision of its own, and fits.
RowsOK(rows) ==
  /\ rows = [snap |-> rows.snap, capsule |-> rows.capsule]
  /\ rows.capsule \in Capsule /\ rows.capsule.ctx \in Fits
  /\ DOMAIN rows.snap \subseteq 1..MaxRevision
  /\ rows.snap = [x \in DOMAIN rows.snap |-> rows.snap[x]]
  /\ \A x \in DOMAIN rows.snap : rows.snap[x] \in Fits

\* The types, by the parts of the state that the actions change.
MemoryOK == rev \in 0..MaxRevision /\ ctx \in Fits /\ done \in BOOLEAN
StoreOK  == RowsOK(view) /\ RowsOK(disk)
LoopOK ==
  /\ pc \in {"down", "loop", "start", "cycle", "error", "report", "record", "assign"}
  /\ retried \in BOOLEAN
  /\ draft \in Read /\ draft.ctx \in Fits
  /\ pc = "record" => draft.rev # 0
CallersOK ==
  /\ at \in [Callers -> {"idle", "record", "assign", "verify", "failed"}]
  /\ \A c, d \in Callers : at[c] # "idle" /\ at[d] # "idle" => c = d
  /\ held \in [Callers -> [note : Notes \cup {Execution}, new : Read, old : Read]]
  /\ \A c \in Callers :
       /\ held[c].new.ctx \in Fits /\ held[c].old.ctx \in Fits
       /\ at[c] # "idle" => held[c].note \in Notes /\ held[c].new.rev = held[c].old.rev + 1
  /\ seen \in [Callers -> Read]
HistoryOK == kept \subseteq Notes /\ gaps \subseteq {"race", "search", "capsule", "empty"}
BoundsOK == runs \in 0..MaxRuns /\ faults \in 0..MaxFaults

TypeInv == MemoryOK /\ StoreOK /\ LoopOK /\ CallersOK /\ HistoryOK /\ BoundsOK

\* What a caller inside the lock finds in memory, and what was read before.
Memory(r) == rev = r.rev /\ ctx = r.ctx
Known(r) == \A d \in Callers : /\ seen[d].rev <= r.rev
                               /\ seen[d].rev = r.rev => seen[d].ctx = r.ctx
Inside(c) ==
  /\ pc # "down"
  /\ pc # "loop" => held[c].old.rev # 0
  /\ Memory(held[c].old) \/ Memory(held[c].new)
  /\ at[c] \in {"record", "assign"} => Memory(held[c].old)
  /\ at[c] = "verify" => Memory(held[c].new)
  /\ Known(held[c].old)

\* No overlap of the loop and a caller: a revision is used for one context.
RaceFree ==
  /\ pc = "down" => rev = 0 /\ ctx = {}
  /\ pc \in {"record", "assign"} => ~Busy /\ draft.rev = rev + 1
  /\ pc \notin {"down", "loop"} => rev # 0
  /\ view.capsule.saved => view.capsule.rev # 0
  /\ disk.capsule.saved => disk.capsule.rev # 0
  /\ \A c \in Callers : at[c] # "idle" => Inside(c)
  /\ ~Busy => Known([rev |-> rev, ctx |-> ctx])

\* The rows hold the notes k: no row is newer than top, the newest snapshot shows
\* k, and so does a capsule that is newer than all of them.
Below(rows, top) == DOMAIN rows.snap \subseteq 1..top /\ rows.capsule.rev <= top
Holds(rows, k) ==
  /\ DOMAIN rows.snap = {} => k = {}
  /\ \A x \in DOMAIN rows.snap :
       (\A y \in DOMAIN rows.snap : y <= x) => k \subseteq rows.snap[x]
  /\ rows.capsule.saved /\ (\A x \in DOMAIN rows.snap : x < rows.capsule.rev)
       => k \subseteq rows.capsule.ctx

\* The next snapshot, or the one a caller writes, is the newest of the rows.
Has(rows, r) == r.rev \in DOMAIN rows.snap /\ rows.snap[r.rev] = r.ctx
Placed(rows) ==
  /\ ~Busy => Below(rows, rev + 1)
  /\ \A c \in Callers :
       /\ at[c] # "idle" => Below(rows, held[c].new.rev)
       /\ at[c] \in {"assign", "verify"} => Has(rows, held[c].new)

\* No gap: what is kept is in memory, in what is about to be recorded, and in
\* what was recorded.
GapFree ==
  /\ Holds(view, kept) /\ Holds(disk, kept)
  /\ pc = "down" => view = disk
  /\ pc # "down" => kept \subseteq ctx /\ Placed(view) /\ Placed(disk)
  /\ pc \in {"record", "assign"} => kept \subseteq draft.ctx
  /\ \A c \in Callers : at[c] # "idle" => kept \subseteq held[c].old.ctx \cap held[c].new.ctx

IInv ==
  /\ TypeInv
  /\ "race" \notin gaps => RaceFree
  /\ gaps = {} => GapFree
=============================================================================
