----------------------------- MODULE PatchFiles -----------------------------
(***************************************************************************)
(* The patch_files action: a diff of several files is applied by           *)
(* stagewarden/tools/files.py for stagewarden/executor.py, which marks it  *)
(* in its mutation journal, keeps the old contents, replays the hunks on   *)
(* them afterwards and records the outcome.  The call may be cut off at    *)
(* any point and asked for again, and others edit the files meanwhile.     *)
(*                                                                         *)
(* A content is a sequence of lines, each with its newline.  A hunk is the *)
(* line it begins at, the lines it expects there and the lines it leaves;  *)
(* the line counts of its header are not used.  A diff that does not parse *)
(* is the empty sequence.                                                  *)
(***************************************************************************)
EXTENDS Integers, Sequences, SequencesExt

CONSTANTS
  Files,      \* files of the workspace
  Lines,      \* lines of text
  Missing,    \* the file does not exist; no content
  Contents,   \* contents the files have at first, and that others give them
  Diffs,      \* diffs that are asked for
  Sensitive,  \* files that are written in ASCII
  Ascii,      \* Ascii[l]: the line l in ASCII
  MaxCalls,   \* bound: calls of the action
  MaxFaults,  \* bound: calls cut off
  MaxEdits    \* bound: edits by others

Content == Seq(Lines) \cup {Missing}
Hunk == [start : Nat, old : Seq(Lines), new : Seq(Lines)]
Patch == [path : Files, op : {"add", "delete", "update"}, hunks : Seq(Hunk)]

ASSUME PatchAssumption ==
  /\ Missing \notin Seq(Lines)
  /\ Contents \subseteq Content
  /\ Diffs \subseteq Seq(Patch)
  /\ Ascii \in [Lines -> Lines]

VARIABLES
  disk,    \* durable: the content of each file
  status,  \* durable: the newest journal entry of the diff
  diff,    \* the diff of the action
  pc, at,  \* where the call is, and the patch its loop comes to next
  plan,    \* the contents _snapshot_patch_plan() has found, patch by patch
  staged,  \* the contents that are to be written
  ok,      \* the outcome
  seen,    \* the contents the verification has found (history variable)
  wrote,   \* the patches whose file the last call has changed
  calls, faults, edits

local == <<pc, at, plan, staged, ok, seen>>
vars  == <<disk, status, diff, local, wrote, calls, faults, edits>>

Phases == {"idle", "mark", "snapshot", "prepare", "stage", "write", "verify", "close"}

TypeOK ==
  /\ disk \in [Files -> Content]
  /\ status \in {"none", "in_flight", "completed", "failed"}
  /\ diff \in Diffs
  /\ pc \in Phases /\ at \in Nat
  /\ plan \in Seq(Content) /\ staged \in Seq(Seq(Lines)) /\ seen \in Seq(Content)
  /\ ok \in BOOLEAN
  /\ wrote \subseteq DOMAIN diff
  /\ calls \in Nat /\ faults \in Nat /\ edits \in Nat

Init ==
  /\ disk \in [Files -> Contents]
  /\ diff \in Diffs
  /\ status = "none"
  /\ pc = "idle" /\ at = 1 /\ plan = << >> /\ staged = << >> /\ ok = FALSE
  /\ seen = << >> /\ wrote = {} /\ calls = 0 /\ faults = 0 /\ edits = 0

-----------------------------------------------------------------------------
(* _apply_unified_patch(). *)

None == Missing

Greater(a, b) == IF a > b THEN a ELSE b

\* Mutant: the lines that hunks add or remove do not move the hunks after them.
SpliceUnmoved(state, h) ==
  LET s == state.lines
      from == Greater(h.start - 1, 0)
      to == from + Len(h.old)
  IN  IF s = None \/ to > Len(s) \/ SubSeq(s, from + 1, to) # h.old
      THEN [lines |-> None, offset |-> 0]
      ELSE [lines |-> SubSeq(s, 1, from) \o h.new \o SubSeq(s, to + 1, Len(s)), offset |-> 0]

\* One hunk: the lines it expects must be at its place, which has moved by what
\* the hunks before it have added and removed.
Splice(state, h) ==
  LET s == state.lines
      from == Greater(h.start - 1 + state.offset, 0)
      to == from + Len(h.old)
  IN  IF s = None \/ to > Len(s) \/ SubSeq(s, from + 1, to) # h.old
      THEN [lines |-> None, offset |-> 0]
      ELSE [lines |-> SubSeq(s, 1, from) \o h.new \o SubSeq(s, to + 1, Len(s)),
            offset |-> state.offset + Len(h.new) - Len(h.old)]

\* The lines and their offset, before the hunks and after each of them.
Spliced(s, hunks) ==
  LET state[n \in 0..Len(hunks)] ==
        IF n = 0 THEN [lines |-> s, offset |-> 0] ELSE Splice(state[n - 1], hunks[n])
  IN  state

Applied(s, hunks) == Spliced(s, hunks)[Len(hunks)].lines

\* What a patch makes of the content c of its file, None if it is refused.
Updated(p, c) ==
  CASE p.op = "add" -> IF c # Missing THEN None ELSE Applied(<< >>, p.hunks)
    [] p.op = "delete" /\ c # Missing /\ Applied(c, p.hunks) = << >> -> << >>
    [] p.op = "update" /\ c # Missing -> Applied(c, p.hunks)
    [] OTHER -> None

-----------------------------------------------------------------------------
Goto(from, to) == pc = from /\ pc' = to /\ at' = 1

\* The loop of the phase "from" goes on, or the phase "to" begins.
Advance(from, to) ==
  /\ pc = from /\ at <= Len(diff)
  /\ IF at < Len(diff) THEN pc' = from /\ at' = at + 1 ELSE pc' = to /\ at' = 1

Outside == UNCHANGED <<diff, wrote, calls, faults, edits>>

\* A completed diff is replayed from the journal without a look at the files,
\* which changes nothing; one found in flight is not marked again.
Ask ==
  /\ calls < MaxCalls /\ status # "completed"
  /\ Goto("idle", IF status = "in_flight" THEN "snapshot" ELSE "mark")
  /\ wrote' = {} /\ calls' = calls + 1
  /\ UNCHANGED <<disk, status, diff, plan, staged, ok, seen, faults, edits>>

Mark ==
  /\ Goto("mark", "snapshot")
  /\ status' = "in_flight"
  /\ UNCHANGED <<disk, plan, staged, ok, seen>> /\ Outside

\* _snapshot_patch_plan(), one patch. A file that is unreadable (it cannot be
\* decoded, or the system refuses) counts as an empty one.
Snapshot ==
  /\ Advance("snapshot", "prepare")
  /\ \E c \in {disk[diff[at].path], << >>} : plan' = Append(plan, c)
  /\ UNCHANGED <<disk, status, staged, ok, seen>> /\ Outside

Fail(from) ==
  /\ Goto(from, "close")
  /\ UNCHANGED <<disk, status, plan, staged, ok, seen>> /\ Outside

NoPatches == diff = << >> /\ Fail("snapshot")

Repeated == \E i \in 1..(at - 1) : diff[i].path = diff[at].path

\* _prepare_file_patches(), one patch.
Prepare ==
  /\ Advance("prepare", "stage")
  /\ ~Repeated /\ Updated(diff[at], disk[diff[at].path]) # None
  /\ UNCHANGED <<disk, status, plan, staged, ok, seen>> /\ Outside

\* The permission to write may be refused whatever the patch is, and a file may
\* be unreadable.
Refuse == pc = "prepare" /\ Fail("prepare")

Deletes(i) == diff[i].op = "delete"

\* The changes come one after the other: the writes, then the deletions.
Turn(i) ==
  /\ i \notin wrote
  /\ \A j \in DOMAIN diff \ wrote :
       \/ ~Deletes(i) /\ Deletes(j)
       \/ Deletes(i) = Deletes(j) /\ i <= j

Change(i, c) ==
  /\ disk' = [disk EXCEPT ![diff[i].path] = c]
  /\ wrote' = wrote \cup {i}

\* Mutant: a patch that no longer applies is staged as it comes.
StageUnchecked ==
  /\ Advance("stage", "write")
  /\ staged' = Append(staged, Updated(diff[at], disk[diff[at].path]))
  /\ UNCHANGED <<disk, status, plan, ok, seen>> /\ Outside

\* Mutant: the files are changed in the loop that computes the results.
StageAndWrite ==
  LET new == Updated(diff[at], disk[diff[at].path])
  IN  /\ Advance("stage", "write")
      /\ new # None
      /\ staged' = Append(staged, new)
      /\ Change(at, IF Deletes(at) THEN Missing ELSE new)
      /\ UNCHANGED <<status, diff, plan, ok, seen, calls, faults, edits>>

\* patch_files(), its first loop: every result is computed before a file changes.
Stage ==
  LET new == Updated(diff[at], disk[diff[at].path])
  IN  /\ Advance("stage", "write")
      /\ new # None
      /\ staged' = Append(staged, new)
      /\ UNCHANGED <<disk, status, plan, ok, seen>> /\ Outside

\* A file has changed since it was prepared, or is unreadable.
RefuseLate == pc = "stage" /\ Fail("stage")

\* _prepare_output_text().
Output(f, s) == IF f \in Sensitive THEN [i \in DOMAIN s |-> Ascii[s[i]]] ELSE s

Changed(i, c) ==
  /\ pc = "write" /\ Turn(i)
  /\ Change(i, c)
  /\ IF wrote' = DOMAIN diff THEN Goto("write", "verify") ELSE UNCHANGED <<pc, at>>
  /\ UNCHANGED <<status, diff, plan, staged, ok, seen, calls, faults, edits>>

Write(i) == ~Deletes(i) /\ Changed(i, Output(diff[i].path, staged[i]))

Delete(i) == Deletes(i) /\ disk[diff[i].path] # Missing /\ Changed(i, Missing)

Old(i) == IF plan[i] = Missing THEN << >> ELSE plan[i]

\* _verify_file_action(): the hunks are replayed on the old content, and the
\* result compared with the file.
Verified(i) ==
  LET new == Applied(Old(i), diff[i].hunks)
  IN  new # None /\ disk[diff[i].path] = IF Deletes(i) THEN Missing ELSE new

Verify ==
  /\ Advance("verify", "close")
  /\ Verified(at)
  /\ seen' = Append(seen, disk[diff[at].path])
  /\ ok' = (at = Len(diff))
  /\ UNCHANGED <<disk, status, plan, staged>> /\ Outside

\* It differs, or is unreadable.
VerifyFails == pc = "verify" /\ Fail("verify")

Forget == plan' = << >> /\ staged' = << >> /\ ok' = FALSE /\ seen' = << >>

Close ==
  /\ Goto("close", "idle")
  /\ status' = IF ok THEN "completed" ELSE "failed"
  /\ Forget
  /\ UNCHANGED disk /\ Outside

-----------------------------------------------------------------------------
(* An exception leaves the call, or its process dies; the workspace and    *)
(* the journal stay as they are.                                           *)

Leave == pc' = "idle" /\ at' = 1 /\ Forget /\ UNCHANGED <<status, diff, calls, edits>>

\* unlink() of a file that others have deleted.
DeleteMissing(i) ==
  /\ pc = "write" /\ Turn(i) /\ Deletes(i) /\ disk[diff[i].path] = Missing
  /\ Leave /\ UNCHANGED <<disk, wrote, faults>>

Interrupt ==
  /\ pc # "idle" /\ faults < MaxFaults
  /\ Leave /\ faults' = faults + 1 /\ UNCHANGED <<disk, wrote>>

\* The write truncates the file, and puts a part of the content in it.
TearFile(i) ==
  LET new == Output(diff[i].path, staged[i])
  IN  /\ pc = "write" /\ Turn(i) /\ ~Deletes(i) /\ faults < MaxFaults
      /\ \E n \in 0..(Len(new) - 1) : Change(i, SubSeq(new, 1, n))
      /\ Leave /\ faults' = faults + 1

Edit ==
  /\ edits < MaxEdits /\ edits' = edits + 1
  /\ \E f \in Files : \E c \in Contents \ {disk[f]} : disk' = [disk EXCEPT ![f] = c]
  /\ UNCHANGED <<status, diff, local, wrote, calls, faults>>

Next ==
  \/ Ask \/ Mark \/ Snapshot \/ NoPatches \/ Prepare \/ Refuse \/ Stage \/ RefuseLate
  \/ \E i \in DOMAIN diff : Write(i) \/ Delete(i) \/ DeleteMissing(i) \/ TearFile(i)
  \/ Verify \/ VerifyFails \/ Close \/ Interrupt \/ Edit

Spec == Init /\ [][Next]_vars

-----------------------------------------------------------------------------
(* Properties. *)

\* Some files of the diff are changed and others not only while the journal has
\* the diff in flight, where the next call finds it: a call that returns, with
\* whatever outcome, has changed none of the files or all of them.
WholeOrNothing == wrote \in {{}, DOMAIN diff} \/ status = "in_flight"

\* What the diff format means, without any order of application: the hunks fit
\* if they follow one another in the old content, and the new content is their
\* new lines between the parts of the old content that they leave out.
First(h) == IF h.old = << >> THEN h.start + 1 ELSE h.start
After(h) == First(h) + Len(h.old)

Fit(s, hunks) ==
  /\ \A i \in DOMAIN hunks : /\ After(hunks[i]) <= Len(s) + 1
                             /\ SubSeq(s, First(hunks[i]), After(hunks[i]) - 1) = hunks[i].old
  /\ \A i \in DOMAIN hunks \ {1} : After(hunks[i - 1]) <= First(hunks[i])

Between(s, hunks, i) ==
  SubSeq(s, IF i = 1 THEN 1 ELSE After(hunks[i - 1]),
            IF i > Len(hunks) THEN Len(s) ELSE First(hunks[i]) - 1)

Patched(s, hunks) ==
  FlattenSeq([i \in 1..(Len(hunks) + 1) |->
    Between(s, hunks, i) \o IF i > Len(hunks) THEN << >> ELSE hunks[i].new])

\* Hunks in the order of the file. One that expects no line is only meant at the
\* beginning of a file and as the first: elsewhere the code puts it before the
\* line it should follow, a second one before the last line of the first.
WellFormed(hunks) ==
  /\ \A i \in DOMAIN hunks : (hunks[i].old = << >>) <=> (hunks[i].start = 0)
  /\ \A i \in DOMAIN hunks : hunks[i].old = << >> => i = 1
  /\ \A i \in DOMAIN hunks \ {1} : After(hunks[i - 1]) <= First(hunks[i])

\* A diff is completed only if each file was then what the diff, read as the
\* format is meant, makes of the content found before the call, though others
\* edit the files, an earlier call was cut off half way, and the hunks of a file
\* move one another.
CompletedIsPatched ==
  ok => \A i \in DOMAIN diff :
    LET hunks == diff[i].hunks
    IN  WellFormed(hunks) =>
          /\ Fit(Old(i), hunks)
          /\ seen[i] = IF Deletes(i) THEN Missing ELSE Patched(Old(i), hunks)

\* What the proofs carry. The journal has the diff in flight from the mark to the
\* end, and the files are changed between the last check and the verification.
MarkInv ==
  /\ pc \in Phases
  /\ wrote \subseteq DOMAIN diff
  /\ pc \in {"snapshot", "prepare", "stage", "write", "verify"} => status = "in_flight"
  /\ pc \in {"mark", "snapshot", "prepare", "stage"} => wrote = {}
  /\ pc = "verify" => wrote = DOMAIN diff
  /\ pc = "close" => wrote \in {{}, DOMAIN diff}
  /\ WholeOrNothing

\* Each loop has filled its list as far as it has come, and left the others alone.
LoopInv ==
  /\ at >= 1
  /\ pc \in {"idle", "mark"} => plan = << >>
  /\ pc = "snapshot" => Len(plan) = at - 1
  /\ pc \in {"prepare", "stage", "write", "verify"} => Len(plan) = Len(diff)
  /\ pc \in {"idle", "mark", "snapshot", "prepare"} => staged = << >>
  /\ pc = "stage" => Len(staged) = at - 1
  /\ pc = "write" => Len(staged) = Len(diff)
  /\ pc \in {"idle", "mark", "snapshot", "prepare", "stage", "write"} => seen = << >>
  /\ pc = "verify" => Len(seen) = at - 1
  /\ pc # "close" => ok = FALSE
  /\ ok => Len(plan) = Len(diff) /\ Len(seen) = Len(diff)

\* What the verification has let through is the hunks replayed on the plan.
SeenInv ==
  \A i \in 1..Len(seen) :
    LET new == Applied(Old(i), diff[i].hunks)
    IN  new # None /\ seen[i] = IF Deletes(i) THEN Missing ELSE new

IInv == TypeOK /\ MarkInv /\ LoopInv /\ SeenInv
=============================================================================
