--------------------------- MODULE MutationJournal ---------------------------
(***************************************************************************)
(* The idempotency journal of mutating file actions, stagewarden/          *)
(* mutation_journal.py, and its use by Executor._run_action(): look the    *)
(* action's key up, mark it in flight, change the file, record the         *)
(* outcome.  Executors of several processes share the journal and the      *)
(* workspace; any of them may die, or leave the call with an exception, at *)
(* any point, also half way through a line of the journal.                 *)
(*                                                                         *)
(* The key of an action is a hash of the action, so an action is its key.  *)
(* All actions change one file; a file is the sequence of actions its      *)
(* content shows.                                                          *)
(***************************************************************************)
EXTENDS Naturals, Sequences, FiniteSets

CONSTANTS
  Executors,    \* processes that run actions in the workspace
  Keys,         \* mutating actions
  Overwrites,   \* those that replace the content (write_file); others edit it
  NoKey,        \* no action; the key of a line that does not parse
  MaxCalls,     \* bound: calls of _run_action()
  MaxFaults     \* bound: crashes, exceptions and torn lines

ASSUME JournalAssumption ==
  /\ Overwrites \subseteq Keys
  /\ NoKey \notin Keys
  /\ MaxCalls \in Nat /\ MaxFaults \in Nat

VARIABLES
  journal,    \* durable: the lines of mutations.jsonl
  eol,        \* durable: the journal is empty or ends with a newline
  content,    \* durable: the file the actions change
  pc,         \* where each executor is in _run_action()
  key,        \* its action
  ok,         \* the verified outcome of the action
  applied,    \* verified successes of each action (history variable)
  confirmed,  \* actions reported to the caller as done (history variable)
  torn,       \* a journal line was cut short (history variable)
  overlaps,   \* calls that executed beside another one (history variable)
  calls,      \* calls begun
  faults      \* faults so far

durable == <<journal, eol, content>>
local   == <<pc, key, ok>>
history == <<applied, confirmed, torn>>
vars    == <<durable, local, history, overlaps, calls, faults>>

Status == {"in_flight", "completed", "failed"}
Entry(k, s) == [key |-> k, status |-> s]
Junk == [key |-> NoKey, status |-> "failed"]
Line == [key : Keys, status : Status] \cup {Junk}

TypeOK ==
  /\ journal \in Seq(Line) /\ eol \in BOOLEAN
  /\ content \in Seq(Keys)
  /\ pc \in [Executors -> {"idle", "mark", "work", "close"}]
  /\ key \in [Executors -> Keys \cup {NoKey}]
  /\ \A x \in Executors : pc[x] # "idle" => key[x] \in Keys
  /\ ok \in [Executors -> BOOLEAN]
  /\ applied \in [Keys -> Nat]
  /\ confirmed \subseteq Keys
  /\ torn \in BOOLEAN
  /\ overlaps \in Nat /\ calls \in Nat /\ faults \in Nat

Init ==
  /\ journal = << >> /\ eol = TRUE /\ content = << >>
  /\ pc = [x \in Executors |-> "idle"]
  /\ key = [x \in Executors |-> NoKey] /\ ok = [x \in Executors |-> FALSE]
  /\ applied = [k \in Keys |-> 0] /\ confirmed = {}
  /\ torn = FALSE /\ overlaps = 0 /\ calls = 0 /\ faults = 0

-----------------------------------------------------------------------------
(* The journal. *)

(* Fault: the oldest entry of the key is taken. *)
Oldest(k, s) ==
  \E i \in 1..Len(journal) :
    /\ journal[i] = Entry(k, s)
    /\ \A j \in 1..(i - 1) : journal[j].key # k

(* get(k)["status"] = s: the newest line with the key says s.  Lines that  *)
(* do not parse are skipped.                                               *)
Newest(k, s) ==
  \E i \in 1..Len(journal) :
    /\ journal[i] = Entry(k, s)
    /\ \A j \in (i + 1)..Len(journal) : journal[j].key # k

(* append() writes a line at the end of the file, whatever the file ends   *)
(* with: a line without newline takes the new one in, and neither parses.  *)
Extended(l) == IF eol THEN Append(journal, l) ELSE [journal EXCEPT ![Len(journal)] = Junk]

Log(l) == journal' = Extended(l) /\ eol' = TRUE

Goto(x, from, to) == pc[x] = from /\ pc' = [pc EXCEPT ![x] = to]

-----------------------------------------------------------------------------
(* _run_action(). *)

(* A completed action is not executed again: its message is returned. *)
Replay(x, k) ==
  /\ pc[x] = "idle" /\ calls < MaxCalls
  /\ Newest(k, "completed")
  /\ calls' = calls + 1
  /\ confirmed' = confirmed \cup {k}
  /\ UNCHANGED <<durable, local, applied, torn, overlaps, faults>>

(* Fault: the type of the action is missing in mutation_types. *)
AskUnkeyed(x, k) ==
  /\ calls < MaxCalls
  /\ Goto(x, "idle", "mark")
  /\ calls' = calls + 1
  /\ UNCHANGED <<durable, key, ok, history, overlaps, faults>>

(* An action found in flight is executed without a mark of its own. *)
Ask(x, k) ==
  /\ calls < MaxCalls
  /\ ~Newest(k, "completed")
  /\ Goto(x, "idle", IF Newest(k, "in_flight") THEN "work" ELSE "mark")
  /\ key' = [key EXCEPT ![x] = k]
  /\ calls' = calls + 1
  /\ overlaps' = IF \A y \in Executors : pc[y] = "idle" THEN overlaps ELSE overlaps + 1
  /\ UNCHANGED <<durable, ok, history, faults>>

Mark(x) ==
  /\ Goto(x, "mark", "work")
  /\ Log(Entry(key[x], "in_flight"))
  /\ UNCHANGED <<content, key, ok, history, overlaps, calls, faults>>

(* The file tool, then _verify_file_action().  It may fail with or without *)
(* having changed the file.                                                *)
Work(x) ==
  /\ Goto(x, "work", "close")
  /\ \E success \in BOOLEAN :
       /\ ok' = [ok EXCEPT ![x] = success]
       /\ applied' = IF success THEN [applied EXCEPT ![key[x]] = @ + 1] ELSE applied
       /\ \/ content' = IF key[x] \in Overwrites THEN <<key[x]>> ELSE Append(content, key[x])
          \/ ~success /\ UNCHANGED content
  /\ UNCHANGED <<journal, eol, key, confirmed, torn, overlaps, calls, faults>>

(* Fault: every outcome is recorded as completed. *)
CloseCompleted(x) ==
  /\ Goto(x, "close", "idle")
  /\ Log(Entry(key[x], "completed"))
  /\ confirmed' = IF ok[x] THEN confirmed \cup {key[x]} ELSE confirmed
  /\ key' = [key EXCEPT ![x] = NoKey] /\ ok' = [ok EXCEPT ![x] = FALSE]
  /\ UNCHANGED <<content, applied, torn, overlaps, calls, faults>>

(* The outcome is recorded and returned. *)
Close(x) ==
  /\ Goto(x, "close", "idle")
  /\ Log(Entry(key[x], IF ok[x] THEN "completed" ELSE "failed"))
  /\ confirmed' = IF ok[x] THEN confirmed \cup {key[x]} ELSE confirmed
  /\ key' = [key EXCEPT ![x] = NoKey] /\ ok' = [ok EXCEPT ![x] = FALSE]
  /\ UNCHANGED <<content, applied, torn, overlaps, calls, faults>>

-----------------------------------------------------------------------------
(* Faults. *)

Leave(x) ==
  /\ faults < MaxFaults
  /\ faults' = faults + 1
  /\ pc' = [pc EXCEPT ![x] = "idle"]
  /\ key' = [key EXCEPT ![x] = NoKey] /\ ok' = [ok EXCEPT ![x] = FALSE]
  /\ UNCHANGED <<content, applied, confirmed, overlaps, calls>>

(* The process dies, or an exception of the tool, the journal or the event *)
(* stream leaves _run_action().                                            *)
Interrupt(x) ==
  /\ pc[x] # "idle"
  /\ Leave(x)
  /\ UNCHANGED <<journal, eol, torn>>

(* It does so after the outcome is in the journal and before it returns. *)
InterruptReply(x) ==
  /\ pc[x] = "close"
  /\ Leave(x)
  /\ Log(Entry(key[x], IF ok[x] THEN "completed" ELSE "failed"))
  /\ UNCHANGED torn

(* It does so half way through a line: a fragment, or all but the newline, *)
(* is left at the end of the journal.                                      *)
TearLine(x) ==
  /\ pc[x] \in {"mark", "close"}
  /\ Leave(x)
  /\ torn' = TRUE
  /\ eol' = FALSE
  /\ \/ journal' = Extended(Junk)
     \/ journal' = Extended(Entry(key[x], CASE pc[x] = "mark"           -> "in_flight"
                                            [] pc[x] = "close" /\ ok[x]  -> "completed"
                                            [] pc[x] = "close" /\ ~ok[x] -> "failed"))

-----------------------------------------------------------------------------
Next ==
  \E x \in Executors :
    \/ \E k \in Keys : Replay(x, k) \/ Ask(x, k)
    \/ Mark(x) \/ Work(x) \/ Close(x)
    \/ Interrupt(x) \/ InterruptReply(x) \/ TearLine(x)

Spec == Init /\ [][Next]_vars

-----------------------------------------------------------------------------
(* Properties. *)

(* An action the journal reports as completed did succeed once, whatever   *)
(* lines were torn or merged and whoever else runs the same action; so a   *)
(* replay never confirms what nobody did.                                  *)
CompletedWasApplied ==
  \A k \in Keys : Newest(k, "completed") \/ k \in confirmed => applied[k] > 0

Marked(k) == \E j \in 1..Len(journal) : journal[j].key = k

(* The mark comes before the effect: while no line was torn, an action     *)
(* whose effect the file may show has an entry for a later process to find.*)
EffectsAreMarked ==
  ~torn => \A i \in 1..Len(content) : Marked(content[i])

(* What a later process finds in the journal is true both ways: nothing is *)
(* completed that was not done, and nothing may be done that has no entry. *)
JournalIsTrue == CompletedWasApplied /\ EffectsAreMarked

(* Successes of an action beyond the first: the second, the third... *)
Repeated == UNION {{k} \X (2..applied[k]) : k \in Keys}

Repeats == Cardinality(Repeated)

(* An action succeeds again only after a fault or beside another call.  A  *)
(* fault costs at most two repetitions, the interrupted action and one     *)
(* whose outcome is appended to the line the fault left behind; a call     *)
(* that runs beside another one costs at most one.                         *)
RepeatsAreBounded == Repeats <= 2 * faults + overlaps

(* What the safety proofs carry from step to step. *)
IInv ==
  /\ TypeOK
  /\ \A i \in 1..Len(journal) : journal[i].status = "completed" => applied[journal[i].key] > 0
  /\ \A k \in confirmed : applied[k] > 0
  /\ \A x \in Executors : pc[x] = "close" /\ ok[x] => applied[key[x]] > 0
  /\ eol \/ journal # << >>
=============================================================================
