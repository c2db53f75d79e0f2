--------------------------- MODULE ToolOperations ---------------------------
(***************************************************************************)
(* The journal of running shell operations of stagewarden/executor.py: an  *)
(* operation is entered into a JSON file before its command runs and taken *)
(* out after its result is in the event stream; the constructor of an      *)
(* executor reports what it finds there as interrupted and empties it.     *)
(* The file is read, changed and written through a temporary file of one   *)
(* name, without a lock, by the executors of any number of processes.      *)
(*                                                                         *)
(* A write of the temporary file is one step: the file is small, and only  *)
(* os.replace() makes it visible.                                          *)
(***************************************************************************)
EXTENDS Naturals

CONSTANTS
  Executors,   \* executors, one per process; each may be constructed again
  Ops,         \* operation ids, each drawn once
  NoOp,        \* no operation
  Absent,      \* the temporary file does not exist
  MaxFaults    \* bound: crashes, exceptions and failing reads

ASSUME OperationAssumption ==
  /\ NoOp \notin Ops
  /\ MaxFaults \in Nat

VARIABLES
  file,       \* durable: the operations in tool_operations.json
  temp,       \* durable: its temporary file
  inFlight,   \* durable: replay()["in_flight_tools"] of the event stream
  resulted,   \* durable: operations with a tool_result event
  recovered,  \* durable: operations with a tool_recovery event
  pc,         \* where each executor is
  phase,      \* what it writes the file for
  mem,        \* the operations it has read
  op,         \* its current operation
  ran,        \* operations whose command was started (history variable)
  sound,      \* executors have run one at a time, and every read of the file
              \*   has succeeded (history variable)
  faults      \* faults so far

files  == <<file, temp>>
events == <<inFlight, resulted, recovered>>
local  == <<pc, phase, mem, op>>
vars   == <<files, events, local, ran, sound, faults>>

TypeOK ==
  /\ file \subseteq Ops /\ (temp = Absent \/ temp \subseteq Ops)
  /\ inFlight \subseteq Ops /\ resulted \subseteq Ops /\ recovered \subseteq Ops
  /\ pc \in [Executors ->
       {"down", "recover", "idle", "write", "replace", "announce", "run", "result", "finish"}]
  /\ phase \in [Executors -> {"recover", "start", "finish"}]
  /\ mem \in [Executors -> SUBSET Ops]
  /\ op \in [Executors -> Ops \cup {NoOp}]
  /\ \A x \in Executors :
       \/ pc[x] \in {"announce", "run", "result", "finish"}
       \/ pc[x] \in {"write", "replace"} /\ phase[x] # "recover"
       => op[x] \in Ops
  /\ \A x \in Executors : pc[x] = "recover" => phase[x] = "recover"
  /\ ran \subseteq Ops /\ sound \in BOOLEAN /\ faults \in Nat

Init ==
  /\ file = {} /\ temp = Absent
  /\ inFlight = {} /\ resulted = {} /\ recovered = {}
  /\ pc = [x \in Executors |-> "down"] /\ phase = [x \in Executors |-> "recover"]
  /\ mem = [x \in Executors |-> {}] /\ op = [x \in Executors |-> NoOp]
  /\ ran = {} /\ sound = TRUE /\ faults = 0

-----------------------------------------------------------------------------
Goto(x, from, to) == pc[x] = from /\ pc' = [pc EXCEPT ![x] = to]

OnlyOneUp(x) == \A y \in Executors \ {x} : pc[y] = "down"

(* _read_tool_operations(): an unreadable file counts as an empty one. *)
Read(x, found) ==
  \/ found = file /\ UNCHANGED faults /\ sound' = (sound /\ OnlyOneUp(x))
  \/ /\ found = {} /\ file # {}
     /\ faults < MaxFaults
     /\ faults' = faults + 1 /\ sound' = FALSE

(* _write_tool_operations(), after what the caller has put into mem. *)
WriteTemp(x) ==
  /\ Goto(x, "write", "replace")
  /\ temp' = mem[x]
  /\ UNCHANGED <<file, events, phase, mem, op, ran, sound, faults>>

(* Fault: _start_tool_operation() does not return the id. *)
ReplaceForgets(x) ==
  /\ temp # Absent
  /\ Goto(x, "replace", IF phase[x] = "start" THEN "announce" ELSE "idle")
  /\ file' = temp /\ temp' = Absent
  /\ mem' = [mem EXCEPT ![x] = {}]
  /\ op' = [op EXCEPT ![x] = NoOp]
  /\ UNCHANGED <<events, phase, ran, sound, faults>>

Replace(x) ==
  /\ temp # Absent
  /\ Goto(x, "replace", IF phase[x] = "start" THEN "announce" ELSE "idle")
  /\ file' = temp /\ temp' = Absent
  /\ mem' = [mem EXCEPT ![x] = {}]
  /\ op' = IF phase[x] = "start" THEN op ELSE [op EXCEPT ![x] = NoOp]
  /\ UNCHANGED <<events, phase, ran, sound, faults>>

(* Fault: the replacement is tried until the temporary file is there. *)
ReplaceWaits(x) == temp = Absent /\ pc[x] = "replace" /\ UNCHANGED vars

(* Somebody else has replaced the file with this temporary file. *)
ReplaceFails(x) ==
  /\ temp = Absent
  /\ Goto(x, "replace", IF phase[x] = "recover" THEN "down" ELSE "idle")
  /\ mem' = [mem EXCEPT ![x] = {}]
  /\ op' = [op EXCEPT ![x] = NoOp]
  /\ UNCHANGED <<files, events, phase, ran, sound, faults>>

-----------------------------------------------------------------------------
(* _recover_interrupted_tool_operations(), called by the constructor. *)

Construct(x) ==
  /\ \E found \in SUBSET Ops :
       /\ Read(x, found)
       /\ mem' = [mem EXCEPT ![x] = found]
       /\ Goto(x, "down", IF found = {} THEN "idle" ELSE "recover")
  /\ phase' = [phase EXCEPT ![x] = "recover"]
  /\ UNCHANGED <<files, events, op, ran>>

Recover(x, o) ==
  /\ Goto(x, "recover", IF mem[x] = {o} THEN "write" ELSE "recover")
  /\ o \in mem[x]
  /\ mem' = [mem EXCEPT ![x] = @ \ {o}]
  /\ recovered' = recovered \cup {o}
  /\ inFlight' = inFlight \ {o}
  /\ UNCHANGED <<files, resulted, phase, op, ran, sound, faults>>

-----------------------------------------------------------------------------
(* A shell action of _run_action(). *)

Used == file \cup ran \cup inFlight \cup resulted \cup recovered
        \cup {op[x] : x \in Executors} \cup UNION {mem[x] : x \in Executors}

(* _start_tool_operation(): read, add a new id, write. *)
Start(x, o) ==
  /\ o \notin Used
  /\ Goto(x, "idle", "write")
  /\ \E found \in SUBSET Ops :
       /\ Read(x, found)
       /\ mem' = [mem EXCEPT ![x] = found \cup {o}]
  /\ op' = [op EXCEPT ![x] = o]
  /\ phase' = [phase EXCEPT ![x] = "start"]
  /\ UNCHANGED <<files, events, ran>>

Announce(x) ==
  /\ Goto(x, "announce", "run")
  /\ inFlight' = inFlight \cup {op[x]}
  /\ UNCHANGED <<files, resulted, recovered, phase, mem, op, ran, sound, faults>>

Run(x) ==
  /\ Goto(x, "run", "result")
  /\ ran' = ran \cup {op[x]}
  /\ UNCHANGED <<files, events, phase, mem, op, sound, faults>>

(* _record_tool_transcript(). *)
Result(x) ==
  /\ Goto(x, "result", "finish")
  /\ resulted' = resulted \cup {op[x]}
  /\ inFlight' = inFlight \ {op[x]}
  /\ UNCHANGED <<files, recovered, phase, mem, op, ran, sound, faults>>

(* Fault: the whole journal is emptied, as recovery does. *)
FinishAll(x) ==
  /\ Goto(x, "finish", "write")
  /\ mem' = [mem EXCEPT ![x] = {}]
  /\ phase' = [phase EXCEPT ![x] = "finish"]
  /\ UNCHANGED <<files, events, op, ran, sound, faults>>

(* _complete_tool_operation(): read, take the id out, write. *)
Finish(x) ==
  /\ Goto(x, "finish", "write")
  /\ \E found \in SUBSET Ops :
       /\ Read(x, found)
       /\ mem' = [mem EXCEPT ![x] = found \ {op[x]}]
  /\ phase' = [phase EXCEPT ![x] = "finish"]
  /\ UNCHANGED <<files, events, op, ran>>

-----------------------------------------------------------------------------
(* Faults. *)

(* An exception of a file, of the event stream or of the shell: an         *)
(* executor goes on with its next action, a constructor fails.             *)
Raise(x) ==
  /\ faults < MaxFaults
  /\ faults' = faults + 1
  /\ pc[x] \notin {"down", "idle"}
  /\ pc' = [pc EXCEPT ![x] =
       IF pc[x] = "recover" \/ (pc[x] \in {"write", "replace"} /\ phase[x] = "recover")
         THEN "down" ELSE "idle"]
  /\ mem' = [mem EXCEPT ![x] = {}] /\ op' = [op EXCEPT ![x] = NoOp]
  /\ UNCHANGED <<files, events, phase, ran, sound>>

Crash(x) ==
  /\ faults < MaxFaults
  /\ faults' = faults + 1
  /\ pc[x] # "down"
  /\ pc' = [pc EXCEPT ![x] = "down"]
  /\ mem' = [mem EXCEPT ![x] = {}] /\ op' = [op EXCEPT ![x] = NoOp]
  /\ UNCHANGED <<files, events, phase, ran, sound>>

-----------------------------------------------------------------------------
(* What an executor does once it is called, and everything that may happen. *)
Step(x) ==
  \/ WriteTemp(x) \/ Replace(x) \/ ReplaceFails(x)
  \/ \E o \in Ops : Recover(x, o)
  \/ Announce(x) \/ Run(x) \/ Result(x) \/ Finish(x)

Next ==
  \E x \in Executors :
    \/ Construct(x) \/ \E o \in Ops : Start(x, o)
    \/ Step(x)
    \/ Raise(x) \/ Crash(x)

Spec == Init /\ [][Next]_vars

(* A running executor is scheduled, and its shell commands end: the shell  *)
(* tool runs them with a timeout.                                          *)
FairSpec == Spec /\ \A x \in Executors : WF_vars(Step(x))

-----------------------------------------------------------------------------
(* Properties. *)

(* Executors that run one after the other, each perhaps cut off by a crash: *)
(* what replay() shows as running is in the journal, so that a restart     *)
(* closes it: the file is written before the event of a start and after    *)
(* the event of a result.                                                  *)
EventsFollowJournal == sound => inFlight \subseteq file

(* Of those executors no command disappears: one without result is being   *)
(* run, in the journal for the next constructor, or reported.              *)
NothingDisappears ==
  sound => ran \subseteq file \cup resulted \cup recovered

(* A constructor leaves replay() without running tools. *)
RestartIsClean ==
  sound => \A x \in Executors :
    pc[x] = "replace" /\ phase[x] = "recover" => inFlight = {}

(* Of executors that run one after the other every started command is      *)
(* accounted for at every crash point: journal, events and the next        *)
(* constructor agree about it.                                             *)
CommandsAccounted == EventsFollowJournal /\ NothingDisappears /\ RestartIsClean

(* A construction or an action ends, whatever other executors do to the    *)
(* two files in the meantime: nobody waits for anybody.                    *)
ActionsEnd ==
  \A x \in Executors : pc[x] \notin {"idle", "down"} ~> pc[x] \in {"idle", "down"}

(* What the safety proof carries from step to step. *)
Content(x) ==
  CASE phase[x] = "recover" -> {}
    [] phase[x] = "start"   -> file \cup {op[x]}
    [] phase[x] = "finish"  -> file \ {op[x]}

ExecutorInv(x) ==
  /\ pc[x] = "recover" => file \subseteq mem[x] \cup recovered /\ inFlight \subseteq mem[x]
  /\ pc[x] \in {"write", "replace"} =>
       /\ mem[x] = Content(x)
       /\ phase[x] = "recover" => inFlight = {} /\ file \subseteq recovered
       /\ phase[x] = "finish" => op[x] \notin inFlight /\ op[x] \in resulted
  /\ pc[x] = "replace" => temp = mem[x]
  /\ pc[x] \in {"announce", "run", "result"} => op[x] \in file
  /\ pc[x] = "finish" => op[x] \in resulted /\ op[x] \notin inFlight

IInv ==
  /\ EventsFollowJournal /\ NothingDisappears
  /\ sound => \A x \in Executors : ExecutorInv(x) /\ (pc[x] # "down" => OnlyOneUp(x))
=============================================================================
