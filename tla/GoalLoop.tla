------------------------------ MODULE GoalLoop ------------------------------
(***************************************************************************)
(* The goal loop of stagewarden/goal_loop_orchestrator.py: run_loop()      *)
(* executes one ready node of a fixed tree at a time, persists a capsule   *)
(* of the node at every checkpoint, delivers a node's result to its        *)
(* parent, and keeps an issue register in the handoff file.  The process   *)
(* may die or be run again at any point; a new orchestrator restores its   *)
(* nodes from the capsules and its register from the handoff.              *)
(*                                                                         *)
(* A capsule holds what the control flow reads back: status, retry count,  *)
(* cycle count and received results.  The gates, the model and the user    *)
(* answer nondeterministically.                                            *)
(***************************************************************************)
EXTENDS Naturals, FiniteSets

CONSTANTS
  Nodes,          \* the nodes of the tree
  NoNode,         \* the parent of the root; no node is being executed
  Parent,         \* Parent[n]: where the result of n goes
  Deps,           \* Deps[n]: the nodes that must be completed before n
  Rank,           \* the sort key (depth, node_id), as one number
  Strict,         \* nodes whose tolerances forbid the output they produce
  MaxRetries,     \* STAGEWARDEN_GOAL_LOOP_MAX_RETRIES
  MaxCycles,      \* cycle_budget["max_cycles"], 20 in the code
  MaxIterations,  \* iterations of one run_loop(), 10 in the code
  MaxRuns,        \* bound: orchestrators started
  MaxFaults       \* bound: crashes, exceptions and lost capsule saves

(* What _validate_tree_invariants() and the sort in _get_ready_nodes()     *)
(* give: dependencies and parents form no cycle, that is, every set of     *)
(* nodes has one that waits for none of the others.                        *)
ASSUME TreeAssumption ==
  /\ NoNode \notin Nodes
  /\ Parent \in [Nodes -> Nodes \cup {NoNode}]
  /\ Deps \in [Nodes -> SUBSET Nodes]
  /\ Rank \in [Nodes -> Nat]
  /\ \A m, n \in Nodes : Rank[m] = Rank[n] => m = n
  /\ \A n \in Nodes : Parent[n] \in Nodes => Rank[Parent[n]] < Rank[n]
  /\ IsFiniteSet(Nodes)
  /\ \A S \in SUBSET Nodes \ {{}} : \E n \in S : (Deps[n] \cup {Parent[n]}) \cap S = {}
  /\ Strict \subseteq Nodes
  /\ {MaxRetries, MaxCycles, MaxIterations, MaxRuns, MaxFaults} \subseteq Nat

-----------------------------------------------------------------------------
VARIABLES
  status,      \* NodeState.status of every node
  retry,       \* NodeState.retry_count
  cycle,       \* NodeState.cycle_id
  inbox,       \* the children whose results are in messages_received
  noted,       \* lessons_recorded and issues_recorded: statuses closed so far
  issues,      \* open entries of a node in the issue and risk registers
  capsule,     \* durable: the execution capsule of every node
  saved,       \* durable: the registers in the handoff file
  pc,          \* where run_loop() is
  cur,         \* the node being executed
  iteration,   \* iterations of this run_loop()
  runs,        \* orchestrators started
  faults,      \* faults so far
  unsaved,     \* nodes that lost a capsule save (history variable)
  executed     \* executions begun per node over all runs (history variable)

nodeVars == <<status, retry, cycle, inbox, noted>>
durable  == <<capsule, unsaved>>
register == <<issues, saved>>
control  == <<pc, cur, iteration, runs>>
vars     == <<nodeVars, durable, register, control, faults, executed>>

Statuses == {"pending", "running", "blocked", "completed"}
Active == {"loop", "gate", "work", "judge", "record", "error", "recordError", "register"}

Capsule ==
  [status : Statuses \cup {"none"}, retry : 0..MaxRetries, cycle : Nat, inbox : SUBSET Nodes]
NoCapsule == [status |-> "none", retry |-> 0, cycle |-> 0, inbox |-> {}]

TypeOK ==
  /\ status \in [Nodes -> Statuses]
  /\ retry \in [Nodes -> 0..MaxRetries]
  /\ cycle \in [Nodes -> Nat]
  /\ inbox \in [Nodes -> SUBSET Nodes]
  /\ noted \in [Nodes -> SUBSET Statuses]
  /\ issues \in [Nodes -> Nat] /\ saved \in [Nodes -> Nat]
  /\ capsule \in [Nodes -> Capsule]
  /\ pc \in Active \cup {"down", "done"}
  /\ cur \in Nodes \cup {NoNode}
  /\ pc \notin {"loop", "down", "done"} => cur \in Nodes
  /\ iteration \in 0..MaxIterations
  /\ runs \in Nat /\ faults \in Nat
  /\ unsaved \subseteq Nodes
  /\ executed \in [Nodes -> Nat]

(* _initialize_nodes(), before the first orchestrator. *)
Init ==
  /\ status = [n \in Nodes |-> "pending"]
  /\ retry = [n \in Nodes |-> 0] /\ cycle = [n \in Nodes |-> 0]
  /\ inbox = [n \in Nodes |-> {}] /\ noted = [n \in Nodes |-> {}]
  /\ issues = [n \in Nodes |-> 0] /\ saved = [n \in Nodes |-> 0]
  /\ capsule = [n \in Nodes |-> NoCapsule]
  /\ pc = "down" /\ cur = NoNode /\ iteration = 0 /\ runs = 0
  /\ faults = 0 /\ unsaved = {} /\ executed = [n \in Nodes |-> 0]

-----------------------------------------------------------------------------
(* Persistence. *)

(* _persist_node_capsule(n) of the new state of n. *)
Save(n) ==
  /\ capsule' = [capsule EXCEPT ![n] =
       [status |-> status'[n], retry |-> retry'[n], cycle |-> cycle'[n], inbox |-> inbox'[n]]]
  /\ UNCHANGED <<unsaved, faults>>

(* _emit_node_event() swallows a failing save and goes on. *)
Emit(n) ==
  \/ Save(n)
  \/ /\ faults < MaxFaults
     /\ faults' = faults + 1
     /\ unsaved' = unsaved \cup {n}
     /\ UNCHANGED capsule

(* _restore_node_capsules(): everything of an open node, but only status   *)
(* and results of a completed one.                                         *)
RestoredStatus(n) ==
  IF capsule[n].status = "none" THEN "pending" ELSE capsule[n].status
Open(n) == capsule[n].status \notin {"none", "completed"}

Start ==
  /\ pc \in {"down", "done"} /\ runs < MaxRuns
  /\ pc' = "loop" /\ cur' = NoNode /\ iteration' = 0 /\ runs' = runs + 1
  /\ status' = [n \in Nodes |-> RestoredStatus(n)]
  /\ retry' = [n \in Nodes |-> IF Open(n) THEN capsule[n].retry ELSE 0]
  /\ cycle' = [n \in Nodes |-> IF Open(n) THEN capsule[n].cycle ELSE 0]
  /\ inbox' = [n \in Nodes |-> capsule[n].inbox]
  /\ noted' = [n \in Nodes |-> {}]
  /\ issues' = saved
  /\ UNCHANGED <<durable, saved, faults, executed>>

-----------------------------------------------------------------------------
(* One iteration of run_loop(). *)

Goto(from, to) == pc = from /\ pc' = to /\ UNCHANGED <<cur, iteration, runs>>

(* Fault: blocked nodes wait for somebody else. *)
ReadyPendingOnly ==
  {n \in Nodes : /\ status[n] = "pending"
                 /\ \A d \in Deps[n] : status[d] = "completed"}

(* _get_ready_nodes(). *)
Ready ==
  {n \in Nodes : /\ status[n] \in {"pending", "blocked"}
                 /\ \A d \in Deps[n] : status[d] = "completed"}

First(n) == n \in Ready /\ \A m \in Ready : Rank[n] <= Rank[m]

Choose(n) ==
  /\ pc = "loop" /\ iteration < MaxIterations
  /\ First(n)
  /\ cur' = n /\ iteration' = iteration + 1
  /\ cycle' = [cycle EXCEPT ![n] = @ + 1]
  /\ UNCHANGED <<runs, retry, inbox, noted, register>>

(* Fault: the cycle budget is not looked at. *)
BeginUnbounded(n) ==
  /\ Choose(n)
  /\ pc' = "gate"
  /\ status' = [status EXCEPT ![n] = "running"]
  /\ executed' = [executed EXCEPT ![n] = @ + 1]
  /\ Emit(n)

(* _execute_node() up to the "start" event. *)
Begin(n) ==
  /\ cycle[n] < MaxCycles
  /\ Choose(n)
  /\ pc' = "gate"
  /\ status' = [status EXCEPT ![n] = "running"]
  /\ executed' = [executed EXCEPT ![n] = @ + 1]
  /\ Emit(n)

(* The node's cycle budget is exhausted. *)
Exhaust(n) ==
  /\ cycle[n] >= MaxCycles
  /\ Choose(n)
  /\ pc' = "record"
  /\ status' = [status EXCEPT ![n] = "blocked"]
  /\ UNCHANGED executed
  /\ Emit(n)

(* _autonomy_gate() lets the node work. *)
Allow ==
  /\ Goto("gate", "work")
  /\ UNCHANGED <<nodeVars, register, executed>>
  /\ Emit(cur)

(* It refuses: nothing of the node is persisted after the refusal. *)
Refuse ==
  /\ Goto("gate", "record")
  /\ status' = [status EXCEPT ![cur] = "blocked"]
  /\ UNCHANGED <<retry, cycle, inbox, noted, durable, register, faults, executed>>

(* Fault: the parent's capsule waits for the parent's next checkpoint. *)
SucceedUnsaved ==
  /\ Goto("work", "judge")
  /\ status' = [status EXCEPT ![cur] = "completed"]
  /\ inbox' = [n \in Nodes |-> IF n = Parent[cur] THEN inbox[n] \cup {cur} ELSE inbox[n]]
  /\ UNCHANGED <<retry, cycle, noted, register, executed, durable, faults>>

(* The work succeeds, and its result is in the parent's inbox and capsule. *)
Succeed ==
  /\ Goto("work", "judge")
  /\ status' = [status EXCEPT ![cur] = "completed"]
  /\ inbox' = [n \in Nodes |-> IF n = Parent[cur] THEN inbox[n] \cup {cur} ELSE inbox[n]]
  /\ UNCHANGED <<retry, cycle, noted, register, executed>>
  /\ IF Parent[cur] = NoNode THEN UNCHANGED <<durable, faults>> ELSE Save(Parent[cur])

Fail ==
  /\ Goto("work", "judge")
  /\ status' = [status EXCEPT ![cur] = "blocked"]
  /\ UNCHANGED <<retry, cycle, inbox, noted, durable, register, faults, executed>>

(* _tolerance_gate(): the verdict on a node that says it is completed. *)
Verdict ==
  IF status[cur] = "completed" /\ cur \in Strict THEN {"completed", "blocked"} ELSE {status[cur]}

(* Fault: the retry ceiling is not looked at. *)
JudgeNoCeiling ==
  /\ Goto("judge", "record")
  /\ \E v \in Verdict :
       IF v = "blocked"
         THEN /\ status' = [status EXCEPT ![cur] = "pending"]
              /\ retry' = [retry EXCEPT ![cur] = @ + 1]
         ELSE /\ status' = [status EXCEPT ![cur] = v]
              /\ UNCHANGED retry
  /\ UNCHANGED <<cycle, inbox, noted, register, executed>>
  /\ Emit(cur)

(* Fault: the result of the execution reaches no capsule. *)
JudgeUnsaved ==
  /\ Goto("judge", "record")
  /\ \E v \in Verdict :
       IF v = "blocked" /\ retry[cur] < MaxRetries
         THEN /\ status' = [status EXCEPT ![cur] = "pending"]
              /\ retry' = [retry EXCEPT ![cur] = @ + 1]
         ELSE /\ status' = [status EXCEPT ![cur] = v]
              /\ UNCHANGED retry
  /\ UNCHANGED <<cycle, inbox, noted, register, executed, durable, faults>>

(* Tolerance gate, retry, and the checkpoint and result events. *)
Judge ==
  /\ Goto("judge", "record")
  /\ \E v \in Verdict :
       IF v = "blocked" /\ retry[cur] < MaxRetries
         THEN /\ status' = [status EXCEPT ![cur] = "pending"]
              /\ retry' = [retry EXCEPT ![cur] = @ + 1]
         ELSE /\ status' = [status EXCEPT ![cur] = v]
              /\ UNCHANGED retry
  /\ UNCHANGED <<cycle, inbox, noted, register, executed>>
  /\ Emit(cur)

(* _record_node_execution_to_handoff(), to the end of its writes. *)
Record ==
  /\ \/ Goto("record", "register")
     \/ Goto("recordError", "register")
  /\ saved' = issues
  /\ UNCHANGED <<nodeVars, durable, issues, faults, executed>>

(* Fault: a completed node leaves its issue as it is. *)
RegisterNeverCloses ==
  /\ pc = "register"
  /\ pc' = "loop" /\ cur' = NoNode /\ UNCHANGED <<iteration, runs>>
  /\ IF status[cur] \in {"blocked", "completed"} \ noted[cur]
       THEN /\ noted' = [noted EXCEPT ![cur] = @ \cup {status[cur]}]
            /\ issues' = [issues EXCEPT ![cur] = IF status[cur] = "blocked" THEN @ + 1 ELSE @]
       ELSE UNCHANGED <<noted, issues>>
  /\ UNCHANGED <<status, retry, cycle, inbox, durable, saved, faults, executed>>

(* _record_node_lesson(), _issue() and _risk(): in memory only, until the  *)
(* next save of the handoff.                                               *)
Register ==
  /\ pc = "register"
  /\ pc' = "loop" /\ cur' = NoNode /\ UNCHANGED <<iteration, runs>>
  /\ IF status[cur] \in {"blocked", "completed"} \ noted[cur]
       THEN /\ noted' = [noted EXCEPT ![cur] = @ \cup {status[cur]}]
            /\ issues' = [issues EXCEPT ![cur] = IF status[cur] = "blocked" THEN @ + 1 ELSE 0]
       ELSE UNCHANGED <<noted, issues>>
  /\ UNCHANGED <<status, retry, cycle, inbox, durable, saved, faults, executed>>

(* run_loop() catches the exception: the "error" event of a blocked node.  *)
ReportError ==
  /\ Goto("error", "recordError")
  /\ UNCHANGED <<nodeVars, register, executed>>
  /\ Emit(cur)

(* Fault: the loop ends only when every node is completed. *)
FinishCompleted ==
  /\ Goto("loop", "done")
  /\ \A n \in Nodes : status[n] = "completed"
  /\ saved' = issues
  /\ UNCHANGED <<nodeVars, durable, issues, faults, executed>>

(* The loop is over: all completed, stalled, or out of iterations. *)
Finish ==
  /\ Goto("loop", "done")
  /\ iteration = MaxIterations \/ Ready = {}
  /\ saved' = issues
  /\ UNCHANGED <<nodeVars, durable, issues, faults, executed>>

-----------------------------------------------------------------------------
(* Faults. *)

(* An exception in _execute_node(): a refused event, a database or a file  *)
(* error, before or after the handoff is saved.                            *)
Raise ==
  /\ faults < MaxFaults
  /\ faults' = faults + 1
  /\ \E from \in {"gate", "work", "record"} : Goto(from, "error")
  /\ status' = [status EXCEPT ![cur] = "blocked"]
  /\ \/ UNCHANGED saved
     \/ pc = "record" /\ saved' = issues
  /\ UNCHANGED <<retry, cycle, inbox, noted, issues, durable, executed>>

(* The save of the parent's capsule fails after the result reached its     *)
(* inbox in memory.                                                        *)
RaiseInDelivery ==
  /\ faults < MaxFaults
  /\ faults' = faults + 1
  /\ Goto("work", "error")
  /\ Parent[cur] # NoNode
  /\ status' = [status EXCEPT ![cur] = "blocked"]
  /\ inbox' = [inbox EXCEPT ![Parent[cur]] = @ \cup {cur}]
  /\ UNCHANGED <<retry, cycle, noted, register, durable, executed>>

(* The process dies, or an exception outside _execute_node() ends it. *)
Crash ==
  /\ pc \in Active /\ faults < MaxFaults
  /\ faults' = faults + 1
  /\ pc' = "down"
  /\ UNCHANGED <<nodeVars, durable, register, cur, iteration, runs, executed>>

-----------------------------------------------------------------------------
Step ==
  \/ \E n \in Nodes : Begin(n) \/ Exhaust(n)
  \/ Allow \/ Refuse \/ Succeed \/ Fail \/ Judge
  \/ Record \/ Register \/ ReportError \/ Finish

Next == Start \/ Step \/ Raise \/ RaiseInDelivery \/ Crash

Spec == Init /\ [][Next]_vars

(* The process that runs the loop is scheduled, and every call it makes    *)
(* returns: the model is called with a timeout, and a question to the user *)
(* is taken to be answered.                                                *)
FairSpec == Spec /\ WF_vars(Step)

-----------------------------------------------------------------------------
(* Properties. *)

(* A node is completed only while everything it depends on is, over every  *)
(* restart, retry and exception; only a dependency that lost a capsule     *)
(* save, which _emit_node_event() swallows, may be forgotten.              *)
CompletedAfterDeps ==
  \A n \in Nodes : status[n] = "completed" =>
    \A d \in Deps[n] \ unsaved : status[d] = "completed"

(* The result of a completed node is in its parent's inbox, also after a   *)
(* restart between the parent's capsule and the child's, and whatever      *)
(* saves were lost.                                                        *)
EvidenceReachesParent ==
  \A n \in Nodes : status[n] = "completed" /\ Parent[n] # NoNode => n \in inbox[Parent[n]]

(* A completed node stands between what it was made from and who relies on *)
(* it: its dependencies are completed and its parent holds its result.     *)
CompletedIsBacked == CompletedAfterDeps /\ EvidenceReachesParent

Settled(n) == n # cur \/ pc \in {"loop", "done"}

(* Once the loop has moved on from a completed node, no retry, exception,  *)
(* crash or restart makes it anything else, unless a save of it was lost.  *)
CompletedIsFinal ==
  [][\A n \in Nodes \ unsaved : status[n] = "completed" /\ Settled(n) => status'[n] = "completed"]_vars

(* The cycle budget bounds the executions of a node over all runs, though  *)
(* the count is lost with every process and read back from a capsule.      *)
BudgetHolds == \A n \in Nodes \ unsaved : executed[n] <= MaxCycles

Incomplete == \E n \in Nodes : status[n] # "completed"

(* The first run of a task never stalls: as long as work is left there is  *)
(* a ready node, so it ends with everything completed or no iterations.    *)
StallNeedsRestart == pc = "done" /\ Incomplete /\ iteration < MaxIterations => runs > 1

(* A run adds at most one open issue to a node, though it forgets with the  *)
(* process what it has recorded. Between the iterations of a first run, and *)
(* of every run as long as nothing failed, the register agrees with the     *)
(* nodes: an issue is open for a blocked node, and none for a completed one.*)
RegisterTracksNodes ==
  \A n \in Nodes :
    /\ issues[n] <= runs
    /\ pc \in {"loop", "done"} /\ (runs = 1 \/ faults = 0) =>
         /\ status[n] = "blocked" => issues[n] > 0
         /\ status[n] = "completed" => issues[n] = 0

(* A run ends, however its nodes fail, block and are tried again.          *)
RunEnds == pc = "loop" ~> pc \in {"done", "down"}

(* What the safety proofs carry from step to step. *)
Busy == pc \notin {"loop", "done", "down"}
Current(n) == n # cur \/ pc \notin {"judge", "error", "down"}

(* Memory and capsules agree on who is completed, where nothing was lost.  *)
Agreement ==
  /\ \A n \in Nodes : capsule[n].inbox \subseteq inbox[n]
  /\ \A n \in Nodes \ unsaved :
       Current(n) => (status[n] = "completed" <=> capsule[n].status = "completed")

(* The two properties of completed nodes, of the capsules.                 *)
DurableOrder ==
  \A n \in Nodes : capsule[n].status = "completed" =>
    \A d \in Deps[n] \ unsaved : capsule[d].status = "completed"

DurableEvidence ==
  \A n \in Nodes :
    /\ status[n] = "completed" \/ capsule[n].status = "completed"
    /\ Parent[n] # NoNode
    => n \in capsule[Parent[n]].inbox

(* The node being executed comes after its dependencies and before every   *)
(* node that depends on it.                                                *)
CurrentNode ==
  Busy =>
    /\ \A d \in Deps[cur] : d # cur /\ status[d] = "completed"
    /\ cur \notin unsaved => \A m \in Nodes : cur \in Deps[m] =>
         status[m] # "completed" /\ capsule[m].status # "completed"
    /\ pc \in {"gate", "work"} => status[cur] = "running"
    /\ pc = "error" => status[cur] = "blocked"

Counted(n) ==
  /\ executed[n] <= MaxCycles
  /\ status[n] # "completed" \/ (Busy /\ n = cur) => executed[n] <= cycle[n]
  /\ capsule[n].status # "completed" => executed[n] <= capsule[n].cycle
  /\ capsule[n].status = "none" => executed[n] = 0

IInv ==
  /\ TypeOK /\ CompletedAfterDeps
  /\ Agreement /\ DurableOrder /\ DurableEvidence /\ CurrentNode
  /\ \A n \in Nodes \ unsaved : Counted(n)

(* In the first run only the node being executed is "running", and nothing *)
(* is remembered of an earlier one.                                        *)
FirstRun ==
  /\ runs = 0 =>
       pc = "down" /\ \A n \in Nodes : capsule[n].status = "none" /\ saved[n] = 0
  /\ runs = 1 /\ pc # "down" =>
       \A n \in Nodes : status[n] = "running" => n = cur /\ pc \in {"gate", "work"}

(* Not being executed: the register has caught up with the node.           *)
Idle(n) == pc # "down" /\ (Busy => n # cur)

(* What was recorded of a node in this process, and what that says of it.  *)
NotedInv ==
  \A n \in Nodes :
    /\ "completed" \in noted[n] =>
         status[n] = "completed" /\ issues[n] = 0 /\ (Busy => n # cur)
    /\ noted[n] \cap {"blocked", "completed"} = {"blocked"} => issues[n] > 0
    /\ saved[n] <= runs /\ issues[n] <= runs
    /\ runs > 0 /\ "blocked" \notin noted[n] => issues[n] < runs

RegisterInv ==
  /\ NotedInv
  /\ pc = "done" => saved = issues
  /\ pc = "down" /\ runs > 0 => faults > 0
  /\ runs = 1 \/ faults = 0 =>
       \A n \in Nodes : Idle(n) =>
         /\ status[n] = "blocked" => issues[n] > 0
         /\ status[n] = "completed" => issues[n] = 0
  /\ faults = 0 =>
       /\ \A n \in Nodes : Idle(n) =>
            /\ capsule[n].status = "blocked" => issues[n] > 0
            /\ capsule[n].status = "completed" => issues[n] = 0
       /\ Busy => pc # "error" /\ capsule[cur].status \in {status[cur], "running"}

(* The invariant behind StallNeedsRestart and RegisterTracksNodes.         *)
ReportInv == FirstRun /\ StallNeedsRestart /\ RegisterInv

(* "a later orchestrator can resume": a run that ends early has finished   *)
(* every node.                                                             *)
ResumedRunFinishes == pc = "done" /\ Incomplete => iteration = MaxIterations
=============================================================================
