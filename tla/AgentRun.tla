------------------------------ MODULE AgentRun ------------------------------
(***************************************************************************)
(* The run loop of stagewarden/agent.py over one task: the plan that       *)
(* planner.py rebuilds from the handoff, the steps, the recovery steps     *)
(* after an exception, the checkpoint steps after a failed completion      *)
(* gate, suspension and resume, and what crashes leave on the disk. The    *)
(* handoff (project_handoff.py) and the memory (memory.py) are two files   *)
(* that are saved one after the other.                                     *)
(*                                                                         *)
(* Work is done by StepExecutor; here a step returns one of Returned.      *)
(***************************************************************************)
EXTENDS StepOutcome, Naturals, Sequences, SequencesExt

CONSTANTS
  Steps,           \* how many work packages the task has
  Recoveries,      \* how many actions an exception plan has (3 in the code)
  MaxCheckpoints,  \* bound: checkpoint recovery steps in a plan
  Returned,        \* what a step may return
  MaxSteps,        \* config.max_steps
  MaxRetries,      \* config.max_retries_per_step
  MaxRuns,         \* bound: calls of run(), over all processes
  MaxFaults        \* bound: crashes

Work == {"step"} \X (1..Steps)
Lane == {"recovery"} \X (1..Recoveries)
Checkpoints == {"checkpoint"} \X (1..MaxCheckpoints)
Archive == <<"archive", 1>>
NoStep == <<"none", 0>>
Ids == Work \cup Lane \cup Checkpoints \cup {Archive}

ASSUME RunAssumption ==
  /\ Steps \in Nat \ {0} /\ Recoveries \in Nat \ {0} /\ MaxCheckpoints \in Nat
  /\ MaxSteps \in Nat \ {0} /\ MaxRetries \in Nat
  /\ MaxRuns \in Nat /\ MaxFaults \in Nat
  /\ Returned \subseteq Outcomes

VARIABLES
  pc,         \* "down", "loop", "executing", then what is saved next
  plan,       \* the plan of the process: the order of its steps, their statuses
  ho,         \* the handoff of the process
  mem,        \* its attempt memory
  iter,       \* iterations of the loop so far
  disk,       \* durable: the handoff file
  diskMem,    \* durable: the memory file
  result,     \* what the current step has returned
  runs,       \* calls of run() so far
  faults,     \* crashes so far
  torn,       \* a crash has torn a file (history variable)
  done,       \* steps some run has completed (history variable)
  recovered,  \* failed steps completed behind a whole lane (history variable)
  owed,       \* blocked steps of this run whose checkpoint step is not done (history variable)
  reopened    \* an answer has set a closed task going again (history variable)

process == <<plan, ho, mem, iter, result>>
durable == <<disk, diskMem>>
history == <<torn, done, recovered, owed, reopened>>
vars == <<pc, process, durable, runs, faults, history>>

Statuses == {"absent", "planned", "ready", "in_progress", "completed", "failed"}
Plans == [ids: Seq(Ids), st: [Ids -> Statuses]]
Handoffs ==
  [status: {"idle", "planned", "executing", "waiting", "exception", "closed"},
   st: [Ids -> Statuses],          \* plan_status
   current: Ids \cup {NoStep},     \* current_step_id
   currentStatus: Statuses \cup {"pending", "waiting", "exception"},
   gate: BOOLEAN,                  \* latest_observation tells of a failed completion gate
   exceptionPlan: BOOLEAN,         \* exception_plan is not empty
   issues: SUBSET Ids,             \* steps with an open issue
   checkpoint: BOOLEAN,            \* a product_checkpoint is among the entries
   question: BOOLEAN]              \* user_question is pending
\* The attempts of a step: how many of the last ones have one signature, the
\* failures as far as they are compared, and how the last one ended.
Memories ==
  [repeats: [Ids -> 0..3], fails: [Ids -> 0..MaxRetries], last: [Ids -> {"none", "failed", "succeeded"}]]

NoPlan == [ids |-> <<>>, st |-> [i \in Ids |-> "absent"]]
NoHandoff ==
  [status |-> "idle", st |-> [i \in Ids |-> "absent"], current |-> NoStep,
   currentStatus |-> "pending", gate |-> FALSE, exceptionPlan |-> FALSE,
   issues |-> {}, checkpoint |-> FALSE, question |-> FALSE]
NoMemory ==
  [repeats |-> [i \in Ids |-> 0], fails |-> [i \in Ids |-> 0], last |-> [i \in Ids |-> "none"]]
NoResult ==
  [ok |-> TRUE, completed |-> FALSE, error |-> "none", model |-> "local", attempt |-> "succeeded"]

\* No plan names a step twice, and its statuses are those of its steps.
WellFormed(p) ==
  /\ p \in Plans
  /\ \A i, j \in DOMAIN p.ids : p.ids[i] = p.ids[j] => i = j
  /\ \A i \in Ids : p.st[i] # "absent" <=> i \in ToSet(p.ids)

TypeOK ==
  /\ pc \in {"down", "loop", "executing", "memory", "handoff"}
  /\ ho \in Handoffs /\ mem \in Memories /\ iter \in Nat
  /\ disk \in Handoffs /\ diskMem \in Memories
  /\ result \in Outcomes /\ runs \in Nat /\ faults \in Nat /\ torn \in BOOLEAN
  /\ done \subseteq Ids /\ recovered \subseteq Ids
  /\ owed \subseteq Ids /\ reopened \in BOOLEAN
  /\ WellFormed(plan)

-----------------------------------------------------------------------------
(* Plans. *)

Positions(p, S) == {i \in DOMAIN p.ids : p.st[p.ids[i]] \in S}
FirstOf(p, S) == p.ids[CHOOSE i \in Positions(p, S) : \A j \in Positions(p, S) : i <= j]
Some(p, S) == Positions(p, S) # {}
Set(p, i, status) == [p EXCEPT !.st[i] = status]
AllCompleted(p) == ~Some(p, Statuses \ {"completed"})

Promote(p) ==
  IF ~Some(p, {"ready", "in_progress"}) /\ Some(p, {"planned"})
    THEN Set(p, FirstOf(p, {"planned"}), "ready") ELSE p

PlaceBefore(p, i, new, status) ==
  [ids |-> InsertAt(p.ids, CHOOSE k \in DOMAIN p.ids : p.ids[k] = i, new),
   st |-> [p.st EXCEPT ![new] = status]]

\* The recovery lane of an exception stands behind the step it was raised in,
\* or at the end when the plan has no such step.
NeedsLane(h) ==
  /\ h.status = "exception" /\ h.exceptionPlan
  /\ \/ \E i \in Ids : h.st[i] = "failed"
     \/ h.currentStatus \in {"failed", "exception"}

PlanOrder(h) ==
  LET work == [n \in 1..Steps |-> <<"step", n>>]
      lane == [n \in 1..Recoveries |-> <<"recovery", n>>]
      place == IF h.current \in Work THEN h.current[2] ELSE Steps
  IN IF NeedsLane(h) THEN SubSeq(work, 1, place) \o lane \o SubSeq(work, place + 1, Steps)
     ELSE work

\* The statuses of plan_status are kept, whatever the status of the run.
Restored(h) ==
  LET order == PlanOrder(h)
  IN [ids |-> order,
      st |-> [i \in Ids |-> IF i \notin ToSet(order) THEN "absent"
                            ELSE IF h.st[i] = "absent" THEN "planned" ELSE h.st[i]]]

WithCheckpoint(p, h) ==
  IF h.gate /\ h.checkpoint /\ h.current \in ToSet(p.ids) /\ MaxCheckpoints > 0
    THEN PlaceBefore(IF p.st[h.current] \in {"ready", "in_progress"}
                       THEN Set(p, h.current, "planned") ELSE p,
                     h.current, <<"checkpoint", 1>>, "ready")
    ELSE p

\* Two or more completed steps at the front become one archive step.
Compressed(p) ==
  LET open == Positions(p, Statuses \ {"completed"})
      prefix == {i \in DOMAIN p.ids : \A k \in open : i < k}
      closed == {p.ids[i] : i \in prefix}
      first == IF open = {} THEN Len(p.ids) + 1 ELSE CHOOSE i \in open : \A k \in open : i <= k
  IN IF first <= 2 THEN p
     ELSE [ids |-> <<Archive>> \o SubSeq(p.ids, first, Len(p.ids)),
           st |-> [i \in Ids |-> IF i = Archive THEN "completed"
                                 ELSE IF i \in closed THEN "absent" ELSE p.st[i]]]

CreatePlan(h) == Compressed(Promote(WithCheckpoint(Restored(h), h)))

-----------------------------------------------------------------------------
Init ==
  /\ pc = "down" /\ plan = NoPlan /\ ho = NoHandoff /\ mem = NoMemory /\ iter = 0
  /\ disk = NoHandoff /\ diskMem = NoMemory /\ result = NoResult
  /\ runs = 0 /\ faults = 0 /\ torn = FALSE
  /\ done = {} /\ recovered = {} /\ owed = {} /\ reopened = FALSE

\* close_issues_for_step() and clear_exception_plan_if_recovered()
WithoutIssue(h, closed) ==
  [h EXCEPT !.issues = @ \ closed,
            !.exceptionPlan = @ /\ h.issues \ closed # {}]

Resumable(h) == h.status \in {"planned", "executing", "waiting", "exception"}

\* A new run is started and planned, or the old one is taken up.
Opened(h) ==
  IF Resumable(h) THEN h
  ELSE [h EXCEPT !.status = "planned", !.st = CreatePlan(h).st, !.current = NoStep,
                 !.currentStatus = "pending", !.gate = FALSE]

\* run() of a task that the assessment lets through: the plan is made and the
\* handoff is saved.
Begin ==
  /\ pc = "down" /\ runs < MaxRuns
  /\ pc' = "loop" /\ runs' = runs + 1 /\ iter' = 0
  /\ plan' = CreatePlan(disk) /\ mem' = diskMem
  /\ ho' = Opened(disk) /\ disk' = ho' /\ owed' = {}
  /\ UNCHANGED <<diskMem, result, faults, torn, done, recovered, reopened>>

\* close_run(); the registers are only finished when the loop finds nothing to do.
Closed(h, p, success, finished) ==
  LET f == IF success /\ finished THEN WithoutIssue(h, Ids) ELSE h
  IN [f EXCEPT !.status = IF success THEN "closed" ELSE "exception",
               !.st = p.st,
               !.currentStatus = IF success THEN "completed" ELSE "exception",
               !.gate = FALSE,
               !.exceptionPlan = @ \/ ~success]

\* The assessment rejects the task.
Reject ==
  /\ pc = "down" /\ runs < MaxRuns /\ runs' = runs + 1
  /\ disk' = Closed(Opened(disk), CreatePlan(disk), FALSE, FALSE)
  /\ UNCHANGED <<pc, process, diskMem, faults, history>>

\* The assessment wants something clarified: the user is asked.
Clarify ==
  /\ pc = "down" /\ runs < MaxRuns /\ runs' = runs + 1
  /\ disk' = [Opened(disk) EXCEPT !.status = "waiting", !.currentStatus = "waiting",
                                  !.gate = FALSE, !.question = TRUE]
  /\ UNCHANGED <<pc, process, diskMem, faults, history>>

\* answer_user_question(), which does not look at the status of the run.
Answer ==
  /\ pc = "down" /\ disk.question
  /\ disk' = [disk EXCEPT !.status = "executing", !.gate = FALSE, !.question = FALSE,
                          !.currentStatus = IF @ = "waiting" THEN "in_progress" ELSE @]
  /\ reopened' = (reopened \/ disk.status = "closed")
  /\ UNCHANGED <<pc, process, diskMem, runs, faults, torn, done, recovered, owed>>

Current == FirstOf(plan, {"ready", "in_progress"})
Pending == Some(plan, {"ready", "in_progress"})
Repeated(i) == mem.repeats[i] >= 3

Began(h, i, status) ==
  [h EXCEPT !.status = "executing", !.current = i, !.currentStatus = status]

StartStep ==
  /\ pc = "loop" /\ iter < MaxSteps /\ Pending /\ ~Repeated(Current)
  /\ pc' = "executing" /\ iter' = iter + 1
  /\ plan' = Set(plan, Current, "in_progress")
  /\ ho' = Began(ho, Current, "in_progress")
  /\ disk' = ho'
  /\ UNCHANGED <<mem, result, diskMem, runs, faults, torn, done, recovered, owed, reopened>>

AbortStep ==
  /\ pc = "loop" /\ iter < MaxSteps /\ Pending /\ Repeated(Current)
  /\ iter' = iter + 1
  /\ plan' = Set(plan, Current, "failed")
  /\ ho' = [Began(ho, Current, "failed") EXCEPT !.issues = @ \cup {Current}, !.gate = FALSE]
  /\ disk' = ho'
  /\ UNCHANGED <<pc, mem, result, diskMem, runs, faults, torn, done, recovered, owed, reopened>>

\* record_attempt() as the executor calls it; same: with the signature of the
\* attempt before.
Remember(m, i, o, same) ==
  IF o.attempt = "none" THEN m
  ELSE [repeats |-> [m.repeats EXCEPT ![i] = IF ~same THEN 1 ELSE IF @ = 3 THEN 3 ELSE @ + 1],
        fails |-> [m.fails EXCEPT ![i] = IF o.attempt = "failed" /\ @ < MaxRetries THEN @ + 1 ELSE @],
        last |-> [m.last EXCEPT ![i] = o.attempt]]

\* _close_recovery_gate_if_ready()
\* Mutant: the gate does not wait for the rest of the lane.
GateClosesEarly(p, i) == i \in Lane /\ p.st[i] = "completed"
GateCloses(p, i) == i \in Lane /\ \A r \in Lane : p.st[r] \in {"completed", "absent"}
Recovered(p) == Promote([p EXCEPT !.st = [i \in Ids |->
                  IF p.st[i] = "failed" THEN "completed" ELSE p.st[i]]])

Complete(i, checkpoint) ==
  LET p == Promote(Set(plan, i, "completed"))
  IN /\ plan' = IF GateCloses(p, i) THEN Recovered(p) ELSE p
     /\ ho' = [WithoutIssue(ho, IF GateCloses(p, i) THEN Ids ELSE {i}) EXCEPT
                 !.currentStatus = "completed", !.gate = FALSE,
                 !.checkpoint = @ \/ checkpoint]
     /\ done' = done \cup {i}
     /\ recovered' = IF GateCloses(p, i) /\ Lane \subseteq done'
                       THEN recovered \cup {f \in Ids : p.st[f] = "failed"} ELSE recovered
     /\ owed' = IF i \in Checkpoints THEN {} ELSE owed

\* _insert_live_checkpoint_recovery_step()
OpenCheckpoint == \E c \in Checkpoints : plan.st[c] \in {"ready", "in_progress", "planned"}
\* Mutant: every checkpoint step of a plan has one name.
NextCheckpointSame == <<"checkpoint", 1>>
NextCheckpoint ==
  <<"checkpoint", 1 + Cardinality({c \in Checkpoints : plan.st[c] # "absent"})>>
Inserts(o) == o.error \in LateGates /\ ~OpenCheckpoint /\ ho.checkpoint
\* Mutant: the checkpoint step is planned and the blocked step stays as it is.
InsertPlanned(p, i) == PlaceBefore(p, i, NextCheckpoint, "planned")
Insert(p, i) == PlaceBefore(Set(p, i, "planned"), i, NextCheckpoint, "ready")

FailStep(i, o, m) ==
  LET status == IF m.fails[i] >= MaxRetries /\ o.model = "claude" THEN "failed" ELSE "in_progress"
      p == IF Inserts(o) THEN Insert(Set(plan, i, status), i) ELSE Set(plan, i, status)
  IN /\ Inserts(o) => NextCheckpoint \in Checkpoints
     /\ plan' = p
     /\ ho' = [ho EXCEPT !.currentStatus = p.st[i], !.issues = @ \cup {i},
                         !.gate = o.error \in LateGates]
     /\ owed' = IF Inserts(o) THEN owed \cup {i} ELSE owed
     /\ UNCHANGED <<done, recovered>>

Execute(o, same, checkpoint) ==
  /\ pc = "executing" /\ pc' = "memory"
  /\ result' = o
  /\ mem' = Remember(mem, ho.current, o, same)
  /\ IF o.completed THEN Complete(ho.current, checkpoint)
     ELSE IF o.ok
       THEN ho' = [ho EXCEPT !.gate = FALSE] /\ UNCHANGED <<plan, done, recovered, owed>>
       ELSE FailStep(ho.current, o, mem')
  /\ UNCHANGED <<iter, durable, runs, faults, torn, reopened>>

\* Mutant: the memory is only saved at the end of the run.
SaveMemoryAtEnd ==
  /\ pc = "memory" /\ pc' = "handoff"
  /\ UNCHANGED <<process, durable, runs, faults, history>>
SaveMemory ==
  /\ pc = "memory" /\ pc' = "handoff"
  /\ diskMem' = mem
  /\ UNCHANGED <<process, disk, runs, faults, history>>

\* The process ends, or what is left of it is not used again.
Forget ==
  /\ pc' = "down"
  /\ plan' = NoPlan /\ ho' = NoHandoff /\ mem' = NoMemory /\ iter' = 0 /\ result' = NoResult
  /\ owed' = {}

SaveHandoff ==
  /\ pc = "handoff" /\ result.error \notin Waits
  /\ pc' = "loop" /\ disk' = ho /\ result' = NoResult
  /\ UNCHANGED <<plan, ho, mem, iter, diskMem, runs, faults, history>>

Suspend ==
  /\ pc = "handoff" /\ result.error \in Waits
  /\ disk' = [ho EXCEPT !.status = "waiting"]
  /\ Forget
  /\ UNCHANGED <<diskMem, runs, faults, torn, done, recovered, reopened>>

Finish ==
  /\ pc = "loop" /\ (~Pending \/ iter = MaxSteps)
  /\ disk' = Closed(ho, plan, AllCompleted(plan), iter < MaxSteps)
  /\ diskMem' = mem
  /\ Forget
  /\ UNCHANGED <<runs, faults, torn, done, recovered, reopened>>

\* A suspending run saves the handoff once more, with its new status.
Crash ==
  /\ pc # "down" /\ faults < MaxFaults /\ faults' = faults + 1
  /\ disk' \in {disk} \cup IF pc = "handoff" THEN {ho} ELSE {}
  /\ Forget
  /\ UNCHANGED <<diskMem, runs, torn, done, recovered, reopened>>

\* Both files are written in place: a crash during the write leaves a file that
\* cannot be parsed and is loaded as an empty one.
Tear ==
  /\ pc \in {"memory", "handoff", "loop"} /\ faults < MaxFaults /\ faults' = faults + 1
  /\ torn' = TRUE
  /\ IF pc = "memory" THEN diskMem' = NoMemory /\ UNCHANGED disk
                      ELSE disk' = NoHandoff /\ UNCHANGED diskMem
  /\ Forget
  /\ UNCHANGED <<runs, done, recovered, reopened>>

Next ==
  \/ Begin \/ Reject \/ Clarify \/ Answer \/ StartStep \/ AbortStep \/ SaveMemory \/ SaveHandoff \/ Suspend \/ Finish
  \/ \E o \in Returned, same, checkpoint \in BOOLEAN : Execute(o, same, checkpoint)
  \/ Crash \/ Tear

Spec == Init /\ [][Next]_vars

-----------------------------------------------------------------------------
(* Properties. *)

\* A task is only closed when each of its work packages was completed by an
\* outcome of some run, or had failed and was closed behind a lane each of whose
\* steps some run had completed, however the runs were suspended, resumed,
\* archived or torn.
ClosedMeansDone == disk.status = "closed" => Work \subseteq done \cup recovered

\* No work package is executed before the ones in front of it are completed or
\* failed, and one blocked by a completion gate is not tried again by this run
\* before the checkpoint step put in front of it is completed: no plan made from
\* stale statuses, lane or checkpoint skips a step.
OrderKept ==
  pc = "executing" =>
    /\ \A i, j \in Work : j = ho.current /\ i[2] < j[2] =>
         i \in done \cup recovered \/ plan.st[i] = "failed"
    /\ ho.current \notin owed

\* The memory is saved before the handoff: a handoff on the disk that says a
\* step is completed has the evidence of it, in spite of crashes between the two.
HandoffBehindMemory ==
  /\ ~torn /\ ~reopened
  /\ disk.status = "executing" /\ disk.currentStatus = "completed" /\ disk.current # NoStep
  => diskMem.last[disk.current] = "succeeded"

-----------------------------------------------------------------------------
(* The inductive invariant. d are the steps done, s those done or recovered. *)

Active == {"ready", "in_progress"}

\* What holds of the statuses of a plan and of those a handoff keeps, however old.
Fits(st, d, s) ==
  /\ \A i \in Work : st[i] = "completed" => i \in s
  /\ \A r \in Lane : st[r] = "completed" => r \in d
  /\ \A i, j \in Work \cup Lane : st[i] \in Active /\ st[j] \in Active => i = j
  /\ \A i, j \in Work : i[2] < j[2] /\ st[j] \in Active => i \in s \/ st[i] = "failed"

InOrder(p) ==
  \A a, b \in DOMAIN p.ids :
    a < b /\ p.ids[a] \in Work /\ p.ids[b] \in Work => p.ids[a][2] < p.ids[b][2]

\* What is not in a plan was archived, and is complete.
PlanFits(p, d, s) ==
  /\ WellFormed(p) /\ InOrder(p) /\ Fits(p.st, d, s)
  /\ \A i \in Work : p.st[i] = "absent" => i \in s
  /\ \A q, r \in Lane : p.st[q] # "absent" /\ p.st[r] = "absent" => r \in d
  /\ p.st[Archive] \in {"absent", "completed"}
  /\ \A c, e \in Checkpoints : e[2] < c[2] /\ p.st[c] # "absent" => p.st[e] # "absent"

\* While a step waits for its checkpoint, nothing but the checkpoint can be begun.
StepsInv ==
  /\ Fits(disk.st, done, done \cup recovered) /\ Fits(ho.st, done, done \cup recovered)
  /\ pc # "down" => PlanFits(plan, done, done \cup recovered)
  /\ owed \cap Checkpoints = {}
  /\ owed # {} => \A i \in Ids : plan.st[i] \in Active => i \in Checkpoints
  /\ pc = "executing" => ho.current \in Ids /\ plan.st[ho.current] = "in_progress"

Evidence(h, m) ==
  h.status = "executing" /\ h.currentStatus = "completed" /\ h.current # NoStep =>
    m.last[h.current] = "succeeded"

CompletedWhen(h) == h.currentStatus = "completed" => h.status \in {"executing", "closed"}

\* The memory of the process is the one on the disk unless it is to be saved next,
\* and then the handoff on the disk still says that the step is in progress.
SavesInv ==
  /\ CompletedWhen(disk) /\ CompletedWhen(ho)
  /\ pc # "down" => ho.status \notin {"idle", "closed"}
  /\ pc \in {"executing", "memory", "handoff"} => ho.status = "executing" /\ ho.current # NoStep
  /\ pc \in {"executing", "memory"} => disk.currentStatus = "in_progress"
  /\ pc \in {"loop", "executing", "handoff"} => mem = diskMem
  /\ pc \in {"memory", "handoff"} /\ result.error \in Waits => ho.currentStatus # "completed"
  /\ ~torn /\ ~reopened => Evidence(disk, diskMem) /\ Evidence(ho, mem)

IInv == TypeOK /\ StepsInv /\ SavesInv /\ ClosedMeansDone
=============================================================================
