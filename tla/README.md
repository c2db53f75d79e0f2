# Stagewarden in TLA+

Stagewarden (`src/`) is a governed coding-agent runtime in Python.  A task is
handed to an agent, or to a tree of nodes; model calls and tool calls are made on
its behalf; every step leaves a durable trace (event stream, journals, handoff
file, node capsules) from which a later process continues.  What makes it hard is
not one algorithm but what has to hold *across* processes: several of them append
to one log, one of them dies between two files that belong together, an operation
is tried again, a result is delivered before it is judged.

This directory holds the specifications of the parts that decide those questions,
the TLC configurations that check them on small instances, and TLAPS proofs for
every value of the constants.  Paths below are relative to `src/`; module
`stagewarden/X.py` is written `X.py`.

## 1. Inventory

| component | modelled in | state | operations | what makes it hard |
|---|---|---|---|---|
| Event stream (`event_stream.py`) | EventStream | a JSONL file, a lock file, a thread lock per process | `append`, `migrate_legacy_to_chain`, `verify_integrity`, `read`, `replay`, `follow` | concurrent processes, unlocked readers, torn writes, a stale sidecar |
| Goal loop (`goal_loop_orchestrator.py`, capsules in `node_knowledge.py`) | GoalLoop, NodeContext | nodes in memory, a capsule per node in SQLite, issue and risk registers in the handoff file | `run_loop`, `_execute_node`, gates, retry, delivery to the parent, restore | crash between two capsules, swallowed save errors, exceptions half way, budgets that span processes |
| Goal loop control (`goal_loop_control.py`) | — | a TCP socket; appends to nodes' inboxes | message, status | a control thread interleaves with the loop |
| Tool journals (`executor.py` 2139-3193, `mutation_journal.py`) | MutationJournal, ToolOperations | operation journal (one JSON file), mutation journal (JSONL) | start, complete, recover, replay a completed operation | crash between effect and record, read-modify-write without a lock, torn tails |
| Step executor (`executor.py` 232-1361) | StepExecutor | current step, attempts, provider, account, role | model call, escalation, account failover, critic, protocol repair | blocks that expire during a retry, manual selection, limits of several counters |
| Router and preferences (`router.py`, `modelprefs.py`, `provider_registry.py`) | StepExecutor | a JSON file of providers, accounts, blocks until a time, last successes | choose, block, unblock, rotate | stale blocks, read-modify-write by two processes |
| Agent run (`agent.py`, `planner.py`, `handoff.py`) | AgentRun | plan of steps, step state, run limits, saved handoff | plan, run step, insert recovery steps, suspend, resume | the plan changes while it runs; a partial handoff |
| Attempt memory (`memory.py`, `memory_context.py`) | StepExecutor, AgentRun | attempts per step and model | record, abort rule, compaction | counters at a limit |
| Project handoff and node runtime (`project_handoff*.py`, `prince2.py`, `role_tree.py`) | RoleRuntime, AgentRun | nodes with inboxes and wake-up conditions, registers | send, tick, wake, sync | order of messages and wake-ups, idle budgets |
| Node knowledge (`node_knowledge.py`, `rag.py`) | FileRead, NodeContext | SQLite tables, file-read sessions with offset and hash | save, read chunk, search, index | a file that changes between two chunks |
| Project flows (`project/`) | RoleRuntime | proposals, approvals, the active role tree | propose, approve, activate, tick | a proposal that is stale when approved |
| Permissions, auth, secrets | — | settings, tokens | decide, login | outside services; precedence of rules |
| Tools (`tools/`) | PatchFiles, FileRead | the workspace | files, shell, git, browser, external I/O | effects that cannot be undone |
| Codecs and classifiers (`ljson.py`, `decision_classifier.py`, `caveman.py`) | — | none | pure functions | boundaries of the format |
| Command line and views | — | none of their own | rendering | none that concerns behaviour |

How they interact.  `cli_dispatch.py` starts an **agent run** or a **goal loop**.
The agent run asks the **executor** for each step; the goal loop calls the model
through an outside program (`pi`), one node at a time, while callers of
`codemode_context()` read and append to the nodes' contexts.  Both write every state change
to the **event stream** (a call that may block on the lock of another process),
and persist their position: the agent in the **handoff file**, the loop in
**capsules** (per node, atomic, in SQLite) and in the registers of the handoff
file (all nodes, one file).  The executor wraps each tool call in the **tool
journals**, so that a later executor knows what may have happened.  The control
socket, the readers of the stream and other processes on the same workspace are
concurrent with all of this.

What makes each correct:

- *event stream*: one writer at a time; a chain that only a cut write can break;
  no two formats in one file; a reader sees a prefix of what was written; every
  call returns.
- *goal loop*: dependencies first; a completed node's result is with its parent
  and stays; a completed node stays completed; budgets bound executions over all
  processes; the register says what the nodes say; every run ends.
- *tool journals*: an operation that completed is not executed again; one that
  did not is never reported as completed; an operation interrupted by a crash is
  recovered once.
- *step executor and router*: a blocked account is not called; a manual selection
  is not left silently; failover ends; a success is attributed to the account
  that gave it.
- *agent run*: a task is only closed when its work was done or recovered; steps keep
  their order through checkpoints, recovery lanes and resumption; the handoff never
  tells of more than the memory has evidence for.
- *node runtime*: a message is received once and in order; a node beyond its
  tolerance does no work; the two files that hold the tree agree.
- *node contexts*: a note reported as appended is not lost; a revision names one
  text.
- *file-read sessions*: the chunks of a completed session are one content of the file.
- *patches*: a diff is applied to all its files or to none, and as the format means.

`PROJECT.json` lists the hazards behind these sentences, each at its line.

## 2. Plan

What is here, in the order in which it was built:

| module | promise, or what it is about | composed with |
|---|---|---|
| `EventLog`, `EventStream` | the log every other part relies on; the stream implements the log | `EventStream` refines `EventLog` |
| `GoalLoop` | the node loop with capsules and registers over restarts | |
| `MutationJournal`, `ToolOperations` | executors of several processes, crashes between effect and record | |
| `StepOutcome`, `StepExecutor` | one step: provider, accounts, fallback, critic, gates | `StepOutcome` is what `AgentRun` assumes of a step |
| `AgentRun` | the run over many steps, suspension, resume | takes the outcomes of `StepOutcome` |
| `RoleRuntime` | role tree, node messages, ticks, two files | |
| `FileRead` | chunked reads of a changing file | |
| `NodeContext` | revisions of a node's context between loop and callers | its capsule is that of `GoalLoop` |
| `PatchFiles` | a diff of several files | its journal entries are those of `MutationJournal` |

`StepExecutor` proves with its type invariant that every return of a step is in the
set of outcomes `StepOutcome` names; `AgentRun` takes its outcomes from that set
(`Returned \subseteq Outcomes`): the two meet at that interface.

What could follow: a composition of `AgentRun` with `RoleRuntime` over the one handoff
file they share; permission precedence as a pure module.

## 3. EventLog and EventStream

`EventLog` is the promise: `Record(e)` appends an event, `Damage` closes the log,
nothing else happens.  `EventStream` models `event_stream.py` 19-390.

| module | code |
|---|---|
| `file`, `eol` | lines of `events.jsonl`, whether it ends with a newline |
| a line: chained, legacy, junk | a record with chain metadata, one without, text `json.loads` rejects |
| `Digest` | SHA-256; collision free, so a digest *is* the sequence it commits to |
| `TakeThreadLock`, `TakeProcessLock`, `LockTimeout`, `Release` | the class's `RLock` and `_process_lock()`, for flock/msvcrt (`Backend = "advisory"`) and the `O_EXCL` sidecar (`"excl"`) |
| `CheckAppend`, `RefuseAppend`, `BeginWrite`, `EndWrite`, `FailWrite` | `append()`: verify, chain, write, fsync |
| `CheckMigrate`, `SkipMigrate`, `RefuseMigrate`, `ReplaceFile` | `migrate_legacy_to_chain()`: temp file, `os.replace` |
| `BeginRead`, `EndRead` | `read()`: verify, then open again and read up to `verified_lines`; no lock |
| `Crash` | a process dies; the system drops advisory locks, a sidecar file stays |

A write is two steps, because a crash, an I/O error or a reader can fall between
them; the first leaves either a fragment or the whole record without its newline.
A line without newline swallows whatever is written next.  Where `verify_integrity()`
sets no line limit (`NoLimit`: a valid file, or one in which nothing parses yet) the
second read of `read()` also returns what was appended since the first.  Redaction and the
content of payloads are left out.  History variables (`history`, `acked`, `torn`)
are read by properties only.

Runs (three writers in two processes, two event values, files of up to four lines):

- `event_stream` (flock, one reader, 3 calls, 2 faults): the type invariant;
  `WritersApart` (verify, hash and write are one critical section, so the two formats
  never mix and interleaving alone never corrupts); `ViewIsHistory` (an
  unlocked read that overlaps anything returns a prefix of what was written; this holds
  for any limit, so it says nothing of how many lines a limit hides);
  `ImplementsLog` (refinement: terminated records are never lost or changed, a
  damaged stream is frozen).
- `event_stream_excl` (sidecar, 3 calls, 1 fault, fair): `CallsReturn`, although a
  dead process leaves its sidecar behind. That the sidecar keeps writers apart as
  well is a theorem, for either backend.

Why the bounds suffice: three threads in two processes give contention on both
locks at once; three calls allow append/append/migrate in every order, on a stream
that starts empty or with a legacy record; two faults allow a torn write followed
by a crash of the writer that comes after it.

Fairness (`FairSpec`): weak fairness of each thread's steps, that is, the system
schedules a running thread.  Calls, faults and reads are free.

## 4. GoalLoop

`GoalLoop` models `GoalLoopOrchestrator` from construction (restore) to the end of
`run_loop()`, over several processes.  The tree is fixed: `_initialize_nodes()`
builds it from a constant blueprint and `_validate_tree_invariants()` checks it
(`TreeAssumption`).

| module | code |
|---|---|
| `status`, `retry`, `cycle`, `inbox` | `NodeState` fields that control reads |
| `noted` | `lessons_recorded`, `issues_recorded`: memory only |
| `capsule`, `Save`, `Emit` | the capsule in SQLite; `_emit_node_event()` swallows a save that fails |
| `issues`, `saved` | the registers in memory and in the handoff file |
| `Start` | `_restore_node_capsules()`: open nodes with their counters, completed ones without |
| `Ready`, `First`, `Begin`, `Exhaust` | `_get_ready_nodes()`, cycle budget, the start event |
| `Allow`, `Refuse` | `_autonomy_gate()` (rules, classifier, question to the user) |
| `Succeed`, `Fail` | the call of the model; a result goes to the parent's inbox and capsule |
| `Judge` | `_tolerance_gate()`, retry, checkpoint event |
| `Record`, `Register` | handoff entry and save; then lesson, issue and risk, in memory until the next save |
| `Raise`, `RaiseInDelivery`, `ReportError` | the `except` in `run_loop()` |
| `Finish`, `Crash` | end of the loop; death of the process |

Runs (a root, a child, and a second child that needs the first, as in the
blueprint, where a node's parent is its first dependency):

- `goal_loop` (3 runs of 4 iterations, 2 faults, retry ceiling 1, cycle budget 3;
  240,086 states): `CompletedIsBacked` (a completed node stands on completed
  dependencies, and its result is with its parent), `CompletedIsFinal`, `BudgetHolds`
  over restarts and lost saves; `StallNeedsRestart` and `RegisterTracksNodes` for
  the first run of a task; and, with fairness, `RunEnds`, although a blocked node
  is ready again.
- `goal_loop_resume` (violation): a node the autonomy gate refused is restored as
  `running`, which no later run executes.

Why the bounds suffice: two runs are needed for any restart effect, and a third
sees what the second restored; four iterations let a node fail, be retried and
another complete in one run; the cycle budget of 3 (20 in the code) is reached by
one node over two runs; two faults allow a lost save followed by a crash.

Fairness (`FairSpec`): weak fairness of the loop's own steps.  The process is
scheduled, the model is called with a timeout, and a question to the user is
taken to be answered.  Starting another orchestrator and faults are free.

Properties speak of `Nodes \ unsaved` where a swallowed save makes the code forget:
without that exception they are false, which is what the hazard at
`goal_loop_orchestrator.py:1361` is about.

## 5. MutationJournal and ToolOperations

`MutationJournal` models `mutation_journal.py` and the part of
`Executor._run_action()` every mutating file action goes through.  An action is its
key (the key is a hash of the action); all actions change one file, whose content
is the sequence of actions it shows.

| module | code |
|---|---|
| `journal`, `eol` | lines of `mutations.jsonl`, whether it ends with a newline |
| `Newest(k, s)` | `get(k)["status"] == s`; lines that do not parse are skipped |
| `Extended`, `Log` | `append()`: a line that lost its newline takes the next one in |
| `Replay` | a completed key is answered from the journal |
| `Ask`, `Mark` | the lookup; the `in_flight` entry, unless one was found |
| `Work` | the file tool and `_verify_file_action()`: success or failure, and a failure with or without effect |
| `Close` | `completed` or `failed`, and the reply |
| `Interrupt`, `InterruptReply`, `TearLine` | death of the process or an exception: between two steps, after the outcome was recorded, half way through a line |

Runs (two overwrites and an edit of one file):

- `mutations` (2 processes, 4 calls, 1 fault): `JournalIsTrue` (what the journal
  confirms was done, and what was done has an entry, because the mark precedes the
  effect); `RepeatsAreBounded`: a second success of an action costs a fault or a call
  that runs beside another, and a fault buys at most two (the interrupted action, and
  one whose outcome is appended to the line the fault left).

Four calls let an action be torn, lost, repeated and replayed beside another one;
one fault already buys both repetitions (two faults were checked as well).  Processes, and the two overwrites, are interchangeable (symmetry).  The
fields an action must have are checked before the mark and change nothing, so every
action is taken as valid.

`ToolOperations` models the file of running shell operations
(`_start_tool_operation()`, `_complete_tool_operation()` and the recovery by the
constructor) and the shell branches of `_run_action()`.

| module | code |
|---|---|
| `file`, `temp` | the operations in `tool_operations.json` and in its `.tmp` |
| `inFlight`, `resulted`, `recovered` | what `replay()` makes of `tool_started`, `tool_result` and `tool_recovery` |
| `Read` | `_read_tool_operations()`: an unreadable file counts as empty; `sound` remembers that this, or two executors at a time, never happened |
| `WriteTemp`, `Replace`, `ReplaceFails` | `_write_tool_operations()`; the replacement fails when another process has moved the temporary file away |
| `Construct`, `Recover` | the constructor: report each entry, then write an empty file |
| `Start`, `Announce`, `Run`, `Result`, `Finish` | a shell action: entry, event, command, result event, entry removed |
| `Raise`, `Crash` | exceptions (the caller goes on; a constructor fails) and death |

Runs:

- `operations` (2 processes, 2 operations, 3 faults, fair): `CommandsAccounted` for
  executors that run one after the other: because the entry is written before the
  event of the start and removed after the event of the result, no crash loses a
  command, or leaves `replay()` with a tool that never ends, and a constructor that
  empties the file has reported all of it.  `ActionsEnd` for executors that run side
  by side and take each other's temporary file away.

Two operations let one be interrupted while the next is started; three faults cover a
crash, a crash of the recovery after it, and a failing read or an exception.
Fairness: weak fairness of each executor's steps; a shell command ends because the
shell tool runs it with a timeout.  Safety is claimed while `sound` holds; what
happens otherwise is among the remarks of section 13.

## 6. StepOutcome and StepExecutor

`StepOutcome` names what a step may return; `StepExecutor` models `execute_step()`
with the parts of `router.py`, `modelprefs.py` and `memory.py` it decides by, called
again and again for one step of a plan.

| module | code |
|---|---|
| `setup` | the user's configuration: manual or automatic, fallback authorised, preferred provider, enabled providers, route of the role, of the critic, pool of routes |
| `preferred`, `until` | `preferred_model` and the blocks with their end, in the preferences file |
| `now`, `Tick` | the clock `is_blocked()` looks at; it goes on while a call is pending |
| `ChosenModels`, `Escalations`, `RouterFallbacks` | `choose_model()`, `escalate()`, `fallback_for_api_failure()`: what they may return |
| `RoleRoutes`, `EscalatedRoutes`, `PoolRoutes` | `_role_assignment_for_step()` and its escalation |
| `NextAccounts`, `TryNextAccount` | `_execute_with_account_failover()` |
| `Hear` | `_record_model_block_if_present()`: a limit with an end date blocks the account, or the provider and its preference |
| `FailPrimary`, `FallBack`, `FailFallback` | the failures of primary and fallback, and what is returned |
| `RejectOutput`, `CallCritic`, `Review` | protocol errors, `_run_devil_advocate_review()` |
| `Act`, `RecordAction` | the action and the gates after it, `record_attempt()` |
| `Crash`, `Leave`, `Again` | death of the process; the next call of the step |

An answer is a success, a limit with or without an end date, a network failure or
another failure; prompts, scores and texts are a choice among what they may lead to.
`heard`, the calls of the step and their answers, is read by properties only.

Run `step_executor` (six configurations; three providers, enabled in pairs: one with
two accounts, one with one, one with none; two calls of the step; a clock of four
values; 334,446 states, fair): `PinnedStepStays`, `SuspensionJustified`,
`AttemptNamesCaller`, `BlockedAccountRests`, `StepReturns`.

Why the bounds suffice: two accounts are the least for a failover, two providers for a
fallback; the second call sees the blocks and the attempt the first has left, and the
escalation they lead to; a block lasts one unit, so it ends while a step is pending as
well as between two.  Fairness: the answer of a provider arrives (calls have timeouts)
and the action returns.

## 7. AgentRun

`AgentRun` models `Agent.run()` with the planner that rebuilds the plan from the
handoff.  A step returns an outcome of `StepOutcome`; the run takes one of each kind
that the loop tells apart: completed, progress, a failed gate, a failure that was
escalated to the end, a wait.

| module | code |
|---|---|
| `plan` | `PlanStep`s in their order, with statuses: work packages, recovery lane, checkpoint steps, archived prefix |
| `ho`, `disk` | what the handoff decides by, in the process and in the file |
| `mem`, `diskMem` | attempts, failures and the last outcome of a step, likewise |
| `CreatePlan` | `Planner.create_plan()`: lane of an exception plan, statuses restored, checkpoint lane, compression |
| `Begin`, `Reject`, `Clarify` | `run()` up to the loop: resume or not, a task that is refused or needs the user |
| `Answer` | `answer_user_question()` |
| `StartStep`, `AbortStep` | the choice of a step, and `should_abort_step()` |
| `Execute`: `Complete`, `FailStep`, `Insert` | what an outcome does to the step, the gate of the lane, a checkpoint step put in front |
| `SaveMemory`, `SaveHandoff` | the order of the saves |
| `Suspend`, `Finish` | a waiting outcome; `close_run()` |
| `Crash`, `Tear`, `Forget` | death of the process, also within the write of a file |

Run `agent_run` (two work packages, a lane of two actions, one checkpoint step, three
runs of at most three iterations, one crash; 2,363,590 states): `ClosedMeansDone`,
`OrderKept`, `HandoffBehindMemory`.  The history variables `done`, `recovered`, `owed`
and `reopened` are read by properties only.

What `ClosedMeansDone` says of a failed work package is less than one expects: that
it was closed behind a lane each of whose steps *some* run had completed, which need
not be a lane that was made for its failure (section 13).  `HandoffBehindMemory`
excepts handoffs that an answer has set going again after the task was closed.  Both
exceptions take four runs to show.

Why the bounds suffice: a lane of two is the least that can be gone through half way
(three in the code); two packages give an order to keep; three runs allow an
exception, a resumption that is suspended, and another; three iterations are fewer
than a run needs for lane and packages, so runs end at their limit as well.  Three
work packages, and four runs without a crash, were checked as well; the theorems of
section 12 hold for any number of all of them.  The system may stop: a task is
closed, or the runs are used up.

## 8. RoleRuntime

The commands `role` and `roles` (`project/role_flow.py`), the change of the brief
(`project/brief.py`) and the nodes they drive (`project_handoff_runtime.py`).

| module | code |
|---|---|
| `prefs`, `handoff.base` | the approved role tree, in the preferences and in the handoff |
| `handoff.nodes` | state, wait, triggers, inbox and what was read, per node |
| `Materialize` | `_materialize_prince2_node_runtime()`: nodes made anew from the tree, queues and state carried over |
| `Approve`, `AddChild`, `Assign`, `Tolerance`, `RemoveNode`, `ChangeBrief` | the commands that change the tree, and what makes it stale |
| `Send`, `Wait`, `Wake`, `Tick`, `TickAll`, `Sync` | the commands of the runtime; `Spawned` is the child of an escalation |
| `Save`, `CrashOr` | the two files, one after the other, in the order of each command |

Run `role_runtime` (two fixed nodes and room for one child, two messages, two changes,
one crash, batches of one and of all; 396,852 states): `QueueIsHistory`,
`NoWorkBeyondTolerance`.  One message with three changes was checked as well.

Why the bounds suffice: two messages have an order; a node, its child and a removal
give every way a queue is carried over or dropped; one crash falls between any two
writes.  A crash within the plain write of the handoff is left to `AgentRun`, which
models the torn file.  Messages run along a star around the root: which edges
a tree grants is data no property depends on.  Margins are taken to be at least 2.5 %: below, rounding makes a margin zero,
which the code replaces by 25 %.  The system may stop when its changes are used up
before a tree is approved.

## 9. FileRead

The complete read of a file: `read_file_complete` of `_run_action()` with the sessions
of `node_knowledge.py` and `FileTool.read_chunk()`.

| module | code |
|---|---|
| `file`, `Edit` | the content of the file, changed, removed and changed back by others |
| `session`, `chunks` | the rows of `file_reads` and `file_read_chunks` of a content (a session is found by the hash of it) |
| `Begin`, `Look`, `Insert` | the first probe, `begin_file_read()` |
| `ReadChunk`, `Check`, `WriteChunk`, `Status` | one turn of the loop; the check and the transaction of `checkpoint_file_chunk()` |
| `Probe`, `Finish`, `Close`, `Content` | the last probe, `complete_file_read()`, `read_file_content()` |
| `Crash`, `Leave` | death, failure and success; a reader begins again |

Run `file_read` (two readers, two contents of three and two characters, chunks of one
and of two; 220,599 states, fair): `WholeFile`, `ReadsReturn`.  Nothing else is
bounded: readers come back for ever.  A file longer than a chunk and not a multiple
of it, two chunk sizes and two readers give every kind of overlap.  Fairness: weak
fairness of each reader's steps; nothing waits but for the database and the file.

## 10. NodeContext

The context of one node of the goal loop: every revision a snapshot in SQLite, the
current one in the capsule as well.  The loop appends without a lock, callers of
`codemode_context()` under the lock of the node.

| module | code |
|---|---|
| `rev`, `ctx`, `done` | `context_revision`, `compacted_context`, completed or not |
| `view`, `disk` | the rows the connection sees, and those committed: a commit that fails may leave its row in the transaction |
| `Begin`, `Emit`, `Judge` | `_execute_node()`: a cycle takes a revision, events save the capsule |
| `Compose`, `Record`, `Assign` | `_append_node_context()` in the loop: text, snapshot, memory |
| `AppendNote`, `RecordNote`, `AssignNote`, `Verify`, `Recover` | `codemode_context("append")` with its verification and what an exception does |
| `Fitted` | compaction: when the budget is exceeded, any part may be left |
| `Start`, `Restored` | a new orchestrator: newest snapshot or capsule |

Run `node_context` (two callers, two notes, two entries fit, revisions to 4, three
orchestrators, two faults; 3,199,665 states): `AckedNotesKept`,
`RevisionNamesContext`.

The two hold except for four gaps of the code, which the model takes like any other
step and remembers in `gaps`; the run does not explore what follows a gap
(`CONSTRAINT NoGap`):

- *race*: the loop appends while a caller appends; both use the same next revision,
  and the later `INSERT OR REPLACE` wins over an acknowledged note;
- *search*: the search for snapshots is limited to 100 rows over all tasks and can
  miss the newest;
- *capsule*: a node that was never executed has no capsule, so nothing is restored
  and its snapshots are overwritten;
- *empty*: a completed node with an empty context starts at revision 0 again.

Why the bounds suffice: two faults let a commit fail and a crash or a second failure
follow; four revisions hold an execution and appends before and behind it; with room
for two of three entries a compaction happens.

## 11. PatchFiles

The `patch_files` action: `FileTool.patch_files()` and what the executor does around
it (mark, snapshot, verification by replaying the hunks, outcome).

| module | code |
|---|---|
| `disk`, `Edit` | the files; others change them at any point |
| `status` | the newest journal entry of the diff (`MutationJournal` has the lines) |
| `Splice`, `Spliced`, `Applied` | `_apply_unified_patch()`, hunk by hunk, with the running offset |
| `Ask`, `Mark`, `Snapshot` | lookup, `in_flight`, `_snapshot_patch_plan()` |
| `Prepare`, `Refuse` | `_prepare_file_patches()`: operation, target, permission |
| `Stage`, `RefuseLate` | `patch_files()`, its first loop: all results before any write |
| `Write`, `Delete`, `TearFile`, `DeleteMissing` | its second and third, and what cuts them short |
| `Verify`, `VerifyFails`, `Close` | `_verify_file_action()`, outcome in the journal |
| `Output` | `_prepare_output_text()`: ASCII in sensitive files |

Run `patch_files` (two files, one of them sensitive, three lines, 226 diffs of one or two
hunks and two files, two calls, one interruption, one edit; 1,950,683 states):
`WholeOrNothing`, and `CompletedIsPatched`, which compares what the code makes of a
diff, one splice after another with a moving offset, with a definition that has no
order of application: new lines between the parts of the old content that stay
(`Patched`).  Two hunks suffice for one to move the other; two files for half a diff;
two calls for the retry of an interrupted one.

`CompletedIsPatched` speaks of diffs that are well formed (`WellFormed`): hunks in order,
and no hunk without old lines except at the beginning of a file and as the first (see
section 13 for what happens to others).

## 12. Proofs

Each theorem holds for every value of the constants that satisfies the module's
`ASSUME`.

`EventStreamProofs`, for any threads, processes, events, bounds and either lock
backend:

- `TypeCorrect`, `WritersStayApart` (from `WritersExcluded`, `FormatsNeverMix`,
  `WritersKeepIntegrity`).  The inductive invariant `IInv` adds what a thread knows
  inside the critical section (`WriterInv`): before the write the stream is valid and
  the record computed is the next one; between the two parts of a write, completing it
  gives a valid stream unless something was torn; before the replacement the temporary
  file is the migrated stream.  Integrity does not follow without it, because validity
  is broken during every write.
- `StreamImplementsLog`, the refinement of `EventLog`, and `ReadersSeeHistory`.  They
  rest on `HistoryInv`: the file is at most one unreadable line away from a valid one,
  and its lines are the history in its order.  Given that, each step of the stream
  maps to `Record`, `Damage` or a stutter of the log; an unlocked read returns a
  prefix because the lines it may see were written in that order (`ReadersInv`).

`GoalLoopProofs`, for any finite tree satisfying `TreeAssumption`, any runs and
faults.  That no node depends on itself, directly or through others, is part of the
assumption because `_validate_tree_invariants()` refuses such trees
(`goal_loop_orchestrator.py` 283-315).

- `TypeCorrect`, `CompletedAlwaysBacked` (from `DependenciesHold`, `EvidenceKept`),
  `BudgetKept`, `CompletedStays`.  `IInv` states the properties of the capsules as
  well as of memory (`DurableOrder`, `DurableEvidence`), that the two agree where
  nothing was lost and no decision is pending (`Agreement`), and what the current
  node stands between (`CurrentNode`).  The argument for evidence is the order of the
  two saves: the parent's capsule takes the result before the child's says completed.
- `FirstRunNeverStalls`, `RegisterAgrees` (from `ReportInvariance`).  A first run has
  no node left `running` (`FirstRun`), so among the nodes that are open there is one
  without an open dependency: a nonempty finite set has an element minimal for an
  acyclic relation.  The register needs what was noted of each node in this process,
  which decides whether an issue is opened or closed (`NotedInv`).

`MutationJournalProofs`, for any executors, actions, calls and faults, has two parts.

- Of `MutationJournal`: `TypeCorrect`, `JournalAlwaysTrue` (from `ReplaysAreBacked`,
  `EffectsMarked`).  `IInv` says that every completed *line* (not only the newest of
  its key) stands for a success, because a torn line may uncover an older one; and
  that whoever is about to record a success has seen one.  `EffectsMarked` needs in
  addition that an executor between mark and outcome has its mark in the journal
  (`MarksIn`).
  `RepeatsAlwaysBounded` is an account: a fault pays two, an overlapping call one, and
  what was paid and not spent is held (`Covered`) by calls that may still succeed,
  by actions that were done, are not reported as completed and have no call (the next
  one executes them again), and by the line an append would destroy; a call that
  would bring a first success owes nothing.  Every other step moves the debt or
  reduces it; at most as many actions wait for a first success as there are calls that
  may bring it (`FirstRunsOwe`), so what is left bounds the repetitions.
- Of an instance `TO` of `ToolOperations`, for the same executors:
  `OperationsTypeCorrect`, `OperationsInvariance`, and `CommandsAlwaysAccounted` (from
  `EventsHaveEntries`, `CommandsAreKept`, `RestartsAreClean`).  Its `IInv` adds what
  the executor carries between its read of the file and the replacement
  (`ExecutorInv`): the state it is about to write is the file with its one change, and
  what it takes out is already closed in the event stream; and that while `sound`
  holds nobody else is up (`OnlyOneUp`).

`StepExecutorProofs`, for any configurations, accounts, answers, clock and number of
steps and restarts:

- `TypeCorrect`, `PinnedStepAlwaysStays`, `SuspensionAlwaysJustified`,
  `AttemptAlwaysNamesCaller`.  `IInv` joins them with `Progress`: what has been heard
  when a call is pending, when its answer is judged, and that the pending call of a
  pinned step is at the provider of those before.
- `BlockedAccountAlwaysRests`, an action property: each of the five places a call is
  made from chooses an account that is free at that moment (`CallFreeStep`), blocks
  that the last answer has added included.

`AgentRunProofs`, for any number of work packages, lane actions, checkpoints, runs
and crashes, and whatever the steps return:

- `TypeCorrect`, `ClosedOnlyWhenDone`, `OrderAlwaysKept`, `HandoffNeverAhead`.  What
  makes them hard is that plans are made again from statuses that may be any number
  of runs old.  `Fits` therefore says of *any* statuses, those of the plan, of the
  handoff and of the file, what never becomes false again: completed work was done or
  recovered, completed lane steps were done, one step is under way, and the work in
  front of it is done or has failed.  `CreatePlan` turns statuses that fit into a plan
  that fits (`PlanCreated`, by way of restoring, placing the lane and the checkpoint,
  promoting and archiving); so does every change while it runs.  `PlanFits` adds that
  the work stands in its order, that what is missing was archived, and that
  checkpoint steps are numbered without gaps, so that the next number is free
  (`NextIsNew`).  A closed gate means a lane that is done because its steps are
  completed, or archived as completed (`Completing`).
- The order of the saves is `SavesInv`: the memory of the process is that of the disk
  unless it is saved next, and then the handoff on the disk still calls the step
  `in_progress`.

`RoleRuntimeProofs`, for any tree, commands, messages and bounds:

- `StoresAlwaysAgree`: the two files hold the same baseline after every command,
  unless a crash cut one off.  No run repeats it.
- `TypeCorrect`, `QueuesAreHistory`.  `IInv` adds to both where messages may go
  (`Addressed`): to fixed nodes, and those to a removed node are counted as dropped;
  without it a node that is added again could have a history it does not hold.
- `BeyondToleranceIdle`, an action property, through what each command may do to a
  node (`Follows`, `Extends`).  A batch of ticks is a recursive function of its
  length; that it keeps what one tick keeps is shown by the least length that does
  not.

`NodeContextProofs`, for any callers, notes, budgets, restarts and faults, has two parts.

- Of `NodeContext`: `TypeCorrect`, `RevisionsAreUnique`, `AcknowledgedNotesStay`.
  `IInv` has a part that holds while the loop and a caller have not overlapped
  (`RaceFree`: a caller inside
  the lock finds what it has read, and no revision was handed out for two texts) and
  one that holds while none of the gaps of section 10 was met (`GapFree`: every note
  acknowledged is in memory, in the newest snapshot and in a newer capsule, in what a
  later statement sees as in what is committed).
- Of an instance `FR` of `FileRead`, whose sessions the same store keeps:
  `ReadsTypeCorrect`, `ReadsAreWhole`, for any readers, contents and chunk sizes that
  satisfy `FileConstants`, which is what that module assumes.  Its `IInv` says that the
  chunks of a session *tile* the content from its beginning in pieces of one length
  (`Tiled`), and that the offset of the session and of every chunk about to be written
  is an end of such a piece (`Boundary`); a reader that sets the offset back thus
  writes a chunk again that is there already (`AddChunk`), and an offset at the length
  means that all is there (`TilingIsWhole`).

`PatchFilesProofs`, for any files, contents, diffs, edits by others and interruptions:

- `AppliedIsPatched`: for any content and any number of well formed hunks, if the code
  gets through them, they fit the content and what it makes is `Patched`.  After `n`
  hunks the lines are what the first `n` pieces of `Patched` are, followed by the old
  content from the end of the last hunk on, and the offset is by how much the one is
  longer than what it replaces (`Midway`).  `SpliceFits` is the step: the place of a
  hunk, moved by that offset, lies in the old content, at the line of its header.
  The lemma needs that a hunk without old lines comes first (`WellFormed`); it is false
  of two such hunks, as TLC shows when that conjunct is left out (section 13).
- `TypeCorrect`, `AlwaysWholeOrNothing`, `CompletedAlwaysPatched`.  `IInv` follows the
  phases of a call: nothing is changed before the last check, and everything is when
  the verification begins (`MarkInv`); each loop has filled its list as far as it has
  come, so that a plan, a result and a found content is there for every patch when it
  is read (`LoopInv`); and what the verification let through is the hunks replayed on
  the plan (`SeenInv`).  With `AppliedIsPatched` that is what the format means.

The theorems of the library that prove by induction take an operator as a parameter,
which these provers cannot instantiate.  Where data is recursive the proofs take a
least counterexample instead (`WFMin` over the naturals, `FirstExists`, `UpTo`), and
construct the recursive function they speak of (`SplicedDef`, `FlattenDef`).

Every invariant was checked by TLC before it was proved.  Taken as atomic: the save
of one capsule, a transaction of SQLite, `os.replace`.

Only model-checked: liveness (`CallsReturn`, `RunEnds`, `ActionsEnd`, `StepReturns`,
`ReadsReturn`, and the violated `ResumedRunFinishes`), which is out of the prover's
reach.  The theorems about `ToolOperations` and `FileRead` are stated of the instances
named above, with the bounds and constants of those modules renamed.

## 13. Findings

With a run that shows it: `goal_loop_orchestrator.py:1436`, a refusal of the autonomy
gate is not persisted; the capsule says `running`, which no later run executes
(`goal_loop_resume`).

The rest was met while modelling.  Those marked * were seen as counterexamples of a
property by TLC; the others follow from the lines named.

Event stream and journals:

- * `event_stream.py:155`: only legacy appends look at the final newline; a chained
  append merges with a record that lost its newline and reports success.
- * `event_stream.py:258`: junk after legacy records resets the line count, so
  `read()` returns nothing of a legacy log with a torn tail, also while an append to
  it is half written; the comment at 369 says "Legacy logs remain readable".
- * `mutation_journal.py:46`: the outcome appended to a torn line is unreadable, so a
  confirmed mutation is executed again.
- * `executor.py:2153`: a completed key is replayed although the file was overwritten
  since (write A, write B, write A leaves B).
- * `executor.py:217`: every constructor, also that of a read-only command, recovers
  the running operations of a live process.
- `executor.py:2152`: lookup and mark of an idempotency key are not one critical
  section; two processes may both execute the action (`RepeatsAreBounded` counts it).
- `executor.py:3142`: read, change and write of the operations file without a lock
  lose an interrupted operation; `:3128`: a failing read counts as an empty file, and
  the next write makes it one.

Goal loop and node contexts:

- * `goal_loop_orchestrator.py:1512`: the parent holds completed results of children
  their tolerances then block.
- `goal_loop_orchestrator.py:2004`: issues are opened once per process, so a node
  blocked in two runs has two open issues.
- `goal_loop_orchestrator.py:1205`: nodes are executed parents first, where a comment
  says bottom-up.
- * the four gaps of section 10.
- `node_knowledge.py:296`: a commit that raises leaves its row pending, and
  `codemode_context()` reports it as persisted.

Step executor, router and memory:

- * `executor.py:1353`: a limit with an end date clears `preferred_model` for good, so
  a manual selection is left although `router.py:95` says "Manual mode may use only
  explicit preference."
- with one active provider whose accounts are all blocked, fallback and critic are
  called without an account; the critic of a manual step goes to another provider.
- `executor.py:1163`: a failover stops at the first limit without an end date, so a
  third account is not tried.
- late gates (`executor.py` 673-792) fail a step whose attempt was recorded as a
  success: it never escalates, although `:995` names these gates.

Agent run:

- * `project_handoff.py:298`: `complete_step()` leaves `plan_status` as it was at the
  start of the run, so a resumed run executes completed steps again
  (`planner.py:73`).
- `memory.py:132`: three equal failures abort a step even if they are of earlier runs.
- a second exception of a task has no recovery lane; a failed step of the lane is a
  dead end; a crash within the lane resumes without it.
- the lanes of another task's handoff are taken over; running a closed task again
  reports success and does nothing.
- an answer that comes after a new run has begun turns an exception into `executing`.
- * `project_handoff_state.py:194`: so does one that comes after the task was closed;
  the handoff is then `executing` at a step that is `completed`.
- * `agent.py:787` (with `planner.py:325`): a work package that fails while the lane of
  an earlier exception is half done is closed by the rest of that lane.  The lane's
  steps keep their `completed` from `plan_status`; the lane is put at the end when no
  step is current, the next package is begun before it and fails, and the one step
  left of the lane closes both.

Role tree and node runtime:

- * `project/role_flow.py:299`: every change of the tree approves it, also one that a
  change of the brief has made stale, although `project/brief.py:128` asks for a
  review first.
- `agent.py:43`: the interactive shell loads the handoff when it starts; role commands
  rewrite the file, and the next run saves the old copy, without their queues.
- `roles tick k` always begins at the first nodes; messages to a completed node are
  never read; a node added again after a command was cut off gets its old messages.
- `project/role_flow.py:654`: a tick that escalates is followed by a synchronisation
  that loses the state `escalated` when it changes the tree.

File reads and patches:

- a second complete read of an unchanged file in the same step fails ("already
  complete"), and one with another chunk size raises out of the action.
- * `tools/files.py:837`: a hunk without old lines (`@@ -1,0 +2 @@`) is inserted before
  the line it should follow; of two that insert at the beginning of a file
  (`@@ -0,0 @@`) the second is put before the last line of the first, because only the
  first is moved back to the beginning.
- `tools/files.py:713`: a call that dies between two writes leaves half a diff; the
  retry refuses it and records a failure, or, where it only inserts, applies it again.
- an edit by others between staging and writing is overwritten and passes the
  verification; a sensitive file with text beyond ASCII never passes it.
- `unlink()` of a file others deleted raises out of the action with the journal left
  at `in_flight`.

## 14. Not modelled

Listed with reasons in `PROJECT.json`.  About half of the code is rendering, argument
parsing, catalogues, benchmarks and scripts, which keep no state that others rely on.
Authentication, secrets, shell, git and browser belong to outside services; prompts,
scores, redaction, ranking and the code index are data no property is about.  Of the
modelled components these operations are left out: `replay()` and the node filter of
`follow()` (readers of what `EventStream` writes); the inboxes filled by control
messages, which no step of the goal loop reads; budgets, goals, backlog and quality
registers of the handoff; guided proposals and design documents; the preferences file
written by another process while a step is under way.
