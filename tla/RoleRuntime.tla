---------------------------- MODULE RoleRuntime ----------------------------
(***************************************************************************)
(* The role tree of a project and the nodes that run from it: the commands *)
(* role and roles of stagewarden/project/role_flow.py, the change of the   *)
(* brief (project/brief.py), and the node runtime they drive               *)
(* (project_handoff_runtime.py). The approved tree (the baseline) is kept  *)
(* twice, in the model preferences and in the handoff; the handoff also    *)
(* keeps the state and the queues of the nodes. Every command loads both   *)
(* files, puts the baseline of the preferences into the handoff, and saves *)
(* one file after the other.                                               *)
(*                                                                         *)
(* Percentages are reduced to whether the pressure of a node exceeds its   *)
(* margin; token counts, prices and texts are left out, and so are the     *)
(* outboxes, which no command reads back.                                  *)
(***************************************************************************)
EXTENDS Naturals, Sequences, SequencesExt, FiniteSets

CONSTANTS
  Layout,       \* the ids of the fixed role tree, in its order, the root first
  Ids,          \* bound: the ids of nodes, a name and a number; 0 for a fixed node
  Configured,   \* the roles with a model in the preferences
  Pressed,      \* the sets of nodes that a tolerance profile may put over their margin
  Limits,       \* bounds of a batch tick (max_nodes)
  WaitFor,      \* the lists of wake triggers given to a wait
  MaxMessages,  \* bound: messages sent
  MaxChanges,   \* bound: changes of the tree and of the brief
  MaxFaults     \* bound: crashes

Roles == ToSet(Layout)
Root == Head(Layout)
NoNode == <<"none", 0>>
Fixed == [i \in DOMAIN Layout |-> <<Layout[i], 0>>]
RootId == <<Root, 0>>
\* build_prince2_role_flow(): messages run between the fixed nodes only.
Edges == {e \in ToSet(Fixed) \X ToSet(Fixed) : e[1] # e[2] /\ RootId \in {e[1], e[2]}}
Triggers == {"message_received", "exception"}
Defaults == {"exception"}      \* the expansion events of a role

ASSUME RoleAssumption ==
  /\ Layout \in Seq(Roles) /\ Layout # <<>> /\ IsInjective(Layout) /\ "none" \notin Roles
  /\ Ids \subseteq Roles \X Nat /\ ToSet(Fixed) \subseteq Ids 
  /\ Configured \subseteq Roles /\ Pressed \subseteq SUBSET Ids
  /\ Limits \subseteq Nat \ {0} /\ WaitFor \subseteq SUBSET Triggers
  /\ MaxMessages \in Nat /\ MaxChanges \in Nat /\ MaxFaults \in Nat

VARIABLES
  prefs,     \* durable: the baseline in the model preferences
  handoff,   \* durable: the baseline and the nodes in the handoff
  brief,     \* durable, in the handoff file: the project brief
  changes,   \* changes so far
  faults,    \* crashes so far
  sent,      \* the addressees of the messages so far (history variable)
  dropped    \* messages whose addressee was taken out of the tree (history variable)

history == <<sent, dropped>>
vars == <<prefs, handoff, brief, changes, faults, history>>

Briefs == 1..2     \* 0: a baseline that was not approved for a brief
Baselines ==
  [status: {"missing", "approved", "stale"}, brief: {0} \cup Briefs,
   order: Seq(Ids), parent: [Ids -> Ids \cup {NoNode}],
   escalation: SUBSET Ids,   \* nodes spawned by an escalation
   assigned: SUBSET Ids,     \* nodes with a model
   over: SUBSET Ids,         \* nodes whose pressure exceeds their margin
   flow: SUBSET Edges]
Nodes ==
  [state: {"idle", "ready", "running", "waiting", "escalated", "completed"},
   wait: {"none", "waiting_for_trigger", "message_received"},
   triggers: SUBSET Triggers,
   inbox: Seq(Nat),
   read: Seq(Nat)]           \* transcript_refs

NoBaseline ==
  [status |-> "missing", brief |-> 0, order |-> <<>>, parent |-> [n \in Ids |-> NoNode],
   escalation |-> {}, assigned |-> {}, over |-> {}, flow |-> {}]
Members(b) == ToSet(b.order)
NoHandoff == [base |-> NoBaseline, nodes |-> [n \in {} |-> NoNode]]

\* The nodes of the handoff are those of its baseline.
HandoffOK(h) ==
  /\ h.base \in Baselines /\ IsInjective(h.base.order)
  /\ DOMAIN h.nodes = Members(h.base)
  /\ \A n \in DOMAIN h.nodes : h.nodes[n] \in Nodes

TypeOK ==
  /\ prefs \in Baselines /\ IsInjective(prefs.order)
  /\ HandoffOK(handoff) /\ brief \in Briefs
  /\ changes \in Nat /\ faults \in Nat
  /\ sent \in Seq(Ids) /\ dropped \subseteq DOMAIN sent

-----------------------------------------------------------------------------
(* The runtime of the nodes. *)

Fresh(b, n) ==
  [state |-> IF n \in b.assigned THEN "ready" ELSE "idle", wait |-> "none",
   triggers |-> Defaults, inbox |-> <<>>, read |-> <<>>]

\* Mutant: a node taken out of the tree stays.
MaterializeAll(b, nodes) ==
  [n \in Members(b) \cup DOMAIN nodes |-> IF n \in DOMAIN nodes THEN nodes[n] ELSE Fresh(b, n)]
\* Mutant: the messages of a node are not carried over.
MaterializeEmpty(b, nodes) ==
  [n \in Members(b) |->
     IF n \notin DOMAIN nodes THEN Fresh(b, n) ELSE [nodes[n] EXCEPT !.inbox = <<>>]]

\* _materialize_prince2_node_runtime(): a node keeps what it was, except that
\* the default triggers stand in for an empty list.
Materialize(b, nodes) ==
  [n \in Members(b) |->
     IF n \notin DOMAIN nodes THEN Fresh(b, n)
     ELSE [nodes[n] EXCEPT !.triggers = IF @ = {} THEN Defaults ELSE @]]

\* sync_prince2_role_tree_baseline()
Put(h, b) == [base |-> b, nodes |-> Materialize(b, h.nodes)]
\* _sync_prince2_roles_to_handoff()
Synced == IF prefs.status = "missing" THEN handoff ELSE Put(handoff, prefs)

Lanes(b, n) == {c \in Members(b) : b.parent[c] = n /\ c \in b.escalation}

\* The names below n that are free, and the first of them.
FreeIds(b, n) == {c \in Ids : c[1] = n[1] /\ c[2] > n[2] /\ c \notin Members(b)}
NewId(b, n) == CHOOSE c \in FreeIds(b, n) : \A d \in FreeIds(b, n) : c[2] <= d[2]

\* The tree with a child of an escalation, which has a model if n has one.
WithLane(b, n, child) ==
  [b EXCEPT !.order = Append(@, child), !.parent[child] = n,
            !.escalation = @ \cup {child},
            !.assigned = @ \cup (IF n \in @ THEN {child} ELSE {}),
            !.status = "approved"]

\* _spawn_prince2_escalation_child() without a lane. The nodes are made anew,
\* so that the state the caller then gives to the node it holds is lost.
Spawned(h, n) == Put(h, WithLane(h.base, n, NewId(h.base, n)))

\* Mutant: the pressure is only looked at while a node runs.
StateOfRunning(h, n) ==
  IF h.nodes[n].state = "running" /\ n \in h.base.over THEN "escalated" ELSE h.nodes[n].state

\* _node_tolerance_state()
State(h, n) ==
  IF h.nodes[n].state \notin {"completed", "escalated"} /\ n \in h.base.over
    THEN "escalated" ELSE h.nodes[n].state

WithNode(h, n, node) == [base |-> h.base, nodes |-> [h.nodes EXCEPT ![n] = node]]
Moved(h, n, state) == WithNode(h, n, [h.nodes[n] EXCEPT !.state = state, !.wait = "none"])

\* tick_prince2_node() where it raises no error.
Ticked(h, n) ==
  CASE State(h, n) = "escalated" ->
         IF Lanes(h.base, n) # {} THEN Moved(h, n, "escalated") ELSE Spawned(h, n)
    [] State(h, n) = "completed" -> h
    [] OTHER ->
         IF h.nodes[n].inbox = <<>> THEN Moved(h, n, "completed")
         ELSE WithNode(h, n,
                [h.nodes[n] EXCEPT !.state = "running", !.wait = "none", !.inbox = Tail(@),
                                   !.read = Append(@, Head(h.nodes[n].inbox))])

\* The bound on the ids leaves no name for the child n is to get.
NoName(h, n) ==
  State(h, n) = "escalated" /\ Lanes(h.base, n) = {} /\ FreeIds(h.base, n) = {}

CanTick(h, n) ==
  /\ \/ State(h, n) \in {"escalated", "completed", "ready", "running"}
     \/ State(h, n) = "idle" /\ h.nodes[n].inbox # <<>>
  /\ ~NoName(h, n)

\* One turn of tick_prince2_runtime(): a node that waits for a message it has
\* is woken, and is left alone when it may not be woken by one.
Turn(h, n) ==
  LET node == h.nodes[n]
      called == node.state = "waiting" /\ node.inbox # <<>>
      w == IF called THEN Moved(h, n, "ready") ELSE h
  IN IF (called /\ "message_received" \notin node.triggers) \/ State(w, n) \in {"idle", "waiting"}
     THEN h ELSE Ticked(w, n)
\* What each of the first k turns of a batch leaves. The nodes are those the
\* batch began with: a child that a turn adds has its own turn in the next one.
Batch(h, k) ==
  LET turns[i \in 0..k] == IF i = 0 THEN h ELSE Turn(turns[i - 1], h.base.order[i])
  IN turns

-----------------------------------------------------------------------------
(* The two files. *)

CrashOr(complete, incomplete) ==
  \/ complete /\ UNCHANGED faults
  \/ faults < MaxFaults /\ faults' = faults + 1 /\ incomplete

\* _persist_prince2_role_tree_baseline()
Persist(b) ==
  /\ prefs' = b
  /\ CrashOr(handoff' = Put(handoff, b), UNCHANGED handoff)

Change == changes < MaxChanges /\ changes' = changes + 1
\* Every change of the tree approves the baseline.
Approved(b) == [b EXCEPT !.status = "approved"]
Present == prefs.status # "missing"
\* The messages of a node go with it.
Forget == dropped' = dropped \cup {m \in DOMAIN sent : sent[m] \notin DOMAIN handoff'.nodes}

Init ==
  /\ prefs = NoBaseline /\ handoff = NoHandoff /\ brief = 1
  /\ changes = 0 /\ faults = 0
  /\ sent = <<>> /\ dropped = {}

\* roles tree approve, or project tree approve for a proposal made from the brief.
Approve(over, proposal) ==
  /\ Change
  /\ Persist([status |-> "approved", brief |-> IF proposal THEN brief ELSE 0, order |-> Fixed,
              parent |-> [n \in Ids |-> IF n \in ToSet(Fixed) \ {RootId} THEN RootId ELSE NoNode],
              escalation |-> {}, assigned |-> {i \in ToSet(Fixed) : i[1] \in Configured},
              over |-> over \cap ToSet(Fixed), flow |-> Edges])
  /\ Forget /\ UNCHANGED <<brief, sent>>

AddChild(n, parent) ==
  /\ Change /\ Present /\ n \notin Members(prefs) /\ parent \in Members(prefs)
  /\ Persist(Approved([prefs EXCEPT !.order = Append(@, n), !.parent[n] = parent]))
  /\ Forget /\ UNCHANGED <<brief, sent>>

Assign(n) ==
  /\ Change /\ Present /\ n \in Members(prefs)
  /\ Persist(Approved([prefs EXCEPT !.assigned = @ \cup {n}]))
  /\ Forget /\ UNCHANGED <<brief, sent>>

\* role tolerance set and reset
Tolerance(n) ==
  /\ Change /\ Present /\ n \in Members(prefs)
  /\ Persist(Approved([prefs EXCEPT !.over = IF n \in @ THEN @ \ {n} ELSE @ \cup {n}]))
  /\ Forget /\ UNCHANGED <<brief, sent>>

\* The tree without n, its children left alone or given to its parent.
Without(b, n, reparent) ==
  [b EXCEPT !.order = RemoveAt(@, CHOOSE i \in DOMAIN @ : @[i] = n),
            !.parent = [i \in Ids |-> IF i = n THEN NoNode
                                      ELSE IF reparent /\ @[i] = n THEN @[n] ELSE @[i]],
            !.escalation = @ \ {n}, !.assigned = @ \ {n}, !.over = @ \ {n},
            !.flow = {e \in @ : n \notin {e[1], e[2]}}]

RemoveNode(n, reparent) ==
  /\ Change /\ Present /\ n \in Members(prefs) \ {RootId}
  /\ Persist(Approved(Without(prefs, n, reparent)))
  /\ Forget /\ UNCHANGED <<brief, sent>>

\* project brief set and clear, with _mark_project_tree_baseline_stale_for_brief_change()
ChangeBrief(b) ==
  /\ Change
  /\ LET stale == prefs.brief \notin {0, b}
         marked == [prefs EXCEPT !.status = "stale"]
     IN /\ prefs' = IF stale THEN marked ELSE prefs
        /\ CrashOr(brief' = b /\ handoff' = IF stale THEN Put(handoff, marked) ELSE handoff,
                   UNCHANGED <<brief, handoff>>)
  /\ Forget /\ UNCHANGED <<sent>>

\* The views synchronise too, and a command may stop right after it.
Sync ==
  /\ Present /\ handoff' = Synced
  /\ Forget /\ UNCHANGED <<prefs, brief, changes, faults, sent>>

Send(source, target) ==
  /\ Len(sent) < MaxMessages
  /\ LET h == Synced
     IN /\ <<source, target>> \in h.base.flow
        /\ handoff' = WithNode(h, target,
             [h.nodes[target] EXCEPT
                !.inbox = Append(@, Len(sent) + 1),
                !.state = IF @ \in {"idle", "waiting"} THEN "ready" ELSE @,
                !.wait = IF @ # "none" THEN "message_received" ELSE @])
  /\ sent' = Append(sent, target)
  /\ Forget /\ UNCHANGED <<prefs, brief, changes, faults>>

\* role wait: its wake triggers, when they are given, take the place of the node's.
Wait(n, given) ==
  /\ LET h == Synced
     IN /\ n \in DOMAIN h.nodes
        /\ \E triggers \in given \cup {h.nodes[n].triggers} :
             handoff' = WithNode(h, n, [h.nodes[n] EXCEPT
               !.state = "waiting", !.wait = "waiting_for_trigger", !.triggers = triggers])
  /\ Forget /\ UNCHANGED <<prefs, brief, changes, faults, sent>>

Wake(n, trigger) ==
  /\ LET h == Synced
     IN /\ n \in DOMAIN h.nodes
        /\ \/ trigger \in h.nodes[n].triggers
           \/ trigger = "message_received" /\ h.nodes[n].inbox # <<>>
        /\ handoff' = Moved(h, n, "ready")
  /\ Forget /\ UNCHANGED <<prefs, brief, changes, faults, sent>>

\* A tick is saved in the handoff, and its tree then in the preferences. A
\* stale baseline is refused.
Save(h) ==
  /\ Present /\ prefs.status # "stale"
  /\ handoff' = h
  /\ CrashOr(prefs' = h.base, UNCHANGED prefs)
  /\ Forget /\ UNCHANGED <<brief, changes, sent>>

Tick(n) ==
  LET h == Synced IN n \in DOMAIN h.nodes /\ CanTick(h, n) /\ Save(Ticked(h, n))

TickAll(limit) ==
  LET h == Synced
      last == IF limit < Len(h.base.order) THEN limit ELSE Len(h.base.order)
      turns == Batch(h, last)
  IN /\ ~ \E i \in 1..last : NoName(turns[i - 1], h.base.order[i])
     /\ Save(turns[last])

Next ==
  \/ \E over \in Pressed, proposal \in BOOLEAN : Approve(over, proposal)
  \/ \E n, parent \in Ids : AddChild(n, parent)
  \/ \E n \in Ids : Assign(n) \/ Tolerance(n) \/ Tick(n) \/ Wait(n, WaitFor)
  \/ \E n \in Ids, reparent \in BOOLEAN : RemoveNode(n, reparent)
  \/ \E b \in Briefs : ChangeBrief(b)
  \/ \E source, target \in Ids : Send(source, target)
  \/ \E n \in Ids, trigger \in Triggers : Wake(n, trigger)
  \/ \E limit \in Limits : TickAll(limit)
  \/ Sync

Spec == Init /\ [][Next]_vars

-----------------------------------------------------------------------------
(* Properties. *)

\* The messages to a node, by the numbers they were sent with.
SentTo(n) == {m \in DOMAIN sent : sent[m] = n /\ m \notin dropped}
InOrder(queue) == \A i, j \in DOMAIN queue : i < j => queue[i] < queue[j]
Queue(node) == node.read \o node.inbox

\* What a node has read and what is in its inbox are the messages sent to it, each
\* once and in order, however its node is made anew.
QueueIsHistory ==
  \A n \in DOMAIN handoff.nodes :
    ToSet(Queue(handoff.nodes[n])) = SentTo(n) /\ InOrder(Queue(handoff.nodes[n]))

\* Without a crash the two files hold the same baseline after every command.
StoresAgree == faults = 0 => prefs = handoff.base

\* A node beyond its tolerance reads nothing and completes nothing, by itself or
\* in a batch.
NoWorkBeyondTolerance ==
  [][\A n \in DOMAIN handoff.nodes \cap DOMAIN handoff'.nodes :
       n \in handoff'.base.over =>
         /\ Len(handoff'.nodes[n].read) <= Len(handoff.nodes[n].read)
         /\ handoff'.nodes[n].state = "completed" => handoff.nodes[n].state = "completed"]_vars

-----------------------------------------------------------------------------
(* What the safety proofs carry from step to step.                         *)

\* The baseline of either file: no node twice, and messages run between nodes of
\* the tree, as far as the fixed edges go.
BaseOK(b) ==
  /\ b \in Baselines /\ IsInjective(b.order)
  /\ b.flow \subseteq Members(b) \X Members(b)

NodesOK(h) == DOMAIN h.nodes = Members(h.base) /\ \A n \in DOMAIN h.nodes : h.nodes[n] \in Nodes
TypeInv ==
  /\ BaseOK(prefs) /\ BaseOK(handoff.base) /\ NodesOK(handoff)
  /\ brief \in Briefs /\ changes \in Nat /\ faults \in Nat
  /\ sent \in Seq(Ids) /\ dropped \subseteq DOMAIN sent

\* Messages go to fixed nodes only, and those to a node that is gone went with it.
Addressed ==
  \A m \in DOMAIN sent :
    sent[m] \in ToSet(Fixed) /\ (m \in dropped \/ sent[m] \in DOMAIN handoff.nodes)

IInv == TypeInv /\ QueueIsHistory /\ Addressed
=============================================================================
