--------------------------- MODULE GoalLoopProofs ---------------------------
(***************************************************************************)
(* Proofs about GoalLoop for every tree, every bound and every schedule of *)
(* faults.  IInv is the inductive invariant; each action has a lemma.      *)
(***************************************************************************)
EXTENDS GoalLoop, TLAPS

(* What a checkpoint of n does to the capsules, kept or lost.              *)
Saved(n) ==
  /\ capsule' \in [Nodes -> Capsule]
  /\ unsaved' \subseteq Nodes
  /\ unsaved \subseteq unsaved'
  /\ \A m \in Nodes : m # n => capsule'[m] = capsule[m]
  /\ \/ /\ capsule'[n].status = status'[n] /\ capsule'[n].inbox = inbox'[n]
        /\ capsule'[n].cycle = cycle'[n] /\ capsule'[n].retry = retry'[n]
     \/ n \in unsaved' /\ capsule'[n] = capsule[n]
  /\ faults' \in Nat

LEMMA SaveFacts ==
  ASSUME TypeOK, NEW n \in Nodes, Save(n),
         status'[n] \in Statuses, retry'[n] \in 0..MaxRetries, cycle'[n] \in Nat,
         inbox'[n] \subseteq Nodes
  PROVE  /\ Saved(n) /\ unsaved' = unsaved
         /\ capsule'[n].status = status'[n] /\ capsule'[n].inbox = inbox'[n]
         /\ capsule'[n].cycle = cycle'[n]
<1> DEFINE r == [status |-> status'[n], retry |-> retry'[n], cycle |-> cycle'[n], inbox |-> inbox'[n]]
<1>1. r \in Capsule
  BY DEF Capsule
<1>2. capsule' = [capsule EXCEPT ![n] = r] /\ UNCHANGED <<unsaved, faults>>
  BY DEF Save
<1>3. capsule'[n] = r /\ \A m \in Nodes : m # n => capsule'[m] = capsule[m]
  BY <1>2 DEF TypeOK
<1>4. capsule' \in [Nodes -> Capsule]
  <2> HIDE DEF r
  <2> QED BY <1>1, <1>2 DEF TypeOK
<1> QED
  BY <1>2, <1>3, <1>4 DEF Saved, TypeOK

LEMMA EmitFacts ==
  ASSUME TypeOK, NEW n \in Nodes, Emit(n),
         status'[n] \in Statuses, retry'[n] \in 0..MaxRetries, cycle'[n] \in Nat,
         inbox'[n] \subseteq Nodes
  PROVE  Saved(n) /\ unsaved' \subseteq unsaved \cup {n}
<1>1. CASE Save(n)
  BY <1>1, SaveFacts
<1>2. CASE ~Save(n)
  BY <1>2 DEF Emit, Saved, TypeOK
<1> QED
  BY <1>1, <1>2

LEMMA InitIInv == Init => IInv
<1> SUFFICES ASSUME Init PROVE IInv
  OBVIOUS
<1>1. TypeOK
  BY TreeAssumption DEF Init, TypeOK, Statuses, Active, Capsule, NoCapsule
<1>2. CompletedAfterDeps /\ DurableEvidence /\ CurrentNode
  BY TreeAssumption DEF Init, CompletedAfterDeps, DurableEvidence, NoCapsule, CurrentNode, Busy
<1>3. Agreement /\ DurableOrder
  BY TreeAssumption DEF Init, Agreement, DurableOrder, NoCapsule
<1>4. \A n \in Nodes : Counted(n)
  BY TreeAssumption DEF Init, Counted, NoCapsule
<1> QED
  BY <1>1, <1>2, <1>3, <1>4 DEF IInv

(* A step that leaves nodes and capsules alone and keeps the current node. *)
LEMMA QuietStep ==
  ASSUME IInv, TypeOK', UNCHANGED <<status, cycle, inbox, capsule, unsaved, executed, cur>>,
         Busy' => Busy /\ (pc' \in {"gate", "work", "judge", "error"} => pc' = pc),
         pc \in {"judge", "error", "down"} => pc' \in {"down", "judge", "error"}
  PROVE  IInv'
<1>1. CompletedAfterDeps' /\ DurableEvidence' /\ DurableOrder'
  BY DEF IInv, CompletedAfterDeps, DurableEvidence, DurableOrder
<1>2. Agreement' /\ CurrentNode'
  BY DEF IInv, Agreement, CurrentNode, Current, Busy
<1>3. \A n \in Nodes \ unsaved' : Counted(n)'
  BY DEF IInv, Counted, Busy
<1> QED
  BY <1>1, <1>2, <1>3 DEF IInv

LEMMA StartKeepsInv == IInv /\ Start => IInv'
<1> SUFFICES ASSUME IInv, Start PROVE IInv'
  OBVIOUS
<1> USE TreeAssumption
<1>1. TypeOK'
  <2>1. status' \in [Nodes -> Statuses]
    BY DEF IInv, TypeOK, Start, RestoredStatus, Capsule, Statuses
  <2>2. retry' \in [Nodes -> 0..MaxRetries] /\ cycle' \in [Nodes -> Nat]
    BY DEF IInv, TypeOK, Start, Capsule
  <2>3. inbox' \in [Nodes -> SUBSET Nodes] /\ noted' \in [Nodes -> SUBSET Statuses]
    BY DEF IInv, TypeOK, Start, Capsule
  <2> QED
    BY <2>1, <2>2, <2>3 DEF IInv, TypeOK, Start, Active, durable
<1>2. \A n \in Nodes : status'[n] = "completed" <=> capsule[n].status = "completed"
  BY DEF Start, RestoredStatus
<1>3. CompletedAfterDeps' /\ DurableEvidence'
  BY <1>2 DEF IInv, CompletedAfterDeps, DurableEvidence, DurableOrder, Start, durable
<1>4. Agreement' /\ DurableOrder' /\ CurrentNode'
  BY <1>2 DEF IInv, Agreement, DurableOrder, CurrentNode, Start, durable, Busy
<1>5. \A n \in Nodes \ unsaved' : Counted(n)'
  <2> SUFFICES ASSUME NEW n \in Nodes \ unsaved PROVE Counted(n)'
    BY DEF Start, durable
  <2>1. Counted(n) /\ executed[n] \in Nat
    BY DEF IInv, TypeOK
  <2>2. cycle'[n] = IF Open(n) THEN capsule[n].cycle ELSE 0
    BY DEF Start
  <2> QED
    BY <1>2, <2>1, <2>2 DEF Counted, Start, Open, durable, Busy
<1> QED
  BY <1>1, <1>3, <1>4, <1>5 DEF IInv

(* The chosen node is ready: neither it nor anything after it is completed. *)
LEMMA ChosenFacts ==
  ASSUME IInv, NEW n \in Nodes, Choose(n)
  PROVE  /\ status[n] \in {"pending", "blocked"}
         /\ \A d \in Deps[n] : d # n /\ status[d] = "completed"
         /\ n \notin unsaved => \A m \in Nodes : n \in Deps[m] =>
              status[m] # "completed" /\ capsule[m].status # "completed"
<1>1. /\ status[n] \in {"pending", "blocked"}
      /\ \A d \in Deps[n] : status[d] = "completed"
  BY DEF Choose, First, Ready
<1>2. n \notin unsaved => capsule[n].status # "completed"
  BY <1>1 DEF IInv, Agreement, Current, Choose
<1> QED
  BY <1>1, <1>2 DEF IInv, CompletedAfterDeps, DurableOrder

(* Begin and Exhaust: the chosen node becomes current, and its capsule is  *)
(* saved.                                                                  *)
LEMMA ChooseKeepsInv ==
  ASSUME IInv, NEW n \in Nodes, Begin(n) \/ Exhaust(n)
  PROVE  IInv'
<1> USE TreeAssumption
<1>1. Choose(n) /\ Emit(n)
  BY DEF Begin, Exhaust
<1>2. PICK s \in {"running", "blocked"} :
        /\ status' = [status EXCEPT ![n] = s]
        /\ pc' = IF s = "running" THEN "gate" ELSE "record"
        /\ s = "running" => cycle[n] < MaxCycles /\ executed' = [executed EXCEPT ![n] = @ + 1]
        /\ s = "blocked" => executed' = executed
  BY DEF Begin, Exhaust
<1>3. /\ cur' = n /\ iteration' = iteration + 1 /\ iteration < MaxIterations
      /\ cycle' = [cycle EXCEPT ![n] = @ + 1]
      /\ runs' = runs /\ retry' = retry /\ inbox' = inbox /\ noted' = noted
      /\ issues' = issues /\ saved' = saved /\ pc = "loop"
  BY <1>1 DEF Choose, register
<1>4. TypeOK
  BY DEF IInv
<1>5. status'[n] \in Statuses /\ retry'[n] \in 0..MaxRetries /\ cycle'[n] \in Nat /\ inbox'[n] \subseteq Nodes
  BY <1>2, <1>3, <1>4 DEF TypeOK, Statuses
<1>6. Saved(n) /\ unsaved' \subseteq unsaved \cup {n}
  BY <1>1, <1>4, <1>5, EmitFacts
<1>7. TypeOK'
  <2>1. executed' \in [Nodes -> Nat]
    BY <1>2, <1>4 DEF TypeOK
  <2>2. status' \in [Nodes -> Statuses] /\ cycle' \in [Nodes -> Nat] /\ iteration' \in 0..MaxIterations
    BY <1>2, <1>3, <1>4 DEF TypeOK, Statuses
  <2> QED
    BY <1>2, <1>3, <1>4, <1>6, <2>1, <2>2 DEF TypeOK, Saved, Active
<1>8. /\ status'[n] # "completed"
      /\ \A m \in Nodes : m # n => status'[m] = status[m] /\ cycle'[m] = cycle[m] /\ executed'[m] = executed[m]
  BY <1>2, <1>3, <1>4 DEF TypeOK
<1>9. /\ status[n] \in {"pending", "blocked"}
      /\ \A d \in Deps[n] : d # n /\ status[d] = "completed"
      /\ n \notin unsaved => \A m \in Nodes : n \in Deps[m] =>
           status[m] # "completed" /\ capsule[m].status # "completed"
  BY <1>1, ChosenFacts
<1>10. CompletedAfterDeps' /\ DurableEvidence'
  <2>1. CompletedAfterDeps'
    BY <1>6, <1>8, <1>9 DEF IInv, CompletedAfterDeps, Saved
  <2>2. DurableEvidence'
    <3> SUFFICES ASSUME NEW m \in Nodes, Parent[m] # NoNode,
                        status'[m] = "completed" \/ capsule'[m].status = "completed"
                 PROVE  m \in capsule'[Parent[m]].inbox
      BY DEF DurableEvidence
    <3>1. status[m] = "completed" \/ capsule[m].status = "completed"
      BY <1>6, <1>8 DEF Saved
    <3>2. m \in capsule[Parent[m]].inbox /\ m \in inbox[Parent[m]]
      BY <3>1 DEF IInv, DurableEvidence, Agreement
    <3> QED
      BY <1>3, <1>6, <3>2 DEF Saved
  <2> QED
    BY <2>1, <2>2
<1>11. Agreement'
  <2>1. \A m \in Nodes : capsule'[m].inbox \subseteq inbox'[m]
    BY <1>3, <1>6 DEF IInv, Agreement, Saved
  <2>2. \A m \in Nodes \ unsaved' : status'[m] = "completed" <=> capsule'[m].status = "completed"
    BY <1>3, <1>6, <1>8 DEF IInv, Agreement, Saved, Current
  <2> QED
    BY <2>1, <2>2 DEF Agreement
<1>12. \A m \in Nodes : capsule'[m].status = "completed" => capsule[m].status = "completed"
  BY <1>6, <1>8 DEF Saved
<1>13. DurableOrder'
  BY <1>6, <1>9, <1>12 DEF IInv, DurableOrder, Saved
<1>14. CurrentNode'
  <2>1. \A d \in Deps[n] : d # n /\ status'[d] = "completed"
    BY <1>8, <1>9
  <2>2. n \notin unsaved' => \A m \in Nodes : n \in Deps[m] =>
          status'[m] # "completed" /\ capsule'[m].status # "completed"
    BY <1>6, <1>8, <1>9, <1>12 DEF Saved
  <2>3. pc' \in {"gate", "work"} => status'[n] = "running"
    BY <1>2, <1>4 DEF TypeOK
  <2>4. pc' \notin {"judge", "error"}
    BY <1>2
  <2> QED
    BY <1>3, <2>1, <2>2, <2>3, <2>4 DEF CurrentNode
<1>15. \A m \in Nodes \ unsaved' : Counted(m)'
  <2> SUFFICES ASSUME NEW m \in Nodes \ unsaved' PROVE Counted(m)'
    OBVIOUS
  <2>1. Counted(m) /\ executed[m] \in Nat /\ cycle[m] \in Nat
    BY <1>6 DEF IInv, TypeOK, Saved
  <2>2. CASE m # n
    BY <1>3, <1>6, <1>8, <2>1, <2>2 DEF Counted, Saved, Busy
  <2>3. CASE m = n
    <3>1. cycle'[n] = cycle[n] + 1 /\ executed[n] <= cycle[n]
      BY <1>3, <1>4, <1>9, <2>1, <2>3 DEF Counted, TypeOK
    <3>2. executed'[n] <= cycle'[n] /\ executed'[n] <= MaxCycles
      BY <1>2, <1>4, <2>1, <2>3, <3>1 DEF Counted, TypeOK
    <3>3. capsule'[n].status = status'[n] /\ capsule'[n].cycle = cycle'[n]
      BY <1>6, <2>3 DEF Saved
    <3> QED
      BY <1>2, <1>4, <2>3, <3>2, <3>3 DEF Counted, TypeOK
  <2> QED
    BY <2>2, <2>3
<1> QED
  BY <1>7, <1>10, <1>11, <1>13, <1>14, <1>15 DEF IInv

(* A step of the current node: everything but its status, and the results  *)
(* it hands to its parent, stays as it is.                                 *)
OwnStep(s) ==
  /\ status' = [status EXCEPT ![cur] = s]
  /\ cur' = cur /\ cycle' = cycle /\ executed' = executed /\ iteration' = iteration
  /\ runs' = runs /\ noted' = noted /\ issues' = issues

(* Refuse, Fail and Raise: the node is blocked, no capsule changes.        *)
LEMMA BlockKeepsInv ==
  ASSUME IInv, Refuse \/ Fail \/ Raise \/ RaiseInDelivery
  PROVE  IInv'
<1> USE TreeAssumption
<1>1. /\ OwnStep("blocked") /\ retry' = retry /\ capsule' = capsule /\ unsaved' = unsaved
      /\ pc \in {"gate", "work", "record"} /\ pc' \in {"record", "judge", "error"}
      /\ pc' = "record" => pc = "gate"
      /\ faults' \in Nat /\ saved' \in {saved, issues}
      /\ inbox' = inbox \/ inbox' = [inbox EXCEPT ![Parent[cur]] = @ \cup {cur}]
  BY DEF IInv, TypeOK, Refuse, Fail, Raise, RaiseInDelivery, OwnStep, Goto, nodeVars, durable, register
<1>2. TypeOK /\ cur \in Nodes
  BY <1>1 DEF IInv, TypeOK
<1>3. /\ status'[cur] = "blocked"
      /\ \A m \in Nodes : m # cur => status'[m] = status[m]
      /\ \A m \in Nodes : inbox[m] \subseteq inbox'[m]
  BY <1>1, <1>2 DEF OwnStep, TypeOK
<1>4. TypeOK'
  <2>1. status' \in [Nodes -> Statuses] /\ inbox' \in [Nodes -> SUBSET Nodes]
    BY <1>1, <1>2 DEF OwnStep, TypeOK, Statuses
  <2> QED
    BY <1>1, <1>2, <2>1 DEF OwnStep, TypeOK, Active
<1>5. CurrentNode /\ Busy
  BY <1>1 DEF IInv, Busy
<1>6. CompletedAfterDeps'
  BY <1>1, <1>2, <1>3, <1>5 DEF IInv, CompletedAfterDeps, CurrentNode
<1>7. DurableEvidence' /\ DurableOrder'
  BY <1>1, <1>2, <1>3 DEF IInv, DurableEvidence, DurableOrder
<1>8. pc \in {"gate", "work"} /\ cur \notin unsaved => capsule[cur].status # "completed"
  BY <1>2, <1>5 DEF IInv, CurrentNode, Agreement, Current
<1>9. Agreement'
  <2>1. \A m \in Nodes : capsule'[m].inbox \subseteq inbox'[m]
    BY <1>1, <1>3 DEF IInv, Agreement
  <2>2. ASSUME NEW m \in Nodes \ unsaved', Current(m)'
        PROVE  status'[m] = "completed" <=> capsule'[m].status = "completed"
    <3>1. CASE m # cur
      BY <1>1, <1>3, <2>2, <3>1 DEF IInv, Agreement, Current
    <3>2. CASE m = cur
      BY <1>1, <1>2, <1>3, <1>8, <2>2, <3>2 DEF Current, OwnStep
    <3> QED
      BY <3>1, <3>2
  <2> QED
    BY <2>1, <2>2 DEF Agreement
<1>10. CurrentNode'
  <2>1. \A d \in Deps[cur] : d # cur /\ status'[d] = "completed"
    BY <1>2, <1>3, <1>5 DEF CurrentNode
  <2>2. cur \notin unsaved' => \A m \in Nodes : cur \in Deps[m] =>
          status'[m] # "completed" /\ capsule'[m].status # "completed"
    BY <1>1, <1>3, <1>5 DEF CurrentNode
  <2> QED
    BY <1>1, <1>3, <2>1, <2>2 DEF CurrentNode, OwnStep
<1>11. \A m \in Nodes \ unsaved' : Counted(m)'
  BY <1>1, <1>2, <1>3, <1>5 DEF IInv, Counted, OwnStep, Busy
<1> QED
  BY <1>4, <1>6, <1>7, <1>9, <1>10, <1>11 DEF IInv

(* Allow, ReportError and Judge: the capsule of the current node is saved. *)
LEMMA EventKeepsInv ==
  ASSUME IInv, Allow \/ ReportError \/ Judge
  PROVE  IInv'
<1> USE TreeAssumption
<1>1. TypeOK /\ CurrentNode
  BY DEF IInv
<1>2. PICK s \in Statuses :
        /\ OwnStep(s) /\ inbox' = inbox /\ saved' = saved /\ Emit(cur)
        /\ \/ pc = "gate" /\ pc' = "work" /\ s = "running" /\ retry' = retry
           \/ pc = "error" /\ pc' = "recordError" /\ s = "blocked" /\ retry' = retry
           \/ /\ pc = "judge" /\ pc' = "record" /\ retry' \in [Nodes -> 0..MaxRetries]
              /\ s = "completed" => status[cur] = "completed"
  <2>1. CASE Allow \/ ReportError
    <3>1. pc \in {"gate", "error"} /\ cur \in Nodes
      BY <1>1, <2>1 DEF Allow, ReportError, Goto, TypeOK
    <3>2. status[cur] = IF pc = "gate" THEN "running" ELSE "blocked"
      BY <1>1, <3>1 DEF CurrentNode, Busy
    <3>3. status = [status EXCEPT ![cur] = status[cur]]
      BY <1>1, <3>1 DEF TypeOK
    <3> QED
      BY <2>1, <3>1, <3>2, <3>3 DEF Allow, ReportError, Goto, OwnStep, nodeVars, register, Statuses
  <2>2. CASE Judge
    <3>1. pc = "judge" /\ pc' = "record" /\ cur \in Nodes /\ retry[cur] \in 0..MaxRetries /\ status[cur] \in Statuses
      BY <1>1, <2>2 DEF Judge, Goto, TypeOK
    <3>2. PICK v \in Verdict :
            IF v = "blocked" /\ retry[cur] < MaxRetries
              THEN status' = [status EXCEPT ![cur] = "pending"] /\ retry' = [retry EXCEPT ![cur] = @ + 1]
              ELSE status' = [status EXCEPT ![cur] = v] /\ retry' = retry
      BY <2>2 DEF Judge
    <3>3. v \in Statuses /\ (v = "completed" => status[cur] = "completed")
      BY <3>1 DEF Verdict, Statuses
    <3>4. retry' \in [Nodes -> 0..MaxRetries]
      BY <1>1, <3>1, <3>2 DEF TypeOK
    <3>5. PICK s \in {v, "pending"} : status' = [status EXCEPT ![cur] = s]
      BY <3>2
    <3> QED
      BY <2>2, <3>1, <3>3, <3>4, <3>5 DEF Judge, Goto, OwnStep, register, Statuses
  <2> QED
    BY <2>1, <2>2
<1>3. cur \in Nodes /\ Busy
  BY <1>1, <1>2 DEF TypeOK, Busy
<1>4. /\ status'[cur] = s
      /\ \A m \in Nodes : m # cur => status'[m] = status[m]
      /\ status' \in [Nodes -> Statuses] /\ retry' \in [Nodes -> 0..MaxRetries]
  BY <1>1, <1>2, <1>3 DEF OwnStep, TypeOK
<1>5. Saved(cur) /\ unsaved' \subseteq unsaved \cup {cur}
  BY <1>1, <1>2, <1>3, <1>4, EmitFacts DEF OwnStep, TypeOK
<1>6. TypeOK'
  BY <1>1, <1>2, <1>3, <1>4, <1>5 DEF OwnStep, TypeOK, Saved, Active
<1>7. s = "completed" => pc = "judge" /\ status[cur] = "completed"
  BY <1>2
<1>8. \A m \in Nodes :
        /\ status'[m] = "completed" => status[m] = "completed"
        /\ capsule'[m].status = "completed" => status[m] = "completed" \/ capsule[m].status = "completed"
  BY <1>4, <1>5, <1>7 DEF Saved
<1>9. Agreement'
  <2>1. \A m \in Nodes : capsule'[m].inbox \subseteq inbox'[m]
    BY <1>2, <1>5 DEF IInv, Agreement, Saved
  <2>2. ASSUME NEW m \in Nodes \ unsaved' PROVE status'[m] = "completed" <=> capsule'[m].status = "completed"
    <3>1. CASE m # cur
      BY <1>4, <1>5, <2>2, <3>1 DEF IInv, Agreement, Current, Saved
    <3>2. CASE m = cur
      BY <1>5, <2>2, <3>2 DEF Saved
    <3> QED
      BY <3>1, <3>2
  <2> QED
    BY <2>1, <2>2 DEF Agreement
<1>10. DurableOrder'
  <2> SUFFICES ASSUME NEW m \in Nodes, capsule'[m].status = "completed",
                      NEW d \in Deps[m] \ unsaved'
               PROVE  capsule'[d].status = "completed"
    BY DEF DurableOrder
  <2>1. CASE capsule[m].status = "completed"
    BY <1>1, <1>3, <1>5, <2>1 DEF IInv, DurableOrder, CurrentNode, Saved
  <2>2. CASE capsule[m].status # "completed"
    <3>1. m = cur
      BY <1>4, <1>5, <2>2 DEF Saved
    <3>2. d # cur /\ status[d] = "completed" /\ capsule[d].status = "completed"
      BY <1>1, <1>3, <1>5, <3>1 DEF IInv, CurrentNode, Agreement, Current, Saved
    <3> QED
      BY <1>5, <3>2 DEF Saved
  <2> QED
    BY <2>1, <2>2
<1>11. CurrentNode'
  <2>1. \A d \in Deps[cur] : d # cur /\ status'[d] = "completed"
    BY <1>1, <1>3, <1>4 DEF CurrentNode
  <2>2. cur \notin unsaved' => \A m \in Nodes : cur \in Deps[m] =>
          status'[m] # "completed" /\ capsule'[m].status # "completed"
    <3> SUFFICES ASSUME cur \notin unsaved', NEW m \in Nodes, cur \in Deps[m]
                 PROVE  status'[m] # "completed" /\ capsule'[m].status # "completed"
      OBVIOUS
    <3>1. m # cur /\ status[m] # "completed" /\ capsule[m].status # "completed"
      BY <1>1, <1>3, <1>5 DEF CurrentNode, Saved
    <3> QED
      BY <1>4, <1>5, <3>1 DEF Saved
  <2>3. pc' \in {"gate", "work"} => status'[cur] = "running"
    BY <1>2, <1>4
  <2>4. pc' \notin {"judge", "error"}
    BY <1>2
  <2> QED
    BY <1>2, <2>1, <2>2, <2>3, <2>4 DEF CurrentNode, OwnStep
<1>12. \A m \in Nodes \ unsaved' : Counted(m)'
  <2> SUFFICES ASSUME NEW m \in Nodes \ unsaved' PROVE Counted(m)'
    OBVIOUS
  <2>1. Counted(m)
    BY <1>5 DEF IInv, Saved
  <2>2. CASE m # cur
    BY <1>2, <1>4, <1>5, <2>1, <2>2 DEF Counted, Saved, OwnStep, Busy
  <2>3. CASE m = cur
    BY <1>2, <1>3, <1>4, <1>5, <2>1, <2>3 DEF Counted, Saved, OwnStep, Statuses
  <2> QED
    BY <2>2, <2>3
<1>13. CompletedAfterDeps'
  <2> SUFFICES ASSUME NEW m \in Nodes, status'[m] = "completed", NEW d \in Deps[m] \ unsaved'
               PROVE  status'[d] = "completed"
    BY DEF CompletedAfterDeps
  <2>1. status[d] = "completed" /\ d \notin unsaved /\ status[m] = "completed"
    BY <1>5, <1>8 DEF IInv, CompletedAfterDeps, Saved
  <2>2. d # cur
    BY <1>1, <1>3, <2>1 DEF CurrentNode
  <2> QED
    BY <1>4, <2>1, <2>2
<1>14. DurableEvidence'
  <2> SUFFICES ASSUME NEW m \in Nodes, Parent[m] # NoNode,
                      status'[m] = "completed" \/ capsule'[m].status = "completed"
               PROVE  m \in capsule'[Parent[m]].inbox
    BY DEF DurableEvidence
  <2>1. m \in capsule[Parent[m]].inbox /\ m \in inbox[Parent[m]]
    BY <1>8 DEF IInv, DurableEvidence, Agreement
  <2> QED
    BY <1>2, <1>5, <2>1 DEF Saved
<1> QED
  BY <1>6, <1>9, <1>10, <1>11, <1>12, <1>13, <1>14 DEF IInv

(* Succeed: the result reaches the parent's inbox and capsule before the   *)
(* node's own capsule says that it is completed.                           *)
LEMMA SucceedKeepsInv ==
  ASSUME IInv, Succeed
  PROVE  IInv'
<1> USE TreeAssumption
<1>1. TypeOK /\ CurrentNode /\ pc = "work" /\ pc' = "judge"
  BY DEF IInv, Succeed, Goto
<1>2. cur \in Nodes /\ Busy
  BY <1>1 DEF TypeOK, Busy
<1>3. /\ OwnStep("completed") /\ retry' = retry /\ saved' = saved
      /\ inbox' = [n \in Nodes |-> IF n = Parent[cur] THEN inbox[n] \cup {cur} ELSE inbox[n]]
      /\ IF Parent[cur] = NoNode THEN capsule' = capsule /\ unsaved' = unsaved /\ faults' = faults
                                 ELSE Save(Parent[cur])
  BY DEF Succeed, Goto, OwnStep, register, durable
<1>4. /\ status'[cur] = "completed"
      /\ \A m \in Nodes : m # cur => status'[m] = status[m]
      /\ status' \in [Nodes -> Statuses] /\ inbox' \in [Nodes -> SUBSET Nodes]
      /\ \A m \in Nodes : inbox[m] \subseteq inbox'[m]
      /\ Parent[cur] # NoNode => cur \in inbox'[Parent[cur]]
  <2>1. status' \in [Nodes -> Statuses] /\ inbox' \in [Nodes -> SUBSET Nodes]
    BY <1>1, <1>2, <1>3 DEF OwnStep, TypeOK, Statuses
  <2>2. status'[cur] = "completed" /\ \A m \in Nodes : m # cur => status'[m] = status[m]
    BY <1>1, <1>2, <1>3 DEF OwnStep, TypeOK
  <2>3. /\ \A m \in Nodes : inbox[m] \subseteq inbox'[m]
        /\ Parent[cur] # NoNode => cur \in inbox'[Parent[cur]]
    BY <1>2, <1>3
  <2> QED
    BY <2>1, <2>2, <2>3
<1>5. ASSUME Parent[cur] # NoNode
      PROVE  /\ Parent[cur] \in Nodes /\ Parent[cur] # cur /\ Saved(Parent[cur])
             /\ capsule'[Parent[cur]].status = status'[Parent[cur]]
             /\ capsule'[Parent[cur]].inbox = inbox'[Parent[cur]]
             /\ capsule'[Parent[cur]].cycle = cycle'[Parent[cur]]
  <2>1. Parent[cur] \in Nodes /\ Parent[cur] # cur
    BY <1>2, <1>5
  <2>2. Save(Parent[cur])
    BY <1>3, <1>5
  <2>3. /\ status'[Parent[cur]] \in Statuses /\ retry'[Parent[cur]] \in 0..MaxRetries
        /\ cycle'[Parent[cur]] \in Nat /\ inbox'[Parent[cur]] \subseteq Nodes
    BY <1>1, <1>3, <1>4, <2>1 DEF OwnStep, TypeOK
  <2> QED
    BY <1>1, <2>1, <2>2, <2>3, SaveFacts
<1>6. unsaved' = unsaved
  BY <1>3 DEF Save
<1>7. /\ capsule' \in [Nodes -> Capsule] /\ faults' \in Nat
      /\ \A m \in Nodes : m # Parent[cur] => capsule'[m] = capsule[m]
      /\ \A m \in Nodes : m = Parent[cur] =>
           /\ capsule'[m].status = status'[m] /\ capsule'[m].inbox = inbox'[m]
           /\ capsule'[m].cycle = cycle'[m]
  <2>1. CASE Parent[cur] = NoNode
    BY <1>1, <1>3, <2>1 DEF TypeOK
  <2>2. CASE Parent[cur] # NoNode
    BY <1>5, <2>2 DEF Saved
  <2> QED
    BY <2>1, <2>2
<1>8. TypeOK'
  BY <1>1, <1>2, <1>3, <1>4, <1>6, <1>7 DEF OwnStep, TypeOK, Active
<1>9. status[cur] = "running"
  BY <1>1, <1>2 DEF CurrentNode
<1>10. CompletedAfterDeps'
  <2> SUFFICES ASSUME NEW m \in Nodes, status'[m] = "completed", NEW d \in Deps[m] \ unsaved
               PROVE  status'[d] = "completed"
    BY <1>6 DEF CompletedAfterDeps
  <2>1. CASE m = cur
    BY <1>1, <1>2, <1>4, <2>1 DEF CurrentNode
  <2>2. CASE m # cur
    BY <1>4, <2>2 DEF IInv, CompletedAfterDeps
  <2> QED
    BY <2>1, <2>2
<1>11. Agreement'
  <2>1. \A m \in Nodes : capsule'[m].inbox \subseteq inbox'[m]
    BY <1>4, <1>7 DEF IInv, Agreement
  <2>2. ASSUME NEW m \in Nodes \ unsaved', Current(m)'
        PROVE  status'[m] = "completed" <=> capsule'[m].status = "completed"
    <3>1. m # cur /\ cur' = cur
      BY <1>1, <1>3, <2>2 DEF Current, OwnStep
    <3> QED
      BY <1>4, <1>6, <1>7, <2>2, <3>1 DEF IInv, Agreement, Current
  <2> QED
    BY <2>1, <2>2 DEF Agreement
<1>12. DurableEvidence'
  <2> SUFFICES ASSUME NEW m \in Nodes, Parent[m] # NoNode,
                      status'[m] = "completed" \/ capsule'[m].status = "completed"
               PROVE  m \in capsule'[Parent[m]].inbox
    BY DEF DurableEvidence
  <2>1. CASE m = cur
    BY <1>4, <1>5, <1>7, <2>1
  <2>2. CASE m # cur
    <3>1. status[m] = "completed" \/ capsule[m].status = "completed"
      BY <1>4, <1>7, <2>2
    <3>2. m \in capsule[Parent[m]].inbox /\ m \in inbox[Parent[m]] /\ Parent[m] \in Nodes
      BY <3>1 DEF IInv, DurableEvidence, Agreement
    <3> QED
      BY <1>4, <1>7, <3>2
  <2> QED
    BY <2>1, <2>2
<1>13. DurableOrder'
  <2> SUFFICES ASSUME NEW m \in Nodes, capsule'[m].status = "completed", NEW d \in Deps[m] \ unsaved
               PROVE  capsule'[d].status = "completed"
    BY <1>6 DEF DurableOrder
  <2>1. capsule[d].status = "completed"
    <3>1. CASE capsule[m].status = "completed"
      BY <3>1 DEF IInv, DurableOrder
    <3>2. CASE capsule[m].status # "completed"
      <4>1. status[m] = "completed"
        BY <1>4, <1>5, <1>7, <3>2
      <4>2. status[d] = "completed" /\ d # cur
        BY <1>9, <4>1 DEF IInv, CompletedAfterDeps
      <4> QED
        BY <4>2 DEF IInv, Agreement, Current
    <3> QED
      BY <3>1, <3>2
  <2>2. CASE d = Parent[cur]
    <3>1. d # cur
      BY <1>2, <2>2
    <3>2. status[d] = "completed"
      BY <2>1, <3>1 DEF IInv, Agreement, Current
    <3> QED
      BY <1>4, <1>7, <2>2, <3>1, <3>2
  <2> QED
    BY <1>7, <2>1, <2>2
<1>14. CurrentNode'
  <2>1. \A d \in Deps[cur] : d # cur /\ status'[d] = "completed"
    BY <1>1, <1>2, <1>4 DEF CurrentNode
  <2>2. cur \notin unsaved' => \A m \in Nodes : cur \in Deps[m] =>
          status'[m] # "completed" /\ capsule'[m].status # "completed"
    <3> SUFFICES ASSUME cur \notin unsaved, NEW m \in Nodes, cur \in Deps[m]
                 PROVE  status'[m] # "completed" /\ capsule'[m].status # "completed"
      BY <1>6
    <3>1. m # cur /\ status[m] # "completed" /\ capsule[m].status # "completed"
      BY <1>1, <1>2 DEF CurrentNode
    <3> QED
      BY <1>4, <1>7, <3>1
  <2> QED
    BY <1>1, <1>3, <2>1, <2>2 DEF CurrentNode, OwnStep
<1>15. \A m \in Nodes \ unsaved' : Counted(m)'
  <2> SUFFICES ASSUME NEW m \in Nodes \ unsaved PROVE Counted(m)'
    BY <1>6
  <2>1. Counted(m)
    BY DEF IInv
  <2>2. executed' = executed /\ cycle' = cycle /\ cur' = cur /\ Busy' /\ Busy
    BY <1>1, <1>2, <1>3 DEF OwnStep, Busy
  <2>3. CASE m = cur
    <3>1. capsule'[cur] = capsule[cur]
      BY <1>2, <1>5, <1>7
    <3> QED
      BY <1>9, <2>1, <2>2, <2>3, <3>1 DEF Counted
  <2>4. CASE m # cur
    <3>1. status'[m] = status[m]
      BY <1>4, <2>4
    <3>2. CASE m = Parent[cur]
      <4>1. capsule'[m].status = status[m] /\ capsule'[m].cycle = cycle[m] /\ status[m] # "none"
        BY <1>1, <1>7, <2>2, <3>1, <3>2 DEF TypeOK, Statuses
      <4> QED
        BY <2>1, <2>2, <2>4, <3>1, <4>1 DEF Counted
    <3>3. CASE m # Parent[cur]
      BY <1>7, <2>1, <2>2, <2>4, <3>1, <3>3 DEF Counted
    <3> QED
      BY <3>2, <3>3
  <2> QED
    BY <2>3, <2>4
<1> QED
  BY <1>8, <1>10, <1>11, <1>12, <1>13, <1>14, <1>15 DEF IInv

(* Record, Register, Finish and Crash leave nodes and capsules alone.      *)
LEMMA OtherKeepsInv ==
  ASSUME IInv, Record \/ Register \/ Finish \/ Crash
  PROVE  IInv'
<1> USE TreeAssumption
<1>1. TypeOK
  BY DEF IInv
<1>2. CASE Record \/ Finish \/ Crash
  <2>1. TypeOK'
    BY <1>1, <1>2 DEF Record, Finish, Crash, Goto, TypeOK, Active, nodeVars, durable, register
  <2> QED
    BY <1>2, <2>1, QuietStep DEF Record, Finish, Crash, Goto, Active, Busy, nodeVars, durable, register
<1>3. CASE Register
  <2>1. TypeOK'
    <3>1. cur \in Nodes
      BY <1>1, <1>3 DEF Register, TypeOK
    <3>2. noted' \in [Nodes -> SUBSET Statuses] /\ issues' \in [Nodes -> Nat]
      BY <1>1, <1>3, <3>1 DEF Register, TypeOK
    <3> QED
      BY <1>1, <1>3, <3>2 DEF Register, TypeOK, Active, durable
  <2>2. /\ UNCHANGED <<status, cycle, inbox, capsule, unsaved, executed>>
        /\ pc = "register" /\ pc' = "loop"
    BY <1>3 DEF Register, durable
  <2>3. CompletedAfterDeps' /\ DurableEvidence' /\ DurableOrder' /\ CurrentNode'
    BY <2>2 DEF IInv, CompletedAfterDeps, DurableEvidence, DurableOrder, CurrentNode, Busy
  <2>4. Agreement'
    BY <2>2 DEF IInv, Agreement, Current
  <2>5. \A n \in Nodes \ unsaved' : Counted(n)'
    BY <2>2 DEF IInv, Counted, Busy
  <2> QED
    BY <2>1, <2>3, <2>4, <2>5 DEF IInv
<1> QED
  BY <1>2, <1>3

LEMMA NextIInv == IInv /\ [Next]_vars => IInv'
<1> SUFFICES ASSUME IInv, [Next]_vars PROVE IInv'
  OBVIOUS
<1>1. CASE Start
  BY <1>1, StartKeepsInv
<1>2. CASE \E n \in Nodes : Begin(n) \/ Exhaust(n)
  BY <1>2, ChooseKeepsInv
<1>3. CASE Refuse \/ Fail \/ Raise \/ RaiseInDelivery
  BY <1>3, BlockKeepsInv
<1>4. CASE Allow \/ ReportError \/ Judge
  BY <1>4, EventKeepsInv
<1>5. CASE Succeed
  BY <1>5, SucceedKeepsInv
<1>6. CASE Record \/ Register \/ Finish \/ Crash
  BY <1>6, OtherKeepsInv
<1>7. CASE UNCHANGED vars
  <2>1. TypeOK'
    BY <1>7 DEF IInv, TypeOK, vars, nodeVars, durable, register, control
  <2> QED
    BY <1>7, <2>1, QuietStep DEF vars, nodeVars, durable, register, control, Busy
<1> QED
  BY <1>1, <1>2, <1>3, <1>4, <1>5, <1>6, <1>7 DEF Next, Step

-----------------------------------------------------------------------------
(* The inductive invariant of the goal loop.                               *)
THEOREM Invariance == Spec => []IInv
  BY InitIInv, NextIInv, PTL DEF Spec

(* Every variable keeps its type: retry counts in particular never exceed  *)
(* the ceiling, also when they are read back from a capsule.               *)
THEOREM TypeCorrect == Spec => []TypeOK
<1>1. IInv => TypeOK
  BY DEF IInv
<1> QED
  BY Invariance, <1>1, PTL

(* _get_ready_nodes(), _execute_node() and _restore_node_capsules() keep a *)
(* completed node behind its dependencies, for every tree and over every   *)
(* restart.                                                                *)
THEOREM DependenciesHold == Spec => []CompletedAfterDeps
<1>1. IInv => CompletedAfterDeps
  BY DEF IInv
<1> QED
  BY Invariance, <1>1, PTL

(* The parent of a completed node holds its result, in memory and in its   *)
(* capsule, whatever crashes, exceptions and lost saves came between.      *)
THEOREM EvidenceKept == Spec => []EvidenceReachesParent
<1>1. IInv => EvidenceReachesParent
  BY TreeAssumption DEF IInv, EvidenceReachesParent, DurableEvidence, Agreement
<1> QED
  BY Invariance, <1>1, PTL

(* Both together, for every tree, crash, exception, lost save and restart. *)
THEOREM CompletedAlwaysBacked == Spec => []CompletedIsBacked
<1>1. CompletedAfterDeps /\ EvidenceReachesParent => CompletedIsBacked
  BY DEF CompletedIsBacked
<1> QED
  BY <1>1, DependenciesHold, EvidenceKept, PTL

(* cycle_budget bounds the executions of a node over all processes.        *)
THEOREM BudgetKept == Spec => []BudgetHolds
<1>1. IInv => BudgetHolds
  BY DEF IInv, BudgetHolds, Counted
<1> QED
  BY Invariance, <1>1, PTL

(* Once the loop has moved on from a completed node nothing reopens it:    *)
(* only the current node changes, and a restart restores it as completed.  *)
THEOREM CompletedStays == Spec => CompletedIsFinal
<1> DEFINE Stays == \A n \in Nodes \ unsaved :
             status[n] = "completed" /\ Settled(n) => status'[n] = "completed"
<1>1. IInv /\ [Next]_vars => [Stays]_vars
  <2> SUFFICES ASSUME IInv, Next, NEW n \in Nodes \ unsaved, status[n] = "completed", Settled(n)
               PROVE  status'[n] = "completed"
    BY DEF Stays
  <2>1. TypeOK
    BY DEF IInv
  <2>2. CASE Start
    BY <2>2 DEF IInv, Agreement, Current, Settled, Start, RestoredStatus
  <2>3. CASE \E m \in Nodes : Begin(m) \/ Exhaust(m)
    <3>1. PICK m \in Nodes : Begin(m) \/ Exhaust(m)
      BY <2>3
    <3>2. m # n
      BY <3>1 DEF Begin, Exhaust, Choose, First, Ready
    <3> QED
      BY <2>1, <3>1, <3>2 DEF Begin, Exhaust, TypeOK
  <2>4. CASE Refuse \/ Fail \/ Raise \/ RaiseInDelivery \/ Succeed \/ Judge
    <3>1. n # cur
      BY <2>4 DEF Settled, Refuse, Fail, Raise, RaiseInDelivery, Succeed, Judge, Goto
    <3>2. status'[n] = status[n]
      BY <2>1, <2>4, <3>1 DEF Refuse, Fail, Raise, RaiseInDelivery, Succeed, Judge, TypeOK
    <3> QED
      BY <3>2
  <2>5. CASE Allow \/ ReportError \/ Record \/ Register \/ Finish \/ Crash
    BY <2>5 DEF Allow, ReportError, Record, Register, Finish, Crash, nodeVars
  <2> QED
    BY <2>2, <2>3, <2>4, <2>5 DEF Next, Step
<1> QED
  BY Invariance, <1>1, PTL DEF Spec, CompletedIsFinal

-----------------------------------------------------------------------------
(* The second invariant, ReportInv, about the first run and the registers. *)

LEMMA InitReportInv == Init => ReportInv
  BY TreeAssumption DEF Init, ReportInv, FirstRun, StallNeedsRestart, RegisterInv, NotedInv,
     NoCapsule, Idle, Busy

(* A new orchestrator: nothing is noted, the register is what was saved.   *)
LEMMA StartKeepsReport ==
  ASSUME IInv, ReportInv, Start
  PROVE  ReportInv'
<1> USE TreeAssumption
<1>1. TypeOK
  BY DEF IInv
<1>2. /\ pc \in {"down", "done"} /\ pc' = "loop" /\ runs' = runs + 1 /\ runs \in Nat
      /\ status' = [n \in Nodes |-> RestoredStatus(n)] /\ noted' = [n \in Nodes |-> {}]
      /\ issues' = saved /\ saved' = saved /\ capsule' = capsule /\ faults' = faults
      /\ saved \in [Nodes -> Nat] /\ faults \in Nat
  BY <1>1 DEF Start, durable, TypeOK
<1>3. FirstRun'
  <2>1. runs' # 0 /\ (runs' = 1 => runs = 0)
    BY <1>2
  <2>2. ASSUME runs' = 1, NEW n \in Nodes PROVE status'[n] # "running"
    BY <1>2, <2>1, <2>2 DEF ReportInv, FirstRun, RestoredStatus
  <2> QED
    BY <2>1, <2>2 DEF FirstRun
<1>4. StallNeedsRestart'
  BY <1>2 DEF StallNeedsRestart
<1>5. NotedInv'
  <2> SUFFICES ASSUME NEW n \in Nodes PROVE saved[n] <= runs /\ saved[n] \in Nat
    BY <1>2 DEF NotedInv
  <2> QED
    BY <1>2 DEF ReportInv, RegisterInv, NotedInv
<1>6. pc' # "done" /\ pc' # "down" /\ ~Busy'
  BY <1>2 DEF Busy
<1>7. ASSUME faults = 0 \/ runs' = 1, NEW n \in Nodes
      PROVE  /\ status'[n] = "blocked" => saved[n] > 0
             /\ status'[n] = "completed" => saved[n] = 0
             /\ capsule[n].status = "blocked" => saved[n] > 0
             /\ capsule[n].status = "completed" => saved[n] = 0
  <2>1. status'[n] = RestoredStatus(n)
    BY <1>2
  <2>2. CASE runs = 0
    BY <1>2, <2>1, <2>2 DEF ReportInv, FirstRun, RestoredStatus
  <2>3. CASE runs # 0
    <3>1. faults = 0
      BY <1>2, <1>7, <2>3
    <3>2. pc = "done" /\ saved = issues
      BY <1>2, <2>3, <3>1 DEF ReportInv, RegisterInv
    <3>3. Idle(n)
      BY <3>2 DEF Idle, Busy
    <3> QED
      BY <2>1, <3>1, <3>2, <3>3 DEF ReportInv, RegisterInv, RestoredStatus
  <2> QED
    BY <2>2, <2>3
<1> QED
  BY <1>2, <1>3, <1>4, <1>5, <1>6, <1>7 DEF ReportInv, RegisterInv

(* Begin and Exhaust: the chosen node is neither completed nor recorded as *)
(* completed.                                                              *)
LEMMA ChooseKeepsReport ==
  ASSUME IInv, ReportInv, NEW n \in Nodes, Begin(n) \/ Exhaust(n)
  PROVE  ReportInv'
<1> USE TreeAssumption
<1>1. TypeOK
  BY DEF IInv
<1>2. PICK s \in {"running", "blocked"} :
        /\ status' = [status EXCEPT ![n] = s]
        /\ pc' = IF s = "running" THEN "gate" ELSE "record"
  BY DEF Begin, Exhaust
<1>3. /\ pc = "loop" /\ cur' = n /\ runs' = runs /\ noted' = noted /\ issues' = issues /\ saved' = saved
      /\ status[n] \in {"pending", "blocked"} /\ Emit(n)
  BY DEF Begin, Exhaust, Choose, First, Ready, register
<1>4. /\ status'[n] = s
      /\ \A m \in Nodes : m # n => status'[m] = status[m]
      /\ runs \in Nat /\ faults \in Nat
  BY <1>1, <1>2 DEF TypeOK
<1>5. /\ \A m \in Nodes : m # n => capsule'[m] = capsule[m]
      /\ faults' = 0 => faults = 0 /\ capsule'[n].status = s
  BY <1>1, <1>3, <1>4 DEF Emit, Save, TypeOK
<1>6. Busy' /\ ~Busy /\ pc' \in {"gate", "record"}
  BY <1>2, <1>3 DEF Busy
<1>7. FirstRun'
  BY <1>2, <1>3, <1>4 DEF ReportInv, FirstRun
<1>8. NotedInv'
  BY <1>3, <1>4, <1>6 DEF ReportInv, RegisterInv, NotedInv
<1>9. \A m \in Nodes : Idle(m)' => m # n /\ Idle(m)
  BY <1>3, <1>6 DEF Idle
<1>10. StallNeedsRestart'
  BY <1>6 DEF StallNeedsRestart
<1>11. runs' = 1 \/ faults' = 0 =>
         \A m \in Nodes : Idle(m)' =>
           /\ status'[m] = "blocked" => issues'[m] > 0
           /\ status'[m] = "completed" => issues'[m] = 0
  BY <1>3, <1>4, <1>5, <1>9 DEF ReportInv, RegisterInv
<1>12. faults' = 0 =>
         /\ \A m \in Nodes : Idle(m)' =>
              /\ capsule'[m].status = "blocked" => issues'[m] > 0
              /\ capsule'[m].status = "completed" => issues'[m] = 0
         /\ pc' # "error" /\ capsule'[cur'].status \in {status'[cur'], "running"}
  BY <1>3, <1>4, <1>5, <1>6, <1>9 DEF ReportInv, RegisterInv
<1> QED
  BY <1>6, <1>7, <1>8, <1>10, <1>11, <1>12 DEF ReportInv, RegisterInv

(* A step within the execution of the current node: what is recorded stays *)
(* as it is, and only the capsule of its parent may change besides its own.*)
LEMMA OwnStepKeepsReport ==
  ASSUME IInv, ReportInv, Busy, Busy', cur \in Nodes,
         cur' = cur, runs' = runs, noted' = noted, issues' = issues, saved' \in {saved, issues},
         \A m \in Nodes : m # cur =>
           status'[m] = status[m] /\ capsule'[m].status \in {capsule[m].status, status[m]},
         runs = 1 /\ status'[cur] = "running" => pc' \in {"gate", "work"},
         faults' = 0 => faults = 0 /\ pc' # "error" /\ capsule'[cur].status \in {status'[cur], "running"}
  PROVE  ReportInv'
<1>1. runs \in Nat /\ pc \notin {"down", "done"} /\ pc' \notin {"down", "done"}
  BY DEF IInv, TypeOK, Busy
<1>2. \A m \in Nodes : Idle(m)' => m # cur /\ Idle(m)
  BY <1>1 DEF Idle
<1>3. FirstRun'
  BY <1>1 DEF ReportInv, FirstRun
<1>4. NotedInv'
  <2> SUFFICES ASSUME NEW m \in Nodes
               PROVE  /\ "completed" \in noted[m] => status'[m] = "completed" /\ issues[m] = 0 /\ m # cur
                      /\ noted[m] \cap {"blocked", "completed"} = {"blocked"} => issues[m] > 0
                      /\ saved'[m] <= runs /\ issues[m] <= runs
                      /\ runs > 0 /\ "blocked" \notin noted[m] => issues[m] < runs
    BY DEF NotedInv
  <2> QED
    BY DEF ReportInv, RegisterInv, NotedInv
<1>5. StallNeedsRestart'
  BY <1>1 DEF StallNeedsRestart
<1>6. runs' = 1 \/ faults' = 0 =>
        \A m \in Nodes : Idle(m)' =>
          /\ status'[m] = "blocked" => issues'[m] > 0
          /\ status'[m] = "completed" => issues'[m] = 0
  BY <1>2 DEF ReportInv, RegisterInv
<1>7. faults' = 0 =>
        /\ \A m \in Nodes : Idle(m)' =>
             /\ capsule'[m].status = "blocked" => issues'[m] > 0
             /\ capsule'[m].status = "completed" => issues'[m] = 0
        /\ pc' # "error" /\ capsule'[cur'].status \in {status'[cur'], "running"}
  BY <1>2 DEF ReportInv, RegisterInv
<1> QED
  BY <1>1, <1>3, <1>4, <1>5, <1>6, <1>7 DEF ReportInv, RegisterInv

(* Refuse, Fail and Raise.                                                 *)
LEMMA BlockKeepsReport ==
  ASSUME IInv, ReportInv, Refuse \/ Fail \/ Raise \/ RaiseInDelivery
  PROVE  ReportInv'
<1>1. /\ OwnStep("blocked") /\ capsule' = capsule /\ saved' \in {saved, issues}
      /\ pc \in {"gate", "work", "record"} /\ pc' \in {"record", "judge", "error"}
      /\ pc' = "error" => faults' = faults + 1
      /\ pc' # "error" => pc \in {"gate", "work"} /\ faults' = faults
  BY DEF IInv, TypeOK, Refuse, Fail, Raise, RaiseInDelivery, OwnStep, Goto, nodeVars, durable, register
<1>2. TypeOK /\ cur \in Nodes /\ Busy /\ Busy' /\ CurrentNode /\ faults \in Nat
  BY <1>1 DEF IInv, TypeOK, Busy
<1>3. status'[cur] = "blocked" /\ \A m \in Nodes : m # cur => status'[m] = status[m]
  BY <1>1, <1>2 DEF OwnStep, TypeOK
<1>4. faults' = 0 => faults = 0 /\ pc' # "error" /\ capsule'[cur].status \in {status'[cur], "running"}
  <2> SUFFICES ASSUME faults' = 0 PROVE faults = 0 /\ pc' # "error" /\ capsule[cur].status = "running"
    BY <1>1
  <2>1. faults = 0 /\ pc' # "error" /\ pc \in {"gate", "work"}
    BY <1>1, <1>2
  <2>2. status[cur] = "running"
    BY <1>2, <2>1 DEF CurrentNode
  <2> QED
    BY <1>2, <2>1, <2>2 DEF ReportInv, RegisterInv
<1> QED
  BY <1>1, <1>2, <1>3, <1>4, OwnStepKeepsReport DEF OwnStep

(* Allow, ReportError and Judge.                                           *)
LEMMA EventKeepsReport ==
  ASSUME IInv, ReportInv, Allow \/ ReportError \/ Judge
  PROVE  ReportInv'
<1>1. TypeOK /\ CurrentNode
  BY DEF IInv
<1>2. /\ cur' = cur /\ runs' = runs /\ noted' = noted /\ issues' = issues /\ saved' = saved /\ Emit(cur)
      /\ <<pc, pc'>> \in {<<"gate", "work">>, <<"error", "recordError">>, <<"judge", "record">>}
  BY DEF Allow, ReportError, Judge, Goto, nodeVars, register
<1>3. cur \in Nodes /\ Busy /\ Busy' /\ faults \in Nat
  BY <1>1, <1>2 DEF TypeOK, Busy
<1>4. /\ \A m \in Nodes : m # cur => status'[m] = status[m]
      /\ runs = 1 /\ pc' # "work" => status'[cur] # "running"
  <2>1. CASE Allow
    BY <1>2, <2>1 DEF Allow, Goto, nodeVars
  <2>2. CASE ReportError
    BY <1>1, <1>3, <2>2 DEF ReportError, Goto, nodeVars, CurrentNode
  <2>3. CASE Judge
    <3>1. PICK v \in Verdict :
            IF v = "blocked" /\ retry[cur] < MaxRetries
              THEN status' = [status EXCEPT ![cur] = "pending"]
              ELSE status' = [status EXCEPT ![cur] = v]
      BY <2>3 DEF Judge
    <3>2. runs = 1 => status[cur] # "running"
      BY <1>3, <2>3 DEF Judge, Goto, ReportInv, FirstRun
    <3>3. runs = 1 => v # "running"
      BY <3>1, <3>2 DEF Verdict
    <3> QED
      BY <1>1, <1>3, <3>1, <3>3 DEF TypeOK
  <2> QED
    BY <2>1, <2>2, <2>3
<1>5. /\ \A m \in Nodes : m # cur => capsule'[m] = capsule[m]
      /\ faults' = 0 => faults = 0 /\ capsule'[cur].status = status'[cur]
  BY <1>1, <1>2, <1>3 DEF Emit, Save, TypeOK
<1>6. faults' = 0 => pc' # "error"
  BY <1>2
<1> QED
  BY <1>2, <1>3, <1>4, <1>5, <1>6, OwnStepKeepsReport

(* Succeed: the capsule of the parent follows the parent.                  *)
LEMMA SucceedKeepsReport ==
  ASSUME IInv, ReportInv, Succeed
  PROVE  ReportInv'
<1> USE TreeAssumption
<1>1. TypeOK /\ pc = "work" /\ pc' = "judge" /\ CurrentNode
  BY DEF IInv, Succeed, Goto
<1>2. cur \in Nodes /\ Busy /\ Busy' /\ status[cur] = "running"
  BY <1>1 DEF TypeOK, Busy, CurrentNode
<1>3. /\ OwnStep("completed") /\ saved' = saved
      /\ IF Parent[cur] = NoNode THEN capsule' = capsule /\ faults' = faults ELSE Save(Parent[cur])
  BY DEF Succeed, Goto, OwnStep, register, durable
<1>4. status'[cur] = "completed" /\ \A m \in Nodes : m # cur => status'[m] = status[m]
  BY <1>1, <1>2, <1>3 DEF OwnStep, TypeOK
<1>5. /\ faults' = faults
      /\ \A m \in Nodes : capsule'[m].status \in {capsule[m].status, status'[m]}
      /\ capsule'[cur] = capsule[cur]
  <2>1. CASE Parent[cur] = NoNode
    BY <1>3, <2>1
  <2>2. CASE Parent[cur] # NoNode
    <3>1. Parent[cur] \in Nodes /\ Parent[cur] # cur /\ Save(Parent[cur])
      BY <1>2, <1>3, <2>2
    <3> QED
      BY <1>1, <1>2, <3>1 DEF Save, TypeOK
  <2> QED
    BY <2>1, <2>2
<1>6. faults' = 0 => capsule'[cur].status = "running"
  BY <1>2, <1>5 DEF ReportInv, RegisterInv
<1> QED
  BY <1>1, <1>2, <1>3, <1>4, <1>5, <1>6, OwnStepKeepsReport DEF OwnStep

(* Back in the loop, the current node recorded as its status says.         *)
LEMMA RegisterClosed ==
  ASSUME IInv, ReportInv, cur \in Nodes, Busy, pc # "error", pc' = "loop", cur' = NoNode,
         runs' = runs, runs # 0, status' = status, capsule' = capsule, saved' = saved, faults' = faults,
         pc \notin {"gate", "work"},
         \A m \in Nodes : m # cur => issues'[m] = issues[m] /\ noted'[m] = noted[m],
         status[cur] = "blocked" => issues'[cur] > 0,
         status[cur] = "completed" => issues'[cur] = 0,
         "completed" \in noted'[cur] => status[cur] = "completed" /\ issues'[cur] = 0,
         noted'[cur] \cap {"blocked", "completed"} = {"blocked"} => issues'[cur] > 0,
         saved[cur] <= runs /\ issues'[cur] <= runs,
         "blocked" \notin noted'[cur] => issues'[cur] < runs
  PROVE  ReportInv'
<1>1. ~Busy' /\ pc' \notin {"down", "done"} /\ runs \in Nat /\ pc # "down"
  BY DEF Busy, IInv, TypeOK
<1>2. FirstRun'
  BY <1>1 DEF ReportInv, FirstRun
<1>3. NotedInv'
  <2> SUFFICES ASSUME NEW m \in Nodes
               PROVE  /\ "completed" \in noted'[m] => status[m] = "completed" /\ issues'[m] = 0
                      /\ noted'[m] \cap {"blocked", "completed"} = {"blocked"} => issues'[m] > 0
                      /\ saved[m] <= runs /\ issues'[m] <= runs
                      /\ runs > 0 /\ "blocked" \notin noted'[m] => issues'[m] < runs
    BY <1>1 DEF NotedInv
  <2>1. CASE m = cur
    BY <2>1
  <2>2. CASE m # cur
    BY <2>2 DEF ReportInv, RegisterInv, NotedInv
  <2> QED
    BY <2>1, <2>2
<1>4. StallNeedsRestart'
  BY <1>1 DEF StallNeedsRestart
<1>5. \A m \in Nodes : m # cur => Idle(m)
  BY <1>1 DEF Idle
<1>6. runs' = 1 \/ faults' = 0 =>
        \A m \in Nodes : Idle(m)' =>
          /\ status'[m] = "blocked" => issues'[m] > 0
          /\ status'[m] = "completed" => issues'[m] = 0
  <2> SUFFICES ASSUME runs = 1 \/ faults = 0, NEW m \in Nodes
               PROVE  /\ status[m] = "blocked" => issues'[m] > 0
                      /\ status[m] = "completed" => issues'[m] = 0
    OBVIOUS
  <2>1. CASE m = cur
    BY <2>1
  <2>2. CASE m # cur
    BY <1>5, <2>2 DEF ReportInv, RegisterInv
  <2> QED
    BY <2>1, <2>2
<1>7. faults' = 0 =>
        \A m \in Nodes : Idle(m)' =>
          /\ capsule'[m].status = "blocked" => issues'[m] > 0
          /\ capsule'[m].status = "completed" => issues'[m] = 0
  <2> SUFFICES ASSUME faults = 0, NEW m \in Nodes
               PROVE  /\ capsule[m].status = "blocked" => issues'[m] > 0
                      /\ capsule[m].status = "completed" => issues'[m] = 0
    OBVIOUS
  <2>1. CASE m = cur
    <3>1. capsule[m].status \in {status[m], "running"}
      BY <2>1 DEF ReportInv, RegisterInv
    <3> QED
      BY <2>1, <3>1
  <2>2. CASE m # cur
    BY <1>5, <2>2 DEF ReportInv, RegisterInv
  <2> QED
    BY <2>1, <2>2
<1> QED
  BY <1>1, <1>2, <1>3, <1>4, <1>6, <1>7 DEF ReportInv, RegisterInv

(* Register: a blocked or completed node is noted, unless it has been, and *)
(* then as blocked: its issue is still open.                               *)
LEMMA RegisterKeepsReport ==
  ASSUME IInv, ReportInv, Register
  PROVE  ReportInv'
<1>1. TypeOK
  BY DEF IInv
<1>2. /\ pc = "register" /\ pc' = "loop" /\ cur' = NoNode /\ runs' = runs
      /\ status' = status /\ capsule' = capsule /\ saved' = saved /\ faults' = faults
      /\ cur \in Nodes /\ runs \in Nat /\ faults \in Nat
      /\ issues \in [Nodes -> Nat] /\ noted \in [Nodes -> SUBSET Statuses]
  BY <1>1 DEF Register, durable, TypeOK
<1>3. Busy /\ ~Busy' /\ runs # 0
  BY <1>2 DEF Busy, ReportInv, FirstRun
<1>4. \A m \in Nodes : m # cur => issues'[m] = issues[m] /\ noted'[m] = noted[m]
  BY <1>2 DEF Register
<1>5. "completed" \notin noted[cur]
  BY <1>2, <1>3 DEF ReportInv, RegisterInv, NotedInv
<1>6. CASE status[cur] \in {"blocked", "completed"} \ noted[cur]
  <2>1. /\ noted'[cur] = noted[cur] \cup {status[cur]}
        /\ issues'[cur] = IF status[cur] = "blocked" THEN issues[cur] + 1 ELSE 0
    BY <1>2, <1>6 DEF Register
  <2>2. /\ status[cur] = "blocked" => issues'[cur] > 0
        /\ status[cur] = "completed" => issues'[cur] = 0
    BY <1>2, <2>1
  <2>3. /\ "completed" \in noted'[cur] => status[cur] = "completed" /\ issues'[cur] = 0
        /\ noted'[cur] \cap {"blocked", "completed"} = {"blocked"} => issues'[cur] > 0
    BY <1>5, <1>6, <2>1, <2>2
  <2>4. /\ saved[cur] <= runs /\ issues'[cur] <= runs
        /\ "blocked" \notin noted'[cur] => issues'[cur] < runs
    <3>1. issues[cur] <= runs /\ saved[cur] <= runs /\ ("blocked" \notin noted[cur] => issues[cur] < runs)
      BY <1>2, <1>3 DEF ReportInv, RegisterInv, NotedInv
    <3>2. CASE status[cur] = "blocked"
      BY <1>2, <1>6, <2>1, <3>1, <3>2
    <3>3. CASE status[cur] = "completed"
      BY <1>2, <1>3, <2>1, <3>1, <3>3
    <3> QED
      BY <1>6, <3>2, <3>3
  <2> QED
    BY <2>2, <2>3, <2>4, <1>2, <1>3, <1>4, RegisterClosed
<1>7. CASE status[cur] \notin {"blocked", "completed"} \ noted[cur]
  <2>1. noted' = noted /\ issues' = issues
    BY <1>7 DEF Register
  <2>2. /\ status[cur] # "completed"
        /\ status[cur] = "blocked" => issues[cur] > 0
    BY <1>2, <1>5, <1>7 DEF ReportInv, RegisterInv, NotedInv
  <2>3. /\ noted'[cur] \cap {"blocked", "completed"} = {"blocked"} => issues'[cur] > 0
        /\ saved[cur] <= runs /\ issues'[cur] <= runs
        /\ "blocked" \notin noted'[cur] => issues'[cur] < runs
    BY <1>2, <1>3, <2>1 DEF ReportInv, RegisterInv, NotedInv
  <2> QED
    BY <1>2, <1>3, <1>4, <1>5, <2>1, <2>2, <2>3, RegisterClosed
<1> QED
  BY <1>6, <1>7

(* Finish: without a cycle in the tree, the first run ends early only when *)
(* nothing is left to do.                                                  *)
LEMMA FinishKeepsReport ==
  ASSUME IInv, ReportInv, Finish
  PROVE  ReportInv'
<1>1. TypeOK
  BY DEF IInv
<1>2. /\ pc = "loop" /\ pc' = "done" /\ cur' = cur /\ runs' = runs /\ iteration' = iteration
      /\ status' = status /\ noted' = noted /\ capsule' = capsule /\ faults' = faults
      /\ issues' = issues /\ saved' = issues
      /\ iteration = MaxIterations \/ Ready = {}
  BY DEF Finish, Goto, nodeVars, durable
<1>3. ~Busy /\ ~Busy' /\ runs \in Nat /\ iteration \in Nat /\ MaxIterations \in Nat
  BY <1>1, <1>2, TreeAssumption DEF Busy, TypeOK
<1>4. FirstRun'
  BY <1>2 DEF ReportInv, FirstRun
<1>5. NotedInv'
  BY <1>2, <1>3 DEF ReportInv, RegisterInv, NotedInv
<1>6. \A m \in Nodes : Idle(m)' = Idle(m)
  BY <1>2, <1>3 DEF Idle
<1>7. StallNeedsRestart'
  <2> SUFFICES ASSUME Incomplete, iteration < MaxIterations, ~(runs > 1) PROVE FALSE
    BY <1>2 DEF StallNeedsRestart, Incomplete
  <2>1. Ready = {}
    BY <1>2, <1>3
  <2>2. runs = 1
    BY <1>2, <1>3 DEF ReportInv, FirstRun
  <2> DEFINE Left == {n \in Nodes : status[n] # "completed"}
  <2>3. PICK n \in Left : (Deps[n] \cup {Parent[n]}) \cap Left = {}
    BY TreeAssumption DEF Incomplete
  <2>4. \A d \in Deps[n] : status[d] = "completed"
    BY <2>3, TreeAssumption
  <2>5. status[n] \in {"pending", "blocked"}
    BY <1>1, <1>2, <2>2, <2>3 DEF TypeOK, Statuses, ReportInv, FirstRun
  <2> QED
    BY <2>1, <2>3, <2>4, <2>5 DEF Ready
<1> QED
  BY <1>2, <1>3, <1>4, <1>5, <1>6, <1>7 DEF ReportInv, RegisterInv

(* Record saves the register; Crash and a stutter change even less.        *)
LEMMA OtherKeepsReport ==
  ASSUME IInv, ReportInv, Record \/ Crash \/ UNCHANGED vars
  PROVE  ReportInv'
<1>1. TypeOK
  BY DEF IInv
<1>2. CASE Record
  <2>1. Busy /\ Busy' /\ cur \in Nodes /\ pc' = "register" /\ pc \in {"record", "recordError"}
    BY <1>1, <1>2 DEF Record, Goto, Busy, TypeOK
  <2>2. runs = 1 => status[cur] # "running"
    BY <2>1 DEF ReportInv, FirstRun
  <2>3. /\ status' = status /\ noted' = noted /\ issues' = issues /\ saved' = issues /\ cur' = cur
        /\ runs' = runs /\ capsule' = capsule /\ faults' = faults
    BY <1>2 DEF Record, Goto, nodeVars, durable
  <2>4. faults' = 0 => faults = 0 /\ capsule'[cur].status \in {status'[cur], "running"}
    BY <2>1, <2>3 DEF ReportInv, RegisterInv
  <2> QED
    BY <2>1, <2>2, <2>3, <2>4, OwnStepKeepsReport
<1>3. CASE Crash
  <2>1. /\ pc \in Active /\ pc' = "down" /\ faults' = faults + 1 /\ runs' = runs /\ faults \in Nat
        /\ status' = status /\ noted' = noted /\ issues' = issues /\ saved' = saved /\ capsule' = capsule
        /\ cur' = cur
    BY <1>1, <1>3 DEF Crash, nodeVars, durable, register, TypeOK
  <2>2. ~Busy' /\ pc \notin {"down", "done"} /\ (\A m \in Nodes : ~Idle(m)') /\ faults' > 0
    BY <2>1 DEF Busy, Idle, Active
  <2>3. FirstRun' /\ StallNeedsRestart'
    BY <2>1, <2>2 DEF ReportInv, FirstRun, StallNeedsRestart
  <2>4. NotedInv'
    BY <2>1, <2>2 DEF ReportInv, RegisterInv, NotedInv
  <2> QED
    BY <2>1, <2>2, <2>3, <2>4 DEF ReportInv, RegisterInv
<1>4. CASE UNCHANGED vars
  <2>1. FirstRun' /\ StallNeedsRestart'
    BY <1>4 DEF ReportInv, FirstRun, StallNeedsRestart, Incomplete, vars, nodeVars, durable, register, control
  <2>2. NotedInv'
    BY <1>4 DEF ReportInv, RegisterInv, NotedInv, Busy, vars, nodeVars, durable, register, control
  <2>3. Busy' = Busy /\ \A m \in Nodes : Idle(m)' = Idle(m)
    BY <1>4 DEF Busy, Idle, vars, control
  <2> QED
    BY <1>4, <2>1, <2>2, <2>3 DEF ReportInv, RegisterInv, vars, nodeVars, durable, register, control
<1> QED
  BY <1>2, <1>3, <1>4

LEMMA NextReportInv == IInv /\ ReportInv /\ [Next]_vars => ReportInv'
<1> SUFFICES ASSUME IInv, ReportInv, [Next]_vars PROVE ReportInv'
  OBVIOUS
<1>1. CASE Start
  BY <1>1, StartKeepsReport
<1>2. CASE \E n \in Nodes : Begin(n) \/ Exhaust(n)
  BY <1>2, ChooseKeepsReport
<1>3. CASE Refuse \/ Fail \/ Raise \/ RaiseInDelivery
  BY <1>3, BlockKeepsReport
<1>4. CASE Allow \/ ReportError \/ Judge
  BY <1>4, EventKeepsReport
<1>5. CASE Succeed
  BY <1>5, SucceedKeepsReport
<1>6. CASE Register
  BY <1>6, RegisterKeepsReport
<1>7. CASE Finish
  BY <1>7, FinishKeepsReport
<1>8. CASE Record \/ Crash \/ UNCHANGED vars
  BY <1>8, OtherKeepsReport
<1> QED
  BY <1>1, <1>2, <1>3, <1>4, <1>5, <1>6, <1>7, <1>8 DEF Next, Step

(* The invariant of what the loop reports, on top of the first one.        *)
THEOREM ReportInvariance == Spec => []ReportInv
  BY Invariance, InitReportInv, NextReportInv, PTL DEF Spec

(* run_loop() never stalls in the first run of a task, whatever fails in   *)
(* it: _validate_tree_invariants() has refused every tree with a cycle, so *)
(* among the nodes left there is one whose dependencies are completed, and *)
(* no node is left "running" between two iterations.                       *)
THEOREM FirstRunNeverStalls == Spec => []StallNeedsRestart
<1>1. ReportInv => StallNeedsRestart
  BY DEF ReportInv
<1> QED
  BY ReportInvariance, <1>1, PTL

(* _record_node_issue() and _record_node_lesson() open at most one issue   *)
(* per run and close it with the node, and between iterations the register *)
(* agrees with the nodes, in the first run and as long as nothing failed.  *)
THEOREM RegisterAgrees == Spec => []RegisterTracksNodes
<1>1. ReportInv => RegisterTracksNodes
  BY DEF ReportInv, RegisterInv, NotedInv, RegisterTracksNodes, Idle, Busy
<1> QED
  BY ReportInvariance, <1>1, PTL
=============================================================================
