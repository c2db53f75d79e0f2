------------------------ MODULE StepExecutorProofs ------------------------
(* What holds of every call of execute_step(), for every configuration. *)
EXTENDS StepExecutor, TLAPS

(* What the lookups return. *)

LEMMA SetupTyped ==
  ASSUME setup \in Setups
  PROVE  /\ setup.enabled \subseteq Providers
         /\ setup.preferred \in Providers \cup {None}
         /\ setup.role \in Routes \cup {None}
         /\ setup.critic \in Routes \cup {None}
         /\ setup.pool \subseteq Routes
BY ExecutorAssumption

LEMMA ActiveTyped ==
  ASSUME setup \in Setups, NEW u
  PROVE  Active(u) \subseteq Providers
BY SetupTyped DEF Active, Unblocked

LEMMA BestAvailableTyped ==
  ASSUME setup \in Setups, NEW u, NEW m
  PROVE  BestAvailable(u, m) \subseteq Providers
BY ActiveTyped DEF BestAvailable, Highest, Lowest

LEMMA NextAfterTyped ==
  ASSUME setup \in Setups, NEW u, NEW m, NEW n
  PROVE  NextAfter(u, m, n) \subseteq Providers
BY ActiveTyped, BestAvailableTyped DEF NextAfter, Lowest

LEMMA EscalationsTyped ==
  ASSUME setup \in Setups, NEW u, NEW m \in Providers
  PROVE  Escalations(u, m) \subseteq Providers
BY BestAvailableTyped, NextAfterTyped DEF Escalations

LEMMA RouterFallbacksTyped ==
  ASSUME setup \in Setups, NEW u, NEW m \in Providers
  PROVE  RouterFallbacks(u, m) \subseteq Providers
BY BestAvailableTyped, NextAfterTyped DEF RouterFallbacks

LEMMA AlternativesTyped ==
  ASSUME setup \in Setups, NEW u, NEW m
  PROVE  Alternatives(u, m) \subseteq Providers
BY SetupTyped DEF Alternatives, Unblocked

LEMMA FallbackModelsTyped ==
  ASSUME setup \in Setups, NEW u, NEW m \in Providers
  PROVE  FallbackModels(u, m) \subseteq Providers
BY RouterFallbacksTyped, AlternativesTyped DEF FallbackModels

LEMMA ChosenModelsTyped ==
  ASSUME TypeOK
  PROVE  Recommended \subseteq Providers /\ ChosenModels \subseteq Providers
<1>1. setup \in Setups /\ preferred \in Providers \cup {None}
  BY SetupTyped DEF TypeOK
<1>2. Recommended \subseteq Providers
  BY <1>1, ActiveTyped, BestAvailableTyped DEF Recommended
<1>3. Active(until) \subseteq Providers
  BY <1>1, ActiveTyped
<1>4. UNION {BestAvailable(until, m) : m \in {"cheap", "chatgpt", "openai"}} \subseteq Providers
  BY <1>1, BestAvailableTyped
<1> QED
  BY <1>1, <1>2, <1>3, <1>4, BestAvailableTyped DEF ChosenModels

LEMMA AccountsTyped ==
  ASSUME NEW u, NEW m \in Providers
  PROVE  /\ FreeAccounts(u, m) \subseteq AccountIds \ {0}
         /\ AccountsFor(u, m) \subseteq AccountIds
         /\ \A a : NextAccounts(u, m, a) \subseteq AccountIds \ {0}
<1>1. Accounts[m] \in 0..MaxAccounts /\ MaxAccounts \in Nat
  BY ExecutorAssumption DEF AccountIds
<1>2. FreeAccounts(u, m) \subseteq AccountIds \ {0}
  BY <1>1 DEF FreeAccounts, AccountIds
<1>3. AccountsFor(u, m) \subseteq AccountIds
  BY <1>1, <1>2 DEF AccountsFor, First, AccountIds
<1>4. \A a : NextAccounts(u, m, a) \subseteq AccountIds \ {0}
  BY <1>2 DEF NextAccounts, First
<1> QED
  BY <1>2, <1>3, <1>4

\* An account a lookup returns is not blocked.
LEMMA AccountsFree ==
  ASSUME NEW u, NEW m
  PROVE  /\ \A a \in AccountsFor(u, m) : a = 0 \/ ~Blocked(u, m, a)
         /\ \A b : \A a \in NextAccounts(u, m, b) : ~Blocked(u, m, a)
<1>1. \A a \in FreeAccounts(u, m) : ~Blocked(u, m, a)
  BY Zenon DEF FreeAccounts
<1>2. \A S : First(S) \subseteq S
  BY DEF First
<1>3. \A b : NextAccounts(u, m, b) \subseteq FreeAccounts(u, m)
  BY <1>2 DEF NextAccounts
<1>4. AccountsFor(u, m) \subseteq FreeAccounts(u, m) \cup {0}
  BY <1>2 DEF AccountsFor
<1> QED
  BY <1>1, <1>3, <1>4

LEMMA MovedRoutesTyped ==
  ASSUME TypeOK, NEW r \in Routes, NEW m \in Providers
  PROVE  MovedRoutes(r, m) \subseteq Routes
<1>1. setup.pool \subseteq Routes
  BY SetupTyped DEF TypeOK
<1>2. r.account \in AccountIds
  BY DEF Routes
<1>3. ASSUME NEW a \in AccountsFor(until, m)
      PROVE  [provider |-> m, account |-> IF a # 0 THEN a ELSE r.account, blocked |-> FALSE] \in Routes
  BY <1>2, <1>3, AccountsTyped DEF Routes
<1> QED
  BY <1>1, <1>3 DEF MovedRoutes

LEMMA EscalatedRoutesTyped ==
  ASSUME TypeOK, NEW r \in Routes, NEW n
  PROVE  EscalatedRoutes(r, n) \subseteq Routes
<1>1. r.provider \in Providers /\ r.account \in AccountIds /\ r.blocked \in BOOLEAN
  BY DEF Routes
<1>2. ASSUME NEW a \in AccountsFor(until, r.provider)
      PROVE  [r EXCEPT !.account = IF a # 0 THEN a ELSE r.account] \in Routes
  BY <1>1, <1>2, AccountsTyped DEF Routes
<1>3. Escalations(until, r.provider) \subseteq Providers /\ Recommended \subseteq Providers
  BY <1>1, EscalationsTyped, ChosenModelsTyped DEF TypeOK
<1>4. \A m \in Providers : MovedRoutes(r, m) \subseteq Routes
  BY MovedRoutesTyped
<1> QED
  BY <1>2, <1>3, <1>4 DEF EscalatedRoutes

LEMMA RoleRoutesTyped ==
  ASSUME TypeOK, NEW r \in Routes \cup {None}, NEW n
  PROVE  RoleRoutes(r, n) \subseteq Routes \cup {None}
<1>1. PoolRoutes \subseteq Routes \cup {None}
  BY SetupTyped DEF PoolRoutes, TypeOK
<1>2. r = None \/ EscalatedRoutes(r, n) \subseteq Routes
  BY EscalatedRoutesTyped
<1> QED
  BY <1>1, <1>2 DEF RoleRoutes

-----------------------------------------------------------------------------
(* Type correctness. *)

LEMMA ReportTyped ==
  ASSUME NEW r \in Answers
  PROVE  r \in Reports /\ r.days \in Nat
BY ExecutorAssumption DEF Reports

LEMMA HearTyped ==
  ASSUME TypeOK, pc \in Stages, NEW r \in Answers, Hear(r)
  PROVE  /\ preferred' \in setup.enabled \cup {None}
         /\ until' \in [Providers \X AccountIds -> Nat]
         /\ heard' \subseteq [stage: Stages, call: Calls, answer: Answers]
<1>1. call \in Calls /\ now \in Nat
  BY DEF TypeOK
<1>2. now + r.days \in Nat
  BY <1>1, ReportTyped
<1>3. until' \in [Providers \X AccountIds -> Nat]
  <2>1. <<call.model, call.account>> \in Providers \X AccountIds
    BY <1>1 DEF Calls
  <2> QED
    BY <1>2, <2>1 DEF Hear, BlockedUntil, TypeOK
<1>4. [stage |-> pc, call |-> call, answer |-> r] \in [stage: Stages, call: Calls, answer: Answers]
  BY <1>1
<1>5. heard' \subseteq [stage: Stages, call: Calls, answer: Answers]
  BY <1>4 DEF Hear, TypeOK
<1>6. preferred' \in setup.enabled \cup {None}
  BY DEF Hear, StillPreferred, TypeOK
<1> QED
  BY <1>3, <1>5, <1>6

LEMMA PlaceTyped ==
  ASSUME NEW s \in Stages, NEW m \in Providers, NEW a \in AccountIds, Place(s, m, a)
  PROVE  pc' \in Stages /\ call' \in Calls /\ tried' \subseteq AccountIds \ {0}
BY DEF Place, Calls

LEMMA ConcludeTyped ==
  ASSUME TypeOK, NEW e \in Errors, NEW ae \in Errors, NEW c \in Calls, Conclude(e, ae, c)
  PROVE  failures' \in Nat /\ last' \in Attempts /\ outcome' \in Outcomes /\ pc' = "done"
<1>1. c.model \in Providers /\ c.account \in AccountIds
  BY DEF Calls
<1>2. failures' \in Nat /\ pc' = "done"
  BY DEF Conclude, Return, TypeOK
<1>3. last' \in Attempts
  BY <1>1 DEF Conclude, Attempts
<1>4. outcome' \in Outcomes
  <2>1. e # "none"
    BY DEF Errors, Waits, LateGates
  <2> QED
    BY <1>1, <2>1 DEF Conclude, Return, Outcomes
<1> QED
  BY <1>2, <1>3, <1>4

LEMMA AccountMissingTyped ==
  ASSUME NEW m \in Providers, AccountMissing(m)
  PROVE  /\ outcome' \in Outcomes /\ pc' = "done" /\ UNCHANGED <<call, tried>>
         /\ outcome'.error \notin Waits /\ outcome'.attempt = "none"
BY DEF AccountMissing, Return, Outcomes, Errors, Waits, LateGates

\* The step stays in its stage, or has returned.
LEMMA EnterTyped ==
  ASSUME TypeOK, NEW m \in Providers, NEW a \in AccountIds, Enter(m, a)
  PROVE  /\ pc' = "primary" \/ (pc' = "done" /\ outcome'.error \notin Waits /\ outcome'.attempt = "none")
         /\ call' \in Calls /\ tried' \subseteq AccountIds \ {0}
         /\ outcome' \in Outcomes
<1>1. CASE Accounts[m] = 0 \/ a # 0
  <2>1. Place("primary", m, a) /\ UNCHANGED outcome
    BY <1>1 DEF Enter
  <2> QED
    BY <2>1, PlaceTyped DEF Place, TypeOK, Stages
<1>2. CASE ~(Accounts[m] = 0 \/ a # 0)
  <2>1. PICK f \in RouterFallbacks(until, m) :
          IF f = m THEN AccountMissing(m)
          ELSE \E b \in AccountsFor(until, f) : Place("primary", f, b) /\ UNCHANGED outcome
    BY <1>2 DEF Enter
  <2>2. f \in Providers
    BY RouterFallbacksTyped DEF TypeOK
  <2>3. CASE f = m
    <3>1. AccountMissing(m)
      BY <2>1, <2>3
    <3>2. call \in Calls /\ tried \subseteq AccountIds \ {0}
      BY DEF TypeOK
    <3> QED
      BY <3>1, <3>2, AccountMissingTyped
  <2>4. CASE f # m
    <3>1. PICK b \in AccountsFor(until, f) : Place("primary", f, b) /\ UNCHANGED outcome
      BY <2>1, <2>4
    <3> QED
      BY <2>2, <3>1, AccountsTyped, PlaceTyped DEF Place, TypeOK, Stages
  <2> QED
    BY <2>3, <2>4
<1> QED
  BY <1>1, <1>2

LEMMA BeginTyped ==
  ASSUME TypeOK, Begin
  PROVE  TypeOK' /\ (pc' = "primary" \/ (outcome'.error \notin Waits /\ outcome'.attempt = "none"))
                 /\ pc' \in {"primary", "done"}
<1>1. PICK m \in ChosenModels, r \in RoleRoutes(setup.role, failures) :
        IF r = None
          THEN \E a \in AccountsFor(until, m) : Enter(m, a)
          ELSE \E a \in IF r.account # 0 THEN {r.account} ELSE AccountsFor(until, r.provider) :
                 Enter(r.provider, a)
  BY DEF Begin
<1>2. m \in Providers /\ r \in Routes \cup {None}
  BY ChosenModelsTyped, RoleRoutesTyped, SetupTyped DEF TypeOK
<1>3. PICK p \in Providers, a \in AccountIds : Enter(p, a)
  <2>1. CASE r = None
    BY <1>1, <1>2, <2>1, AccountsTyped
  <2>2. CASE r # None
    <3>1. r.provider \in Providers /\ r.account \in AccountIds
      BY <1>2, <2>2 DEF Routes
    <3> QED
      BY <1>1, <2>2, <3>1, AccountsTyped
  <2> QED
    BY <2>1, <2>2
<1>4. count' \in Nat /\ UNCHANGED <<setup, now, preferred, until, origin, worker, heard, failures, last>>
  BY DEF Begin, TypeOK, prefs, memory
<1>5. /\ pc' = "primary" \/ (pc' = "done" /\ outcome'.error \notin Waits /\ outcome'.attempt = "none")
      /\ call' \in Calls /\ tried' \subseteq AccountIds \ {0} /\ outcome' \in Outcomes
  BY <1>3, EnterTyped
<1> QED
  BY <1>4, <1>5 DEF TypeOK, Stages

\* What the actions that hear an answer have in common.
LEMMA AnswerTyped ==
  ASSUME TypeOK, pc \in Stages, NEW r \in Answers, Hear(r),
         UNCHANGED <<setup, now, worker, count>>,
         pc' \in Stages \cup {"acting", "done"}, call' \in Calls, tried' \subseteq AccountIds \ {0},
         origin' \in Reports, failures' \in Nat, last' \in Attempts, outcome' \in Outcomes
  PROVE  TypeOK'
BY HearTyped DEF TypeOK

LEMMA TryNextAccountTyped ==
  ASSUME TypeOK, NEW r \in Answers, TryNextAccount(r)
  PROVE  TypeOK'
<1>1. PICK a \in Untried(r) : call' = [call EXCEPT !.account = a] /\ tried' = tried \cup {a}
  BY DEF TryNextAccount
<1>2. call \in Calls /\ call.model \in Providers /\ tried \subseteq AccountIds \ {0}
  BY DEF TypeOK, Calls
<1>3. a \in AccountIds \ {0}
  BY <1>2, AccountsTyped DEF Untried
<1>4. call' \in Calls /\ tried' \subseteq AccountIds \ {0}
  BY <1>1, <1>2, <1>3 DEF Calls
<1>5. /\ pc \in Stages /\ Hear(r)
      /\ UNCHANGED <<setup, now, pc, origin, worker, failures, last, outcome, count>>
  BY DEF TryNextAccount, memory
<1> QED
  BY <1>4, <1>5, AnswerTyped DEF TypeOK

LEMMA PrimaryVerdictsTyped ==
  ASSUME NEW r
  PROVE  /\ PrimaryVerdicts(r) \subseteq {"network_wait", "fallback_not_authorized", "rate_limit", "rate_limit_wait"}
         /\ Pinned => PrimaryVerdicts(r) # {}
         /\ "network_wait" \in PrimaryVerdicts(r) => r.network
         /\ "rate_limit_wait" \in PrimaryVerdicts(r) => LimitReached(r)
BY DEF PrimaryVerdicts

LEMMA FailPrimaryTyped ==
  ASSUME TypeOK, NEW r \in Answers, FailPrimary(r)
  PROVE  TypeOK' /\ pc' = "done"
<1>1. PICK e \in PrimaryVerdicts(r) :
        Conclude(e, IF e \in {"rate_limit", "rate_limit_wait"} THEN "rate_limit" ELSE e, call)
  BY DEF FailPrimary
<1>2. e \in Errors /\ (IF e \in {"rate_limit", "rate_limit_wait"} THEN "rate_limit" ELSE e) \in Errors
  BY <1>1, PrimaryVerdictsTyped DEF Errors, Waits
<1>3. call \in Calls
  BY DEF TypeOK
<1>4. failures' \in Nat /\ last' \in Attempts /\ outcome' \in Outcomes /\ pc' = "done"
  BY <1>1, <1>2, <1>3, ConcludeTyped
<1>5. pc \in Stages /\ Hear(r) /\ UNCHANGED <<setup, now, call, tried, origin, worker, count>>
  BY DEF FailPrimary, step, Stages
<1> QED
  BY <1>4, <1>5, AnswerTyped DEF TypeOK

LEMMA FallBackTyped ==
  ASSUME TypeOK, NEW r \in Answers, FallBack(r)
  PROVE  TypeOK' /\ pc' = "fallback"
<1>1. PICK m \in IF LimitReached(r) THEN Alternatives(BlockedUntil(r), call.model)
                                    ELSE FallbackModels(BlockedUntil(r), call.model) :
        \E a \in AccountsFor(BlockedUntil(r), m) : Place("fallback", m, a)
  BY DEF FallBack
<1>2. m \in Providers
  BY AlternativesTyped, FallbackModelsTyped DEF TypeOK, Calls
<1>3. PICK a \in AccountsFor(BlockedUntil(r), m) : Place("fallback", m, a)
  BY <1>1
<1>4. call' \in Calls /\ tried' \subseteq AccountIds \ {0} /\ pc' = "fallback"
  BY <1>2, <1>3, AccountsTyped, PlaceTyped DEF Place, Stages
<1>5. /\ pc \in Stages /\ Hear(r) /\ origin' = r
      /\ UNCHANGED <<setup, now, worker, failures, last, outcome, count>>
  BY DEF FallBack, memory, Stages
<1>6. origin' \in Reports
  BY <1>5, ReportTyped
<1> QED
  BY <1>4, <1>5, <1>6, AnswerTyped DEF TypeOK, Stages

LEMMA FailFallbackTyped ==
  ASSUME TypeOK, NEW r \in Answers, FailFallback(r)
  PROVE  TypeOK' /\ pc' = "done"
<1>1. Conclude(FallbackVerdict(r), FallbackVerdict(r), call)
  BY DEF FailFallback
<1>2. FallbackVerdict(r) \in Errors
  BY DEF FallbackVerdict, Errors, Waits
<1>3. call \in Calls
  BY DEF TypeOK
<1>4. failures' \in Nat /\ last' \in Attempts /\ outcome' \in Outcomes /\ pc' = "done"
  BY <1>1, <1>2, <1>3, ConcludeTyped
<1>5. pc \in Stages /\ Hear(r) /\ UNCHANGED <<setup, now, call, tried, origin, worker, count>>
  BY DEF FailFallback, step, Stages
<1> QED
  BY <1>4, <1>5, AnswerTyped DEF TypeOK

LEMMA RejectOutputTyped ==
  ASSUME TypeOK, NEW r \in Answers, RejectOutput(r)
  PROVE  TypeOK' /\ pc' = "done"
<1>1. Conclude("invalid_output", "invalid_output", call) /\ "invalid_output" \in Errors
  BY DEF RejectOutput, Errors
<1>2. call \in Calls
  BY DEF TypeOK
<1>3. failures' \in Nat /\ last' \in Attempts /\ outcome' \in Outcomes /\ pc' = "done"
  BY <1>1, <1>2, ConcludeTyped
<1>4. pc \in Stages /\ Hear(r) /\ UNCHANGED <<setup, now, call, tried, origin, worker, count>>
  BY DEF RejectOutput, step, Stages
<1> QED
  BY <1>3, <1>4, AnswerTyped DEF TypeOK

LEMMA CallCriticTyped ==
  ASSUME TypeOK, NEW r \in Answers, CallCritic(r)
  PROVE  TypeOK' /\ pc' = "critic"
<1>1. PICK c \in RoleRoutes(setup.critic, 0) :
        IF c # None
          THEN \E a \in IF c.account # 0 THEN {c.account} ELSE AccountsFor(until, c.provider) :
                 Place("critic", c.provider, a)
          ELSE IF Alternatives(until, call.model) = {}
            THEN Place("critic", call.model, call.account)
            ELSE \E m \in Alternatives(until, call.model) :
                   \E a \in AccountsFor(until, m) : Place("critic", m, a)
  BY DEF CallCritic
<1>2. call.model \in Providers /\ call.account \in AccountIds
  BY DEF TypeOK, Calls
<1>3. c \in Routes \cup {None}
  BY RoleRoutesTyped, SetupTyped DEF TypeOK
<1>4. \E m \in Providers, a \in AccountIds : Place("critic", m, a)
  <2>1. CASE c # None
    <3>1. c.provider \in Providers /\ c.account \in AccountIds
      BY <1>3, <2>1 DEF Routes
    <3> QED
      BY <1>1, <2>1, <3>1, AccountsTyped
  <2>2. CASE c = None /\ Alternatives(until, call.model) = {}
    BY <1>1, <1>2, <2>2
  <2>3. CASE c = None /\ Alternatives(until, call.model) # {}
    <3>1. Alternatives(until, call.model) \subseteq Providers
      BY AlternativesTyped DEF TypeOK
    <3> QED
      BY <1>1, <2>3, <3>1, AccountsTyped
  <2> QED
    BY <2>1, <2>2, <2>3
<1>5. call' \in Calls /\ tried' \subseteq AccountIds \ {0} /\ pc' = "critic"
  BY <1>4, PlaceTyped DEF Place, Stages
<1>6. /\ pc \in Stages /\ Hear(r) /\ worker' = call
      /\ UNCHANGED <<setup, now, origin, failures, last, outcome, count>>
  BY DEF CallCritic, memory, Stages
<1> QED
  BY <1>5, <1>6, HearTyped DEF TypeOK, Stages

LEMMA ReviewTyped ==
  ASSUME TypeOK, NEW r \in Answers, Review(r)
  PROVE  TypeOK' /\ pc' \in {"acting", "done"}
<1>1. call \in Calls
  BY DEF TypeOK
<1>2. /\ failures' \in Nat /\ last' \in Attempts /\ outcome' \in Outcomes
      /\ pc' \in {"acting", "done"}
  <2>1. ASSUME NEW e \in {"critic_invalid_output", "critic_rejection"}, Conclude(e, e, call)
        PROVE  failures' \in Nat /\ last' \in Attempts /\ outcome' \in Outcomes /\ pc' = "done"
    <3>1. e \in Errors
      BY DEF Errors
    <3> QED
      BY <1>1, <2>1, <3>1, ConcludeTyped
  <2>2. ASSUME pc' = "acting", UNCHANGED <<failures, last, outcome>>
        PROVE  failures' \in Nat /\ last' \in Attempts /\ outcome' \in Outcomes
    BY <2>2 DEF TypeOK
  <2> QED
    BY <2>1, <2>2 DEF Review, memory
<1>3. pc \in Stages /\ Hear(r) /\ UNCHANGED <<setup, now, call, tried, origin, worker, count>>
  BY DEF Review, step, Stages
<1> QED
  BY <1>2, <1>3, AnswerTyped DEF TypeOK

Judgements == {"none", "execution_error", "wet_run_required"}

LEMMA ActTyped ==
  ASSUME TypeOK, NEW early \in Judgements, NEW late \in LateGates \cup {"none"},
         NEW completed \in BOOLEAN, Act(early, late, completed)
  PROVE  /\ TypeOK' /\ pc' = "done" /\ heard' = heard /\ pc = "acting"
         /\ outcome'.error \notin Waits
         /\ last' = [ok |-> early = "none", error |-> early,
                     model |-> worker.model, account |-> worker.account]
<1> DEFINE err == IF early # "none" THEN early ELSE late
<1>1. early \in Errors \cup {"none"} /\ err \in (Errors \ Waits) \cup {"none"}
  BY DEF Judgements, Errors, LateGates, Waits
<1>2. worker.model \in Providers /\ worker.account \in AccountIds /\ failures \in Nat
  BY DEF TypeOK, Calls
<1>3. /\ last' = [ok |-> early = "none", error |-> early,
                  model |-> worker.model, account |-> worker.account]
      /\ failures' = IF early = "none" THEN failures ELSE failures + 1
      /\ completed => err = "none"
      /\ pc = "acting" /\ UNCHANGED <<setup, now, preferred, until, call, tried, origin, worker, heard, count>>
  BY DEF Act, RecordAction, prefs, step
<1>4. PICK m \in IF err # "none" /\ failures' >= MaxRetries /\ setup.fallback
                   THEN Escalations(until, worker.model) ELSE {worker.model} :
        Return([ok |-> err = "none", completed |-> completed, error |-> err, model |-> m,
                attempt |-> IF early = "none" THEN "succeeded" ELSE "failed"])
  BY DEF Act
<1>5. m \in Providers
  BY <1>2, EscalationsTyped DEF TypeOK
<1>6. failures' \in Nat /\ last' \in Attempts
  BY <1>1, <1>2, <1>3 DEF Attempts
<1>7. pc' = "done" /\ outcome' = [ok |-> err = "none", completed |-> completed, error |-> err,
        model |-> m, attempt |-> IF early = "none" THEN "succeeded" ELSE "failed"]
  BY <1>4 DEF Return
<1>8. err = "none" => early = "none"
  OBVIOUS
<1>9. outcome' \in Outcomes /\ outcome'.error \notin Waits
  <2> HIDE DEF err
  <2>1. "none" \notin Waits
    BY DEF Waits
  <2> QED
    BY <1>1, <1>3, <1>5, <1>7, <1>8, <2>1 DEF Outcomes
<1> QED
  BY <1>3, <1>6, <1>7, <1>9 DEF TypeOK

LEMMA LeaveTyped ==
  ASSUME TypeOK, Leave
  PROVE  TypeOK' /\ pc' = "idle" /\ heard' = {}
<1>1. NoCall \in Calls /\ NoReport \in Reports /\ NoOutcome \in Outcomes
  <2>1. 0 \in AccountIds
    BY ExecutorAssumption DEF AccountIds
  <2>2. NoCall \in Calls
    BY <2>1 DEF NoCall, Calls, Providers
  <2>3. NoReport \in Reports
    BY DEF NoReport, Reports
  <2>4. NoOutcome \in Outcomes
    BY DEF NoOutcome, Outcomes, Providers, Errors, Waits
  <2> QED
    BY <2>2, <2>3, <2>4
<1> QED
  BY <1>1 DEF Leave, TypeOK, prefs, memory

LEMMA InitTyped == Init => TypeOK
<1> SUFFICES ASSUME Init PROVE TypeOK
  OBVIOUS
<1>1. 0 \in AccountIds
  BY ExecutorAssumption DEF AccountIds
<1>2. NoCall \in Calls /\ NoAttempt \in Attempts
  BY <1>1 DEF NoCall, Calls, Providers, NoAttempt, Attempts
<1>3. NoReport \in Reports /\ NoOutcome \in Outcomes
  BY DEF NoReport, Reports, NoOutcome, Outcomes, Providers, Errors, Waits
<1>4. setup.preferred \in setup.enabled \cup {None}
  BY ExecutorAssumption DEF Init
<1> QED
  BY <1>2, <1>3, <1>4 DEF Init, TypeOK

-----------------------------------------------------------------------------
(* The inductive invariant: what the answers heard so far say at each stage. *)

Progress ==
  /\ pc = "idle" => heard = {}
  /\ pc \in {"primary", "fallback"} => \A h \in heard : ~h.answer.ok
  /\ pc = "primary" => \A h \in heard : h.call.model = call.model
  /\ pc = "fallback" => ~Pinned /\ \E h \in heard : h.answer = origin
  /\ pc \in {"critic", "acting"} =>
       \E h \in heard : h.stage # "critic" /\ h.answer.ok /\ h.call = worker

IInv ==
  /\ TypeOK /\ Progress
  /\ PinnedStepStays /\ SuspensionJustified /\ AttemptNamesCaller

\* The new element of heard.
Heard(r) == [stage |-> pc, call |-> call, answer |-> r]

LEMMA HearAdds ==
  ASSUME NEW r, Hear(r)
  PROVE  /\ heard' = heard \cup {Heard(r)}
         /\ Heard(r).stage = pc /\ Heard(r).call = call /\ Heard(r).answer = r
BY DEF Hear, Heard

\* The provider of a pinned step stays: every call before the critic's is to one
\* provider, because a pinned step has no fallback.
LEMMA PinnedKept ==
  ASSUME IInv, pc \in Stages, NEW r, Hear(r), UNCHANGED setup
  PROVE  PinnedStepStays'
<1>1. heard' = heard \cup {Heard(r)} /\ Heard(r).stage = pc /\ Heard(r).call = call
  BY HearAdds
<1>2. Pinned' = Pinned
  BY DEF Pinned
<1>3. SUFFICES ASSUME Pinned, NEW g \in heard', NEW h \in heard',
                      g.stage # "critic", h.stage # "critic"
               PROVE  g.call.model = h.call.model
  BY <1>2 DEF PinnedStepStays
<1>4. CASE pc = "critic"
  BY <1>1, <1>3, <1>4 DEF IInv, PinnedStepStays
<1>5. CASE pc = "primary"
  BY <1>1, <1>3, <1>5 DEF IInv, Progress
<1>6. pc # "fallback"
  BY <1>3 DEF IInv, Progress
<1> QED
  BY <1>4, <1>5, <1>6 DEF Stages

\* A step that goes on or ends with a failing call keeps what Progress says of it.
LEMMA TryNextAccountKeeps ==
  ASSUME IInv, NEW r \in Answers, TryNextAccount(r)
  PROVE  IInv'
<1>1. TypeOK'
  BY TryNextAccountTyped DEF IInv
<1>2. /\ pc \in Stages /\ pc' = pc /\ ~r.ok /\ Hear(r) /\ call'.model = call.model
      /\ UNCHANGED <<setup, origin, worker>>
  <2>1. PICK a : call' = [call EXCEPT !.account = a]
    BY DEF TryNextAccount
  <2>2. call'.model = call.model
    BY <2>1 DEF IInv, TypeOK, Calls
  <2> QED
    BY <2>2 DEF TryNextAccount
<1>3. heard' = heard \cup {Heard(r)} /\ Heard(r).call = call /\ Heard(r).answer = r
  BY <1>2, HearAdds
<1>4. Progress'
  BY <1>2, <1>3 DEF IInv, Progress, Pinned, Stages
<1>5. PinnedStepStays'
  BY <1>2, PinnedKept
<1>6. SuspensionJustified' /\ AttemptNamesCaller'
  BY <1>2 DEF SuspensionJustified, AttemptNamesCaller, Stages
<1> QED
  BY <1>1, <1>4, <1>5, <1>6 DEF IInv

\* The attempt of a call that has just failed names the call.
LEMMA ConcludeNames ==
  ASSUME TypeOK, NEW r, Hear(r), NEW e, NEW ae, Conclude(e, ae, call)
  PROVE  AttemptNamesCaller'
<1>1. Heard(r) \in heard' /\ Heard(r).call = call
  BY HearAdds
<1>2. last'.model = call.model /\ last'.account = call.account /\ ~last'.ok
  BY DEF Conclude
<1>3. call = [model |-> call.model, account |-> call.account]
  BY DEF TypeOK, Calls
<1> QED
  BY <1>1, <1>2, <1>3 DEF AttemptNamesCaller

LEMMA DoneProgress ==
  ASSUME pc' = "done"
  PROVE  Progress'
BY DEF Progress

LEMMA FailPrimaryKeeps ==
  ASSUME IInv, NEW r \in Answers, FailPrimary(r)
  PROVE  IInv'
<1>1. TypeOK' /\ pc' = "done"
  BY FailPrimaryTyped DEF IInv
<1>2. PICK e \in PrimaryVerdicts(r) :
        Conclude(e, IF e \in {"rate_limit", "rate_limit_wait"} THEN "rate_limit" ELSE e, call)
  BY DEF FailPrimary
<1>3. pc = "primary" /\ ~r.ok /\ Hear(r) /\ UNCHANGED setup
  BY DEF FailPrimary
<1>4. heard' = heard \cup {Heard(r)} /\ Heard(r).answer = r
  BY <1>3, HearAdds
<1>5. SuspensionJustified'
  <2>1. outcome'.error = e
    BY <1>2 DEF Conclude, Return
  <2>2. \A h \in heard' : ~h.answer.ok
    BY <1>3, <1>4 DEF IInv, Progress
  <2>3. e \in Waits => IF e = "network_wait" THEN r.network ELSE LimitReached(r)
    BY <1>2, PrimaryVerdictsTyped DEF Waits
  <2>4. e \in Waits => \E h \in heard' : IF e = "network_wait" THEN h.answer.network
                                                                ELSE LimitReached(h.answer)
    BY <1>4, <2>3
  <2> QED
    BY <2>1, <2>2, <2>4 DEF SuspensionJustified, Network, Limited, LimitReached
<1> QED
  BY <1>1, <1>2, <1>3, <1>5, PinnedKept, ConcludeNames, DoneProgress DEF IInv, Stages

LEMMA FallBackKeeps ==
  ASSUME IInv, NEW r \in Answers, FallBack(r)
  PROVE  IInv'
<1>1. TypeOK' /\ pc' = "fallback"
  BY FallBackTyped DEF IInv
<1>2. pc = "primary" /\ ~r.ok /\ Hear(r) /\ origin' = r /\ UNCHANGED setup /\ PrimaryVerdicts(r) = {}
  BY DEF FallBack
<1>3. heard' = heard \cup {Heard(r)} /\ Heard(r).answer = r
  BY <1>2, HearAdds
<1>4. ~Pinned'
  BY <1>2, PrimaryVerdictsTyped DEF Pinned
<1>5. Progress'
  BY <1>1, <1>2, <1>3, <1>4 DEF IInv, Progress
<1>6. PinnedStepStays'
  BY <1>2, PinnedKept DEF Stages
<1>7. SuspensionJustified' /\ AttemptNamesCaller'
  BY <1>1 DEF SuspensionJustified, AttemptNamesCaller
<1> QED
  BY <1>1, <1>5, <1>6, <1>7 DEF IInv

LEMMA FailFallbackKeeps ==
  ASSUME IInv, NEW r \in Answers, FailFallback(r)
  PROVE  IInv'
<1>1. TypeOK' /\ pc' = "done"
  BY FailFallbackTyped DEF IInv
<1>2. Conclude(FallbackVerdict(r), FallbackVerdict(r), call)
  BY DEF FailFallback
<1>3. pc = "fallback" /\ ~r.ok /\ Hear(r) /\ UNCHANGED setup
  BY DEF FailFallback
<1>4. heard' = heard \cup {Heard(r)} /\ Heard(r).answer = r
  BY <1>3, HearAdds
<1>5. SuspensionJustified'
  <2>1. outcome'.error = FallbackVerdict(r)
    BY <1>2 DEF Conclude, Return
  <2>2. \A h \in heard' : ~h.answer.ok
    BY <1>3, <1>4 DEF IInv, Progress
  <2>3. PICK h \in heard : h.answer = origin
    BY <1>3 DEF IInv, Progress
  <2>4. h \in heard' /\ Heard(r) \in heard'
    BY <1>4, <2>3
  <2>5. CASE origin.network \/ r.network
    <3>1. FallbackVerdict(r) = "network_wait"
      BY <2>5 DEF FallbackVerdict
    <3>2. \E g \in heard' : g.answer.network
      BY <1>4, <2>3, <2>4, <2>5
    <3> QED
      BY <2>1, <2>2, <3>1, <3>2 DEF SuspensionJustified, Network
  <2>6. CASE ~(origin.network \/ r.network) /\ (origin.limit \/ r.limit)
    <3>1. FallbackVerdict(r) = "rate_limit_wait"
      BY <2>6 DEF FallbackVerdict
    <3>2. \E g \in heard' : g.answer.days # 0 \/ g.answer.limit
      BY <1>4, <2>3, <2>4, <2>6
    <3> QED
      BY <2>1, <2>2, <3>1, <3>2 DEF SuspensionJustified, Limited, LimitReached
  <2>7. CASE ~(origin.network \/ r.network) /\ ~(origin.limit \/ r.limit)
    BY <2>1, <2>7 DEF FallbackVerdict, SuspensionJustified, Waits
  <2> QED
    BY <2>5, <2>6, <2>7
<1> QED
  BY <1>1, <1>2, <1>3, <1>5, PinnedKept, ConcludeNames, DoneProgress DEF IInv, Stages

LEMMA RejectOutputKeeps ==
  ASSUME IInv, NEW r \in Answers, RejectOutput(r)
  PROVE  IInv'
<1>1. TypeOK' /\ pc' = "done"
  BY RejectOutputTyped DEF IInv
<1>2. Conclude("invalid_output", "invalid_output", call) /\ pc \in Stages /\ Hear(r) /\ UNCHANGED setup
  BY DEF RejectOutput, Stages
<1>3. SuspensionJustified'
  BY <1>2 DEF Conclude, Return, SuspensionJustified, Waits
<1> QED
  BY <1>1, <1>2, <1>3, PinnedKept, ConcludeNames, DoneProgress DEF IInv

LEMMA CallCriticKeeps ==
  ASSUME IInv, NEW r \in Answers, CallCritic(r)
  PROVE  IInv'
<1>1. TypeOK' /\ pc' = "critic"
  BY CallCriticTyped DEF IInv
<1>2. pc \in {"primary", "fallback"} /\ r.ok /\ Hear(r) /\ worker' = call /\ UNCHANGED setup
  BY DEF CallCritic
<1>3. /\ heard' = heard \cup {Heard(r)}
      /\ Heard(r).stage = pc /\ Heard(r).call = call /\ Heard(r).answer = r
  BY <1>2, HearAdds
<1>4. Progress'
  BY <1>1, <1>2, <1>3 DEF Progress
<1>5. SuspensionJustified' /\ AttemptNamesCaller'
  BY <1>1 DEF SuspensionJustified, AttemptNamesCaller
<1> QED
  BY <1>1, <1>2, <1>4, <1>5, PinnedKept DEF IInv, Stages

LEMMA ReviewKeeps ==
  ASSUME IInv, NEW r \in Answers, Review(r)
  PROVE  IInv'
<1>1. TypeOK' /\ pc' \in {"acting", "done"}
  BY ReviewTyped DEF IInv
<1>2. pc = "critic" /\ Hear(r) /\ UNCHANGED <<setup, worker>>
  BY DEF Review, step
<1>3. heard \subseteq heard'
  BY <1>2, HearAdds
<1>4. Progress'
  BY <1>1, <1>2, <1>3 DEF IInv, Progress
<1>5. PinnedStepStays'
  BY <1>2, PinnedKept DEF Stages
<1>6. CASE pc' = "acting"
  BY <1>1, <1>4, <1>5, <1>6 DEF IInv, SuspensionJustified, AttemptNamesCaller
<1>7. ASSUME NEW e \in {"critic_invalid_output", "critic_rejection"}, Conclude(e, e, call)
      PROVE  SuspensionJustified' /\ AttemptNamesCaller'
  <2>1. AttemptNamesCaller'
    BY <1>2, <1>7, ConcludeNames DEF IInv
  <2>2. SuspensionJustified'
    BY <1>7 DEF Conclude, Return, SuspensionJustified, Waits
  <2> QED
    BY <2>1, <2>2
<1> QED
  BY <1>1, <1>4, <1>5, <1>6, <1>7 DEF IInv, Review

LEMMA ActKeeps ==
  ASSUME IInv, NEW early \in Judgements, NEW late \in LateGates \cup {"none"},
         NEW completed \in BOOLEAN, Act(early, late, completed)
  PROVE  IInv'
<1>1. /\ TypeOK' /\ pc' = "done" /\ heard' = heard /\ pc = "acting"
      /\ outcome'.error \notin Waits
      /\ last' = [ok |-> early = "none", error |-> early,
                  model |-> worker.model, account |-> worker.account]
  BY ActTyped DEF IInv
<1>2. PICK h \in heard : h.stage # "critic" /\ h.answer.ok /\ h.call = worker
  BY <1>1 DEF IInv, Progress
<1>3. worker = [model |-> worker.model, account |-> worker.account]
  BY DEF IInv, TypeOK, Calls
<1>4. AttemptNamesCaller'
  BY <1>1, <1>2, <1>3 DEF AttemptNamesCaller
<1>5. SuspensionJustified'
  BY <1>1 DEF SuspensionJustified
<1>6. UNCHANGED setup
  BY DEF Act
<1>7. PinnedStepStays'
  BY <1>1, <1>6 DEF IInv, PinnedStepStays, Pinned
<1> QED
  BY <1>1, <1>4, <1>5, <1>7, DoneProgress DEF IInv

LEMMA BeginKeeps ==
  ASSUME IInv, Begin
  PROVE  IInv'
<1>1. /\ TypeOK' /\ pc' \in {"primary", "done"}
      /\ pc' = "primary" \/ (outcome'.error \notin Waits /\ outcome'.attempt = "none")
  BY BeginTyped DEF IInv
<1>2. heard' = {}
  BY DEF Begin, IInv, Progress
<1> QED
  BY <1>1, <1>2 DEF IInv, Progress, PinnedStepStays, SuspensionJustified, AttemptNamesCaller

LEMMA LeaveKeeps ==
  ASSUME IInv, Leave
  PROVE  IInv'
<1>1. TypeOK' /\ pc' = "idle" /\ heard' = {}
  BY LeaveTyped DEF IInv
<1> QED
  BY <1>1 DEF IInv, Progress, PinnedStepStays, SuspensionJustified, AttemptNamesCaller

LEMMA StutterKeeps ==
  ASSUME IInv, now' \in Nat,
         UNCHANGED <<setup, prefs, pc, step, heard, memory, outcome, count>>
  PROVE  IInv'
<1>1. UNCHANGED <<setup, preferred, until, pc, call, tried, origin, worker, heard, failures, last,
                  outcome, count>>
  BY DEF prefs, step, memory
<1>2. TypeOK' /\ Progress'
  BY <1>1 DEF IInv, TypeOK, Progress, Pinned
<1>3. PinnedStepStays'
  BY <1>1 DEF IInv, PinnedStepStays, Pinned
<1>4. SuspensionJustified' /\ AttemptNamesCaller'
  BY <1>1 DEF IInv, SuspensionJustified, AttemptNamesCaller, Limited, Network, LimitReached
<1> QED
  BY <1>2, <1>3, <1>4 DEF IInv

LEMMA StepKeeps == IInv /\ [Next]_vars => IInv'
<1> SUFFICES ASSUME IInv, [Next]_vars PROVE IInv'
  OBVIOUS
<1>1. CASE Begin
  BY <1>1, BeginKeeps
<1>2. CASE Answer
  <2>1. PICK r \in Answers :
          \/ TryNextAccount(r) \/ FailPrimary(r) \/ FallBack(r) \/ FailFallback(r)
          \/ RejectOutput(r) \/ CallCritic(r) \/ Review(r)
    BY <1>2, Zenon DEF Answer
  <2> QED
    BY <2>1, TryNextAccountKeeps, FailPrimaryKeeps, FallBackKeeps, FailFallbackKeeps,
       RejectOutputKeeps, CallCriticKeeps, ReviewKeeps
<1>3. CASE Execute
  <2>1. PICK early \in Judgements, late \in LateGates \cup {"none"}, completed \in BOOLEAN :
          Act(early, late, completed)
    BY <1>3, Zenon DEF Execute, Judgements
  <2> QED
    BY <2>1, ActKeeps
<1>4. CASE Again \/ Crash
  BY <1>4, LeaveKeeps DEF Again, Crash
<1>5. CASE Tick
  BY <1>5, StutterKeeps DEF Tick, IInv, TypeOK
<1>6. CASE UNCHANGED vars
  BY <1>6, StutterKeeps DEF vars, IInv, TypeOK
<1> QED
  BY <1>1, <1>2, <1>3, <1>4, <1>5, <1>6 DEF Next

LEMMA InitHolds == Init => IInv
BY InitTyped DEF Init, IInv, Progress, PinnedStepStays, SuspensionJustified, AttemptNamesCaller

LEMMA Invariance == Spec => []IInv
BY InitHolds, StepKeeps, PTL DEF Spec

-----------------------------------------------------------------------------
(* The theorems. *)

\* TypeOK: the state of a step is well formed whatever the providers answer.
THEOREM TypeCorrect == Spec => []TypeOK
BY Invariance, PTL DEF IInv

\* PinnedStepStays: no failover and no expired block moves the work of a step to
\* a provider its user has not authorised, in every configuration.
THEOREM PinnedStepAlwaysStays == Spec => []PinnedStepStays
BY Invariance, PTL DEF IInv

\* SuspensionJustified: a run is suspended only for what a call of the step said.
THEOREM SuspensionAlwaysJustified == Spec => []SuspensionJustified
BY Invariance, PTL DEF IInv

\* AttemptNamesCaller: the memory credits an attempt to the provider that made it.
THEOREM AttemptAlwaysNamesCaller == Spec => []AttemptNamesCaller
BY Invariance, PTL DEF IInv

-----------------------------------------------------------------------------
(* Accounts that are blocked. *)

\* The account of a route is the one its role names, or a free one.
FreeOrNamed(m, a) == a = 0 \/ a \in NamedAccounts \/ ~Blocked(until, m, a)

LEMMA NamedIsFree ==
  ASSUME NEW r \in setup.pool \cup {setup.role, setup.critic}, r # None
  PROVE  r.account \in NamedAccounts
BY DEF NamedAccounts

LEMMA MovedRoutesFree ==
  ASSUME NEW r, FreeOrNamed(r.provider, r.account), r.account \in NamedAccounts \cup {0},
         TypeOK, NEW m, NEW x \in MovedRoutes(r, m)
  PROVE  FreeOrNamed(x.provider, x.account)
<1>1. CASE x \in setup.pool
  <2>1. x # None
    BY <1>1, SetupTyped, ExecutorAssumption DEF TypeOK
  <2> QED
    BY <1>1, <2>1, NamedIsFree DEF FreeOrNamed
<1>2. CASE x \notin setup.pool
  <2>1. PICK a \in AccountsFor(until, m) :
          x = [provider |-> m, account |-> IF a # 0 THEN a ELSE r.account, blocked |-> FALSE]
    BY <1>2 DEF MovedRoutes
  <2>2. a = 0 \/ ~Blocked(until, m, a)
    BY AccountsFree
  <2> QED
    BY <2>1, <2>2 DEF FreeOrNamed
<1> QED
  BY <1>1, <1>2

LEMMA RoleRoutesFree ==
  ASSUME TypeOK, NEW r \in {setup.role, setup.critic}, NEW n,
         NEW x \in RoleRoutes(r, n), x # None
  PROVE  FreeOrNamed(x.provider, x.account)
<1>1. r # None /\ r \in Routes
  BY SetupTyped DEF RoleRoutes, TypeOK
<1>2. r.account \in NamedAccounts
  BY <1>1, NamedIsFree
<1>3. CASE x \in PoolRoutes
  <2>1. x \in setup.pool
    BY <1>3 DEF PoolRoutes
  <2> QED
    BY <2>1, NamedIsFree DEF FreeOrNamed
<1>4. CASE x = r
  BY <1>2, <1>4 DEF FreeOrNamed
<1>5. CASE x \in EscalatedRoutes(r, n)
  <2>1. ASSUME NEW m, x \in MovedRoutes(r, m)
        PROVE  FreeOrNamed(x.provider, x.account)
    BY <1>2, <2>1, MovedRoutesFree DEF FreeOrNamed
  <2>2. ASSUME NEW a \in AccountsFor(until, r.provider),
               x = [r EXCEPT !.account = IF a # 0 THEN a ELSE r.account]
        PROVE  FreeOrNamed(x.provider, x.account)
    <3>1. x.provider = r.provider /\ x.account = IF a # 0 THEN a ELSE r.account
      BY <1>1, <2>2 DEF Routes
    <3>2. a = 0 \/ ~Blocked(until, r.provider, a)
      BY AccountsFree
    <3> QED
      BY <1>2, <3>1, <3>2 DEF FreeOrNamed
  <2> QED
    BY <1>2, <1>4, <1>5, <2>1, <2>2 DEF EscalatedRoutes
<1> QED
  BY <1>1, <1>3, <1>4, <1>5 DEF RoleRoutes

\* The account of the pending call is free, or a role has named it.
CallFree == pc \in {"primary", "fallback"} => FreeOrNamed(call.model, call.account)

LEMMA BeginFree ==
  ASSUME TypeOK, Begin, pc' = "primary"
  PROVE  FreeOrNamed(call'.model, call'.account) /\ until' = until
<1>1. PICK m \in ChosenModels, r \in RoleRoutes(setup.role, failures) :
        IF r = None
          THEN \E a \in AccountsFor(until, m) : Enter(m, a)
          ELSE \E a \in IF r.account # 0 THEN {r.account} ELSE AccountsFor(until, r.provider) :
                 Enter(r.provider, a)
  BY DEF Begin
<1>2. PICK p, a : Enter(p, a) /\ FreeOrNamed(p, a)
  <2>1. CASE r = None
    BY <1>1, <2>1, AccountsFree DEF FreeOrNamed
  <2>2. CASE r # None
    <3>1. FreeOrNamed(r.provider, r.account)
      BY <2>2, RoleRoutesFree
    <3> QED
      BY <1>1, <2>2, <3>1, AccountsFree DEF FreeOrNamed
  <2> QED
    BY <2>1, <2>2
<1>3. until' = until
  BY DEF Begin, prefs
<1>4. PICK q, b : Place("primary", q, b) /\ FreeOrNamed(q, b)
  <2>1. CASE Accounts[p] = 0 \/ a # 0
    BY <1>2, <2>1 DEF Enter
  <2>2. CASE ~(Accounts[p] = 0 \/ a # 0)
    <3>1. PICK f \in RouterFallbacks(until, p) :
            IF f = p THEN AccountMissing(p)
            ELSE \E b \in AccountsFor(until, f) : Place("primary", f, b) /\ UNCHANGED outcome
      BY <1>2, <2>2 DEF Enter
    <3>2. f # p
      BY <3>1 DEF AccountMissing, Return
    <3> QED
      BY <3>1, <3>2, AccountsFree DEF FreeOrNamed
  <2> QED
    BY <2>1, <2>2
<1> QED
  BY <1>3, <1>4 DEF Place

\* A call that goes to another account or to a fallback goes to a free one.
LEMMA FailoverFree ==
  ASSUME TypeOK, NEW r \in Answers, TryNextAccount(r) \/ FallBack(r)
  PROVE  call'.account = 0 \/ ~Blocked(until', call'.model, call'.account)
<1>1. until' = BlockedUntil(r)
  BY DEF TryNextAccount, FallBack, Hear
<1>2. CASE TryNextAccount(r)
  <2>1. PICK a \in Untried(r) : call' = [call EXCEPT !.account = a]
    BY <1>2 DEF TryNextAccount
  <2>2. call'.model = call.model /\ call'.account = a
    BY <2>1 DEF TypeOK, Calls
  <2>3. ~Blocked(BlockedUntil(r), call.model, a)
    BY AccountsFree DEF Untried
  <2> QED
    BY <1>1, <2>2, <2>3 DEF Blocked
<1>3. CASE FallBack(r)
  <2>1. PICK m, a : a \in AccountsFor(BlockedUntil(r), m) /\ Place("fallback", m, a)
    BY <1>3 DEF FallBack
  <2>2. a = 0 \/ ~Blocked(BlockedUntil(r), m, a)
    BY <2>1, AccountsFree
  <2> QED
    BY <1>1, <2>1, <2>2 DEF Place, Blocked
<1> QED
  BY <1>2, <1>3

LEMMA CallCriticFree ==
  ASSUME TypeOK, CallFree, NEW r \in Answers, CallCritic(r)
  PROVE  FreeOrNamed(call'.model, call'.account) /\ until' = until
<1>1. PICK c \in RoleRoutes(setup.critic, 0) :
        IF c # None
          THEN \E a \in IF c.account # 0 THEN {c.account} ELSE AccountsFor(until, c.provider) :
                 Place("critic", c.provider, a)
          ELSE IF Alternatives(until, call.model) = {}
            THEN Place("critic", call.model, call.account)
            ELSE \E m \in Alternatives(until, call.model) :
                   \E a \in AccountsFor(until, m) : Place("critic", m, a)
  BY DEF CallCritic
<1>2. until' = until /\ pc \in {"primary", "fallback"}
  BY DEF CallCritic, Hear
<1>3. PICK m, a : Place("critic", m, a) /\ FreeOrNamed(m, a)
  <2>1. CASE c # None
    <3>1. FreeOrNamed(c.provider, c.account)
      BY <2>1, RoleRoutesFree
    <3> QED
      BY <1>1, <2>1, <3>1, AccountsFree DEF FreeOrNamed
  <2>2. CASE c = None /\ Alternatives(until, call.model) = {}
    BY <1>1, <1>2, <2>2 DEF CallFree
  <2>3. CASE c = None /\ Alternatives(until, call.model) # {}
    BY <1>1, <2>3, AccountsFree DEF FreeOrNamed
  <2> QED
    BY <2>1, <2>2, <2>3
<1> QED
  BY <1>2, <1>3 DEF Place

LEMMA StageKept ==
  ASSUME TypeOK, NEW r \in Answers,
         FailPrimary(r) \/ FailFallback(r) \/ RejectOutput(r) \/ Review(r)
  PROVE  pc' \notin Stages
BY FailPrimaryTyped, FailFallbackTyped, RejectOutputTyped, ReviewTyped DEF Stages

LEMMA CallFreeStep ==
  ASSUME TypeOK, CallFree, [Next]_vars
  PROVE  CallFree'
<1>1. SUFFICES ASSUME pc' \in {"primary", "fallback"}, call'.account # 0,
                      call'.account \notin NamedAccounts'
               PROVE  ~Blocked(until, call.model, call.account)'
  BY DEF CallFree, FreeOrNamed
<1>2. CASE Begin
  <2>1. pc' = "primary" /\ UNCHANGED <<setup, now>>
    BY <1>1, <1>2, BeginTyped DEF Begin
  <2>2. FreeOrNamed(call'.model, call'.account) /\ until' = until
    BY <1>2, <2>1, BeginFree
  <2> QED
    BY <1>1, <2>1, <2>2 DEF FreeOrNamed, Blocked, NamedAccounts
<1>3. ASSUME NEW r \in Answers, TryNextAccount(r) \/ FallBack(r)
      PROVE  ~Blocked(until, call.model, call.account)'
  <2>1. now' = now
    BY <1>3 DEF TryNextAccount, FallBack
  <2> QED
    BY <1>1, <1>3, <2>1, FailoverFree DEF Blocked
<1>4. CASE Answer
  <2>1. PICK r \in Answers :
          \/ TryNextAccount(r) \/ FailPrimary(r) \/ FallBack(r) \/ FailFallback(r)
          \/ RejectOutput(r) \/ CallCritic(r) \/ Review(r)
    BY <1>4, Zenon DEF Answer
  <2>2. ~CallCritic(r)
    BY <1>1, CallCriticTyped
  <2> QED
    BY <1>1, <1>3, <2>1, <2>2, StageKept DEF Stages
<1>5. CASE Execute \/ Again \/ Crash
  BY <1>1, <1>5 DEF Execute, Act, Return, Again, Crash, Leave
<1>6. CASE Tick \/ UNCHANGED vars
  <2>1. /\ UNCHANGED <<setup, until, pc, call>>
        /\ now' = now \/ now' = now + 1
    BY <1>6 DEF Tick, vars, prefs, step
  <2>2. ~Blocked(until, call.model, call.account)
    BY <1>1, <2>1 DEF CallFree, FreeOrNamed, NamedAccounts
  <2>3. now \in Nat /\ until[<<call.model, call.account>>] \in Nat
    BY DEF TypeOK, Calls
  <2> QED
    BY <2>1, <2>2, <2>3 DEF Blocked
<1> QED
  BY <1>2, <1>4, <1>5, <1>6 DEF Next

LEMMA RestStep ==
  ASSUME TypeOK, CallFree, Next, Placed, call'.account # 0, ~NamedByRole
  PROVE  ~Blocked(until', call'.model, call'.account)
<1>1. pc' \in Stages
  BY DEF Placed
<1>2. CASE Begin
  <2>1. pc' = "primary" /\ pc = "idle"
    BY <1>1, <1>2, BeginTyped DEF Begin, Stages
  <2>2. FreeOrNamed(call'.model, call'.account) /\ until' = until
    BY <1>2, <2>1, BeginFree
  <2> QED
    BY <2>1, <2>2 DEF FreeOrNamed, NamedByRole
<1>3. ASSUME NEW r \in Answers, CallCritic(r)
      PROVE  ~Blocked(until', call'.model, call'.account)
  <2>1. FreeOrNamed(call'.model, call'.account) /\ until' = until
    BY <1>3, CallCriticFree
  <2>2. pc' = "critic" /\ pc # "critic"
    BY <1>3, CallCriticTyped DEF CallCritic
  <2> QED
    BY <2>1, <2>2 DEF FreeOrNamed, NamedByRole
<1>4. CASE Answer
  <2>1. PICK r \in Answers :
          \/ TryNextAccount(r) \/ FailPrimary(r) \/ FallBack(r) \/ FailFallback(r)
          \/ RejectOutput(r) \/ CallCritic(r) \/ Review(r)
    BY <1>4, Zenon DEF Answer
  <2> QED
    BY <1>1, <1>3, <2>1, StageKept, FailoverFree
<1>5. CASE Execute \/ Again \/ Crash
  BY <1>1, <1>5 DEF Execute, Act, Return, Again, Crash, Leave, Stages
<1>6. CASE Tick
  BY <1>6 DEF Tick, Placed, step
<1> QED
  BY <1>2, <1>4, <1>5, <1>6 DEF Next

\* BlockedAccountRests: no choice of an account, in a step, in a later step or after
\* a restart, falls on one that is blocked, except that of a role.
THEOREM BlockedAccountAlwaysRests == Spec => BlockedAccountRests
<1>1. Init => CallFree
  BY DEF Init, CallFree
<1>2. TypeOK /\ CallFree /\ [Next]_vars => CallFree'
  BY CallFreeStep
<1>3. TypeOK /\ CallFree /\ [Next]_vars =>
        [Placed /\ call'.account # 0 /\ ~NamedByRole
           => ~Blocked(until', call'.model, call'.account)]_vars
  BY RestStep
<1> QED
  BY <1>1, <1>2, <1>3, TypeCorrect, PTL DEF Spec, BlockedAccountRests
=============================================================================
