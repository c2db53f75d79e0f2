---------------------------- MODULE StepExecutor ----------------------------
(***************************************************************************)
(* execute_step() of stagewarden/executor.py, run again and again for one  *)
(* step of a plan: the provider is chosen (router.py, roles), called       *)
(* account by account, replaced by a fallback provider, reviewed by a      *)
(* critic, and its action executed and judged. Limits the providers report *)
(* are kept in the preferences file (modelprefs.py) and expire while the   *)
(* step is under way; attempts are counted in the memory (memory.py).      *)
(*                                                                         *)
(* The accounts of a provider are 1, 2, ... in the order of its list and 0 *)
(* is "no account"; the block of a whole provider is kept under account 0. *)
(* Operators named after a lookup return the set of what it may return:    *)
(* one element where the code decides, several where it looks at the text  *)
(* of the task or at the order of the user's list of models.               *)
(***************************************************************************)
EXTENDS StepOutcome, Integers, FiniteSets

CONSTANTS
  Setups,         \* the configurations to start from, see TypeOK
  Accounts,       \* provider |-> how many accounts it has
  ActiveAccount,  \* provider |-> the account the user prefers, or 0
  Answers,        \* what a call may return
  None,           \* no preferred provider, no route
  MaxAccounts,
  MaxRetries,     \* config.max_retries_per_step
  MaxNow,         \* bound: the clock
  MaxSteps        \* bound: calls of execute_step

AccountIds == 0..MaxAccounts
Routes == [provider: Providers, account: AccountIds, blocked: BOOLEAN]
Reports == [ok: BOOLEAN, days: Nat, limit: BOOLEAN, network: BOOLEAN]

ASSUME ExecutorAssumption ==
  /\ MaxAccounts \in Nat /\ MaxRetries \in Nat /\ MaxNow \in Nat /\ MaxSteps \in Nat
  /\ None \notin Providers /\ None \notin Routes
  /\ Accounts \in [Providers -> AccountIds]
  /\ ActiveAccount \in [Providers -> AccountIds]
  /\ Answers \subseteq Reports
  /\ Setups \subseteq
       [manual: BOOLEAN, fallback: BOOLEAN, preferred: Providers \cup {None},
        enabled: (SUBSET Providers) \ {{}}, role: Routes \cup {None},
        critic: Routes \cup {None}, pool: SUBSET Routes]
  /\ \A s \in Setups : s.preferred \in s.enabled \cup {None}

VARIABLES
  setup,      \* the user's configuration
  now,        \* the clock
  preferred,  \* durable: preferred_model of the preferences, and of the router
  until,      \* durable: <<provider, account>> |-> when its block ends, 0 for none
  pc,         \* "idle", the call that is pending, "acting", or "done"
  call,       \* the provider and account of the pending call
  tried,      \* the accounts the failover has called
  origin,     \* the failure of the primary provider, while the fallback is called
  worker,     \* the provider and account whose answer is reviewed
  heard,      \* the calls of this step and their answers (history variable)
  failures,   \* durable: failures_by_step
  last,       \* durable: the last recorded attempt
  outcome,    \* what execute_step() has returned
  count       \* calls of execute_step so far

step == <<call, tried, origin, worker>>
prefs == <<preferred, until>>
memory == <<failures, last>>
vars == <<setup, now, prefs, pc, step, heard, memory, outcome, count>>

Calls == [model: Providers, account: AccountIds]
Attempts == [ok: BOOLEAN, error: Errors \cup {"none"}, model: Providers, account: AccountIds]
NoAttempt == [ok |-> TRUE, error |-> "none", model |-> "local", account |-> 0]
NoCall == [model |-> "local", account |-> 0]
NoOutcome == [ok |-> TRUE, completed |-> FALSE, error |-> "none",
              model |-> "local", attempt |-> "succeeded"]
NoReport == [ok |-> TRUE, days |-> 0, limit |-> FALSE, network |-> FALSE]
Stages == {"primary", "fallback", "critic"}

TypeOK ==
  /\ setup \in Setups /\ now \in Nat /\ count \in Nat
  /\ preferred \in setup.enabled \cup {None}
  /\ until \in [Providers \X AccountIds -> Nat]
  /\ pc \in Stages \cup {"idle", "acting", "done"}
  /\ call \in Calls /\ tried \subseteq AccountIds \ {0} /\ worker \in Calls
  /\ origin \in Reports
  /\ heard \subseteq [stage: Stages, call: Calls, answer: Answers]
  /\ failures \in Nat /\ last \in Attempts
  /\ outcome \in Outcomes

-----------------------------------------------------------------------------
(* The router and the preferences. *)

Rank == [p \in Providers |->
  CASE p = "cheap" -> 1 [] p = "chatgpt" -> 2 [] p = "openai" -> 3
    [] p = "claude" -> 4 [] p = "local" -> 5]
Lowest(S)  == {p \in S : \A q \in S : Rank[p] <= Rank[q]}
Highest(S) == {p \in S : \A q \in S : Rank[q] <= Rank[p]}

\* The user has chosen providers by hand and authorised no other.
Pinned == setup.manual /\ ~setup.fallback

Blocked(u, m, a) == now <= u[<<m, a>>]
Unblocked(u) == {m \in setup.enabled : ~Blocked(u, m, 0)}
Active(u) == IF Unblocked(u) = {} THEN setup.enabled ELSE Unblocked(u)

BestAvailable(u, m) ==
  LET below == {p \in Active(u) : Rank[p] < Rank[m]}
  IN IF m \in Active(u) THEN {m}
     ELSE IF below # {} THEN Highest(below) ELSE Lowest(Active(u))

NextAfter(u, m, otherwise) ==
  LET above == {p \in Active(u) : Rank[p] > Rank[m]}
  IN IF above # {} THEN Lowest(above) ELSE BestAvailable(u, otherwise)

\* recommend_route() scores the active providers; paid ones may not be allowed.
Recommended ==
  IF setup.manual
    THEN IF preferred # None THEN {preferred} ELSE BestAvailable(until, "cheap")
    ELSE (Active(until) \ {"local"}) \cup BestAvailable(until, "cheap")

ChosenModels ==
  IF setup.manual THEN Recommended
  ELSE IF preferred \in Active(until) THEN {preferred}
  ELSE IF failures >= 3 THEN BestAvailable(until, "claude")
  ELSE IF failures >= 2 THEN BestAvailable(until, "openai")
  ELSE Recommended \cup
       UNION {BestAvailable(until, m) : m \in {"cheap", "chatgpt", "openai"}}

Escalations(u, m) ==
  IF Pinned THEN {m}
  ELSE CASE m = "chatgpt" -> BestAvailable(u, "openai")
         [] m = "openai" -> BestAvailable(u, "claude")
         [] OTHER -> NextAfter(u, m, "cheap")

RouterFallbacks(u, m) ==
  IF Pinned THEN {m}
  ELSE CASE m = "chatgpt" -> BestAvailable(u, "openai")
         [] m = "openai" -> BestAvailable(u, "claude")
         [] m = "claude" -> BestAvailable(u, "local")
         [] m = "cheap" -> BestAvailable(u, "chatgpt")
         [] OTHER -> NextAfter(u, m, "local")

Alternatives(u, m) == Unblocked(u) \ {m}

FallbackModels(u, m) ==
  IF RouterFallbacks(u, m) # {m} THEN RouterFallbacks(u, m)
  ELSE IF Alternatives(u, m) # {} THEN Alternatives(u, m) ELSE {m}

FreeAccounts(u, m) == {a \in 1..Accounts[m] : ~Blocked(u, m, a)}
First(S) == {a \in S : \A b \in S : a <= b}
\* Mutant: the next account in the list, blocked or not.
NextAccountsAny(u, m, a) == First((1..Accounts[m]) \ {a})
NextAccounts(u, m, a) == First(FreeAccounts(u, m) \ {a})

AccountsFor(u, m) ==
  IF FreeAccounts(u, m) = {} THEN {0}
  ELSE IF ActiveAccount[m] \in FreeAccounts(u, m) THEN {ActiveAccount[m]}
  ELSE First(FreeAccounts(u, m))

-----------------------------------------------------------------------------
(* The route the role of a step is assigned to. *)

Usable(m) == m \in Unblocked(until)

PoolRoutes ==
  LET free == {r \in setup.pool : ~r.blocked /\ Usable(r.provider)}
  IN IF Pinned \/ free = {} THEN {None} ELSE free

\* A route moved to provider m: its own in the pool, or a synthesised one.
MovedRoutes(r, m) ==
  LET pooled == {x \in setup.pool : x.provider = m}
  IN IF pooled # {} THEN pooled
     ELSE {[provider |-> m, account |-> IF a # 0 THEN a ELSE r.account, blocked |-> FALSE] :
             a \in AccountsFor(until, m)}

EscalatedRoutes(r, n) ==
  LET variant == IF setup.manual THEN {}
                 ELSE {[r EXCEPT !.account = IF a # 0 THEN a ELSE r.account] :
                         a \in AccountsFor(until, r.provider)}
      up == {m \in Escalations(until, r.provider) \ {r.provider} : Usable(m)}
  IN variant \cup
     IF n >= 2 /\ r.provider \in {"cheap", "chatgpt", "openai"} /\ ~Pinned /\ up # {}
       THEN UNION {MovedRoutes(r, m) : m \in up}
       ELSE UNION {IF m # r.provider /\ Usable(m) THEN MovedRoutes(r, m) ELSE {r} :
                     m \in Recommended}

\* After these errors the role of a step looks for a stronger model; after the
\* others it depends on the words of the observation.
EscalationCertain ==
  last.error \in LateGates \cup {"critic_rejection", "critic_invalid_output", "invalid_output"}

RoleRoutes(r, n) ==
  IF r = None THEN {None}
  ELSE IF r.blocked \/ ~Usable(r.provider) THEN PoolRoutes
  ELSE IF last.ok THEN {r}
  ELSE EscalatedRoutes(r, n) \cup IF EscalationCertain THEN {} ELSE {r}

-----------------------------------------------------------------------------
(* The calls of a step. *)

Init ==
  /\ setup \in Setups /\ now = 1 /\ count = 0
  /\ preferred = setup.preferred
  /\ until = [k \in Providers \X AccountIds |-> 0]
  /\ pc = "idle"
  /\ call = NoCall /\ tried = {} /\ worker = NoCall /\ origin = NoReport
  /\ heard = {} /\ failures = 0 /\ last = NoAttempt
  /\ outcome = NoOutcome

Place(stage, m, a) ==
  /\ pc' = stage
  /\ call' = [model |-> m, account |-> a]
  /\ tried' = {a} \ {0}

Return(o) ==
  /\ pc' = "done"
  /\ outcome' = o

\* A failing attempt of c is recorded and returned.
Conclude(err, attemptError, c) ==
  /\ failures' = failures + 1
  /\ last' = [ok |-> FALSE, error |-> attemptError, model |-> c.model, account |-> c.account]
  /\ Return([ok |-> FALSE, completed |-> FALSE, error |-> err,
             model |-> c.model, attempt |-> "failed"])

\* Mutant: a step without a free account waits, and leaves no attempt.
AccountMissingWaits(m) ==
  /\ Return([ok |-> FALSE, completed |-> FALSE, error |-> "rate_limit_wait",
             model |-> m, attempt |-> "none"])
  /\ UNCHANGED <<call, tried>>

AccountMissing(m) ==
  /\ Return([ok |-> FALSE, completed |-> FALSE, error |-> "fallback_not_authorized",
             model |-> m, attempt |-> "none"])
  /\ UNCHANGED <<call, tried>>

\* The first provider of a step, or the one that replaces it when none of its
\* accounts is free.
Enter(m, a) ==
  IF Accounts[m] = 0 \/ a # 0
    THEN Place("primary", m, a) /\ UNCHANGED outcome
    ELSE \E f \in RouterFallbacks(until, m) :
           IF f = m THEN AccountMissing(m)
           ELSE \E b \in AccountsFor(until, f) : Place("primary", f, b) /\ UNCHANGED outcome

Begin ==
  /\ pc = "idle" /\ count < MaxSteps
  /\ \E m \in ChosenModels, r \in RoleRoutes(setup.role, failures) :
       IF r = None
         THEN \E a \in AccountsFor(until, m) : Enter(m, a)
         ELSE \E a \in IF r.account # 0 THEN {r.account} ELSE AccountsFor(until, r.provider) :
                Enter(r.provider, a)
  /\ count' = count + 1
  /\ UNCHANGED <<setup, now, prefs, origin, worker, heard, memory>>

\* _record_model_block_if_present(): what a failing call reports is kept.
BlockedUntil(r) ==
  IF r.days = 0 THEN until ELSE [until EXCEPT ![<<call.model, call.account>>] = now + r.days]
StillPreferred(r) ==
  IF r.days # 0 /\ preferred = call.model /\ FreeAccounts(BlockedUntil(r), call.model) = {}
    THEN None ELSE preferred
Hear(r) ==
  /\ heard' = heard \cup {[stage |-> pc, call |-> call, answer |-> r]}
  /\ until' = IF r.ok THEN until ELSE BlockedUntil(r)
  /\ preferred' = IF r.ok THEN preferred ELSE StillPreferred(r)

\* Mutant: accounts that were tried are tried again.
UntriedForgetful(r) == NextAccounts(BlockedUntil(r), call.model, call.account)

Untried(r) == NextAccounts(BlockedUntil(r), call.model, call.account) \ tried

\* The call of an account fails and the provider's next account is called.
TryNextAccount(r) ==
  /\ pc \in Stages /\ ~r.ok
  /\ Hear(r)
  /\ \E a \in Untried(r) : call' = [call EXCEPT !.account = a] /\ tried' = tried \cup {a}
  /\ UNCHANGED <<setup, now, pc, origin, worker, memory, outcome, count>>

LimitReached(r) == r.days # 0 \/ r.limit

\* Mutant: the limit of a pinned provider is worked around with another one.
PrimaryVerdictsUnpinned(r) ==
  IF Pinned /\ r.network THEN {"network_wait"}
  ELSE IF Pinned /\ ~LimitReached(r) THEN {"fallback_not_authorized"}
  ELSE IF LimitReached(r) /\ Alternatives(BlockedUntil(r), call.model) = {}
    THEN {"rate_limit", "rate_limit_wait"}
  ELSE {}

\* Mutant: a step without alternatives waits, whatever the failure was.
PrimaryVerdictsAlone(r) ==
  IF Pinned /\ r.network THEN {"network_wait"}
  ELSE IF Pinned /\ ~LimitReached(r) THEN {"fallback_not_authorized"}
  ELSE IF Pinned \/ Alternatives(BlockedUntil(r), call.model) = {}
    THEN {"rate_limit", "rate_limit_wait"}
  ELSE {}

\* Whether an exhausted primary provider ends the step, and with which errors.
PrimaryVerdicts(r) ==
  IF Pinned /\ r.network THEN {"network_wait"}
  ELSE IF Pinned /\ ~LimitReached(r) THEN {"fallback_not_authorized"}
  ELSE IF LimitReached(r) /\ (Pinned \/ Alternatives(BlockedUntil(r), call.model) = {})
    THEN {"rate_limit", "rate_limit_wait"}
  ELSE {}

FailPrimary(r) ==
  /\ pc = "primary" /\ ~r.ok /\ Untried(r) = {}
  /\ Hear(r)
  /\ \E e \in PrimaryVerdicts(r) :
       Conclude(e, IF e \in {"rate_limit", "rate_limit_wait"} THEN "rate_limit" ELSE e, call)
  /\ UNCHANGED <<setup, now, step, count>>

FallBack(r) ==
  /\ pc = "primary" /\ ~r.ok /\ Untried(r) = {} /\ PrimaryVerdicts(r) = {}
  /\ Hear(r)
  /\ \E m \in IF LimitReached(r) THEN Alternatives(BlockedUntil(r), call.model)
                                 ELSE FallbackModels(BlockedUntil(r), call.model) :
       \E a \in AccountsFor(BlockedUntil(r), m) : Place("fallback", m, a)
  /\ origin' = r
  /\ UNCHANGED <<setup, now, worker, memory, outcome, count>>

FallbackVerdict(r) ==
  IF origin.network \/ r.network THEN "network_wait"
  ELSE IF origin.limit \/ r.limit THEN "rate_limit_wait"
  ELSE "api_failure"

FailFallback(r) ==
  /\ pc = "fallback" /\ ~r.ok /\ Untried(r) = {}
  /\ Hear(r)
  /\ Conclude(FallbackVerdict(r), FallbackVerdict(r), call)
  /\ UNCHANGED <<setup, now, step, count>>

RejectOutput(r) ==
  /\ pc \in {"primary", "fallback"} /\ r.ok
  /\ Hear(r)
  /\ Conclude("invalid_output", "invalid_output", call)
  /\ UNCHANGED <<setup, now, step, count>>

\* A valid answer goes to the critic: the role of the assurance, else another
\* provider, else the one that has answered.
CallCritic(r) ==
  /\ pc \in {"primary", "fallback"} /\ r.ok
  /\ Hear(r)
  /\ worker' = call
  /\ \E c \in RoleRoutes(setup.critic, 0) :
       IF c # None
         THEN \E a \in IF c.account # 0 THEN {c.account} ELSE AccountsFor(until, c.provider) :
                Place("critic", c.provider, a)
         ELSE IF Alternatives(until, call.model) = {}
           THEN Place("critic", call.model, call.account)
           ELSE \E m \in Alternatives(until, call.model) :
                  \E a \in AccountsFor(until, m) : Place("critic", m, a)
  /\ UNCHANGED <<setup, now, origin, memory, outcome, count>>

\* The review is parsed even when the call of the critic has failed.
Review(r) ==
  /\ pc = "critic" /\ (r.ok \/ Untried(r) = {})
  /\ Hear(r)
  /\ \/ \E e \in {"critic_invalid_output", "critic_rejection"} : Conclude(e, e, call)
     \/ pc' = "acting" /\ UNCHANGED <<memory, outcome>>
  /\ UNCHANGED <<setup, now, step, count>>

-----------------------------------------------------------------------------
(* The action of the accepted answer, and the gates that judge it. *)

\* Mutant: the action is credited to the provider of the last call, the critic.
RecordActionCritic(err) ==
  /\ last' = [ok |-> err = "none", error |-> err,
              model |-> call.model, account |-> call.account]
  /\ failures' = IF err = "none" THEN failures ELSE failures + 1

RecordAction(err) ==
  /\ last' = [ok |-> err = "none", error |-> err,
              model |-> worker.model, account |-> worker.account]
  /\ failures' = IF err = "none" THEN failures ELSE failures + 1

\* early: what the attempt is recorded with; late: what the later gates say.
Act(early, late, completed) ==
  LET err == IF early # "none" THEN early ELSE late
  IN /\ pc = "acting"
     /\ completed => err = "none"
     /\ RecordAction(early)
     /\ \E m \in IF err # "none" /\ failures' >= MaxRetries /\ setup.fallback
                   THEN Escalations(until, worker.model) ELSE {worker.model} :
          Return([ok |-> err = "none", completed |-> completed, error |-> err, model |-> m,
                  attempt |-> IF early = "none" THEN "succeeded" ELSE "failed"])
     /\ UNCHANGED <<setup, now, prefs, step, heard, count>>

-----------------------------------------------------------------------------
\* The locals of the call are gone when it has returned or its process has died.
Leave ==
  /\ pc' = "idle" /\ call' = NoCall /\ tried' = {} /\ worker' = NoCall /\ origin' = NoReport
  /\ heard' = {} /\ outcome' = NoOutcome
  /\ UNCHANGED <<setup, now, prefs, memory, count>>

Again == pc = "done" /\ count < MaxSteps /\ Leave

\* The process dies during a call or an action: nothing of the step is in the
\* memory yet, and the next run starts the step again.
Crash == pc \in Stages \cup {"acting"} /\ Leave

Tick == now < MaxNow /\ now' = now + 1
        /\ UNCHANGED <<setup, prefs, pc, step, heard, memory, outcome, count>>

Answer == \E r \in Answers :
  \/ TryNextAccount(r) \/ FailPrimary(r) \/ FallBack(r) \/ FailFallback(r)
  \/ RejectOutput(r) \/ CallCritic(r) \/ Review(r)

Execute == \E early \in {"none", "execution_error", "wet_run_required"},
              late \in LateGates \cup {"none"}, completed \in BOOLEAN :
             Act(early, late, completed)

Next == Begin \/ Answer \/ Execute \/ Again \/ Crash \/ Tick

Spec == Init /\ [][Next]_vars

\* Every call has a timeout, and the executor does not stop between two calls.
FairSpec == Spec /\ WF_vars(Answer) /\ WF_vars(Execute)

-----------------------------------------------------------------------------
(* Properties. *)

Limited(h) == LimitReached(h.answer)
Network(h) == h.answer.network

\* When the user has chosen the provider and authorised no other, the accounts
\* may change during a step but the provider that does the work may not,
\* whatever the calls report and whichever blocks expire meanwhile.
PinnedStepStays ==
  Pinned => \A g, h \in heard :
              g.stage # "critic" /\ h.stage # "critic" => g.call.model = h.call.model

\* A run is suspended for a limit or for the network only if a provider called
\* in this very step has reported it and no call has worked.
SuspensionJustified ==
  pc = "done" /\ outcome.error \in Waits =>
    /\ \E h \in heard : IF outcome.error = "network_wait" THEN Network(h) ELSE Limited(h)
    /\ \A h \in heard : ~h.answer.ok

\* The attempt a step leaves in the memory names a provider and an account that
\* were called in it, and a success is credited to a worker that has answered,
\* not to the critic or to a provider the step has given up.
AttemptNamesCaller ==
  pc = "done" /\ outcome.attempt # "none" =>
    \E h \in heard :
      /\ h.call = [model |-> last.model, account |-> last.account]
      /\ last.ok => h.stage # "critic" /\ h.answer.ok

\* An account is not called again before the end of the block it has reported,
\* in this step, in later steps or after a restart, unless a role names it.
NamedAccounts ==
  {r.account : r \in {x \in setup.pool \cup {setup.role, setup.critic} : x # None}}
Placed == pc' \in Stages /\ (pc' # pc \/ call' # call)
NamedByRole == pc' # pc /\ pc' # "fallback" /\ call'.account \in NamedAccounts
BlockedAccountRests ==
  [][Placed /\ call'.account # 0 /\ ~NamedByRole
       => ~Blocked(until', call'.model, call'.account)]_vars

\* Every step returns: the failover, the fallback and the critic come to an end
\* whatever the providers answer, unless the process dies.
StepReturns == pc \in Stages ~> pc \in {"done", "idle"}
=============================================================================
