---------------------------- MODULE StepOutcome ----------------------------
(***************************************************************************)
(* What execute_step() of stagewarden/executor.py returns to the run loop  *)
(* of stagewarden/agent.py, as far as the loop looks at it: the class      *)
(* StepOutcome, with the attempt the step has left in the memory.          *)
(* StepExecutor produces these records and AgentRun consumes them.         *)
(***************************************************************************)

\* The core providers of router.py, in its order; the provider catalogue can
\* add more after them.
Providers == {"cheap", "chatgpt", "openai", "claude", "local"}

\* The errors after which the run is suspended instead of going on.
Waits == {"network_wait", "rate_limit_wait"}

\* The errors of the gates a step passes after its action has succeeded.
LateGates == {"wet_run_required", "prince2_closure_failure", "response_insufficient"}

Errors == Waits \cup LateGates \cup
  {"fallback_not_authorized", "rate_limit", "api_failure", "invalid_output",
   "critic_invalid_output", "critic_rejection", "execution_error"}

\* attempt: what record_attempt() was told, if it was called at all.
Outcomes ==
  {o \in [ok: BOOLEAN, completed: BOOLEAN, error: Errors \cup {"none"},
          model: Providers, attempt: {"none", "failed", "succeeded"}] :
     /\ o.completed => o.ok
     /\ o.ok <=> o.error = "none"
     /\ o.ok => o.attempt = "succeeded"
     /\ o.attempt = "none" => o.error = "fallback_not_authorized"
     /\ o.error \in Waits => o.attempt = "failed"}
=============================================================================
