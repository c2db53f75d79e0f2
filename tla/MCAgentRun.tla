----------------------------- MODULE MCAgentRun -----------------------------
(* What a step returns, one of each kind the loop tells apart. *)
EXTENDS AgentRun

Outcome(ok, completed, error, model, attempt) ==
  [ok |-> ok, completed |-> completed, error |-> error, model |-> model, attempt |-> attempt]
Fails(error, model, attempt) == Outcome(FALSE, FALSE, error, model, attempt)

Completion == Outcome(TRUE, TRUE, "none", "cheap", "succeeded")
Progress   == Outcome(TRUE, FALSE, "none", "cheap", "succeeded")
GateFails  == Fails("wet_run_required", "cheap", "succeeded")
GivesUp    == Fails("execution_error", "claude", "failed")
Waiting    == Fails("network_wait", "cheap", "failed")

MCReturned == {Completion, Progress, GateFails, GivesUp, Waiting}
=============================================================================
