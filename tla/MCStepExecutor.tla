--------------------------- MODULE MCStepExecutor ---------------------------
(* Two providers with accounts and one without; automatic and manual setups, *)
(* with and without roles.                                                   *)
EXTENDS StepExecutor

MCAccounts == [p \in Providers |-> IF p = "chatgpt" THEN 2 ELSE IF p = "openai" THEN 1 ELSE 0]
MCActiveAccount == [p \in Providers |-> IF p = "chatgpt" THEN 2 ELSE 0]

Report(d, l, n) == [ok |-> FALSE, days |-> d, limit |-> l, network |-> n]
MCAnswers == {NoReport, Report(1, TRUE, FALSE), Report(0, FALSE, TRUE), Report(0, FALSE, FALSE)}

Plain(m, f, p, e) ==
  [manual |-> m, fallback |-> f, preferred |-> p, enabled |-> e,
   role |-> None, critic |-> None, pool |-> {}]
Route(p, a) == [provider |-> p, account |-> a, blocked |-> FALSE]

MCSetups ==
  {Plain(FALSE, TRUE, "chatgpt", {"cheap", "chatgpt"}),
   Plain(FALSE, FALSE, None, {"openai", "claude"}),
   Plain(TRUE, FALSE, "chatgpt", {"chatgpt", "claude"}),
   Plain(TRUE, TRUE, "openai", {"openai", "claude"}),
   [Plain(FALSE, FALSE, None, {"openai", "claude"}) EXCEPT
      !.role = Route("openai", 0), !.critic = Route("openai", 1), !.pool = {Route("claude", 0)}],
   [Plain(TRUE, FALSE, "chatgpt", {"chatgpt", "claude"}) EXCEPT !.role = Route("claude", 0)]}
=============================================================================
