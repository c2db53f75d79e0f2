------------------------------ MODULE EventLog ------------------------------
(***************************************************************************)
(* What the event stream promises its callers: an audit log that only      *)
(* grows, one event at a time, until it is damaged; a damaged log accepts  *)
(* nothing more and keeps what it holds.  EventStream implements it.       *)
(***************************************************************************)
EXTENDS Sequences

CONSTANT Events

VARIABLES
  log,      \* the events recorded so far, oldest first
  closed    \* damaged: append() refuses from now on

logVars == <<log, closed>>

Init ==
  /\ log \in Seq(Events)
  /\ closed = FALSE

Record(e) ==
  /\ ~closed
  /\ log' = Append(log, e)
  /\ UNCHANGED closed

Damage ==
  /\ closed' = TRUE
  /\ UNCHANGED log

Next == Damage \/ \E e \in Events : Record(e)

Spec == Init /\ [][Next]_logVars
=============================================================================
