--------------------------- MODULE MCNodeContext ---------------------------
(* Two callers and two notes; with an execution they exceed the budget.    *)
EXTENDS NodeContext, TLC

CONSTANTS c1, c2, n1, n2

MCCallers == {c1, c2}
MCNotes == {n1, n2}
MCSymmetry == Permutations(MCCallers) \cup Permutations(MCNotes)
\* Nothing is asked of a context after a gap.
NoGap == gaps = {}
=============================================================================
