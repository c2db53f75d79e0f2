-------------------------- MODULE MCMutationJournal --------------------------
(* Two overwrites and an edit of the same file, by two processes. *)
EXTENDS MutationJournal, TLC

CONSTANTS w1, w2, e1, x1, x2

MCKeys == {w1, w2, e1}
MCOverwrites == {w1, w2}
MCExecutors == {x1, x2}
MCSymmetry == Permutations(MCOverwrites) \cup Permutations(MCExecutors)
=============================================================================
