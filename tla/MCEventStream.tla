---------------------------- MODULE MCEventStream ----------------------------
(* Three writer threads in two processes and one reader. *)
EXTENDS EventStream, TLC

CONSTANTS t1, t2, t3, p1, p2, a, b

MCThreads == {t1, t2, t3}
MCProcesses == {p1, p2}
MCProcessOf == (t1 :> p1) @@ (t2 :> p1) @@ (t3 :> p2)
MCEvents == {a, b}

MCSymmetry == Permutations({t1, t2}) \cup Permutations(MCEvents)
=============================================================================
