----------------------------- MODULE MCGoalLoop -----------------------------
(* A root, a child of it, and a second child that needs the first: as in   *)
(* the blueprint, the parent of a node is its first dependency.            *)
EXTENDS GoalLoop

CONSTANTS root, graph, bridge

MCNodes  == {root, graph, bridge}
MCParent == [n \in MCNodes |-> IF n = root THEN NoNode ELSE root]
MCDeps   == [n \in MCNodes |->
               IF n = root THEN {} ELSE IF n = graph THEN {root} ELSE {root, graph}]
MCRank   == [n \in MCNodes |-> IF n = root THEN 0 ELSE IF n = graph THEN 1 ELSE 2]
MCStrict == {graph}
=============================================================================
