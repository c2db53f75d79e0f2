----------------------------- MODULE MCFileRead -----------------------------
(* Two executors, two contents of three and of two characters, and chunks  *)
(* of one or of two characters, so that a last chunk may be short.         *)
EXTENDS FileRead

CONSTANTS r1, r2, v1, v2

MCReaders == {r1, r2}
MCVersions == {v1, v2}
MCLength == [v \in MCVersions |-> IF v = v1 THEN 3 ELSE 2]
MCSizes == {1, 2}
=============================================================================
