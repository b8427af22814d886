---------------------------- MODULE MCAutoMemory ----------------------------
(* Instances of AutoMemory for TLC. *)
EXTENDS AutoMemory

CONSTANTS a, b, a1, a2, b1, r1, w1, w2, n1, n2, n3

TwoSessions  == {a, b}
ThreeTurns   == {a1, a2, b1}
OneRollback  == {r1}
TheirSession == [c \in Calls |-> IF c = b1 THEN b ELSE a]

\* Two turns of one session, or turns of two; and a rollback.
ThreeCalls   == {{a1, a2, r1}, {a1, b1, r1}}

TwoWorkers    == {w1, w2}
ThreeNotifies == {n1, n2, n3}
=============================================================================
