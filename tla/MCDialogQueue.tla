--------------------------- MODULE MCDialogQueue ---------------------------
(* Instances of DialogQueue for TLC. *)
EXTENDS DialogQueue, TLC

CONSTANTS m1, m2, m3, m4, m5, t1, t2, t3

\* Two messages of one level around a message of another, so that both order
\* and arrival matter: m1, m4, m5 Normal (a user), m2 Low (an agent), m3 High.
\* Three tasks can get four messages into a queue limited to two, and a fifth
\* must be kept out.
Five     == {m1, m2, m3, m4, m5}
FivePrio == m1 :> 1 @@ m2 :> 0 @@ m3 :> 2 @@ m4 :> 1 @@ m5 :> 1

Tasks == {t1, t2, t3}

\* Tasks are interchangeable, and so are messages of equal priority.
TaskSymmetry == Permutations(Procs) \cup Permutations({m1, m4, m5})
=============================================================================
