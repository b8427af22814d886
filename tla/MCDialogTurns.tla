--------------------------- MODULE MCDialogTurns ---------------------------
(* Instances of DialogTurns for TLC. *)
EXTENDS DialogTurns, TLC

CONSTANTS a, b, u1, u2, u3, u4, r1, r2, x1, x2, x3, c1

\* One session and two messages of its user.
OneSession == {a}
Users      == {u1, u2}
UsersOf    == [m \in Messages |-> a]
UsersWait  == [m \in Messages |-> None]
UsersPrio  == [m \in Messages |-> 1]
Nobody     == {}

\* As many messages as fill the queue while one is executed, and one more.
Many       == {u1, u2, u3, u4}

\* Two sessions: b has two requests of a to work on, that a awaits answers to.
TwoSessions  == {a, b}
Requests     == {u1, u2, r1, r2}
Answers      == {r1, r2}
RequestsOf   == [m \in Messages |-> IF m \in Answers THEN a ELSE b]
RequestsWait == [m \in Messages |-> IF m \in Answers THEN None ELSE a]
RequestsPrio == [m \in Messages |-> 0]

TwoSlots   == {x1, x2}
ThreeSlots == {x1, x2, x3}
NoCancel   == {}
OneCancel  == {c1}

UserSymmetry    == Permutations(Slots) \cup Permutations(Many)
RequestSymmetry == Permutations(Slots) \cup Permutations(Answers) \cup Permutations(Users)
=============================================================================
