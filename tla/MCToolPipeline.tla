--------------------------- MODULE MCToolPipeline ---------------------------
(* Instances of ToolPipeline for TLC. *)
EXTENDS ToolPipeline, TLC

CONSTANTS r1, r2

\* Two calls, in one batch or in two: the first may be refused, the second
\* needs the user's consent and streams.
First  == {1}
Second == {2}

\* Any two requests: two answers to one question, an answer and a
\* cancellation, a cancellation of a call and one of the turn.
OneRequest  == {r1}
TwoRequests == {r1, r2}
Plain       == {"confirm", "reject", "cancel", "cancelTurn"}
Edits       == {"edit"}

RequestSymmetry == Permutations(Requests)
=============================================================================
