--------------------------- MODULE QueuePriority ---------------------------
(***************************************************************************)
(* Where DialogScheduler::enqueue (agentic/coordination/scheduler.rs) puts *)
(* a message: queues are kept by DialogQueuePriority, the highest first.   *)
(***************************************************************************)
EXTENDS Integers, Sequences, SequencesExt

CONSTANTS
    Messages,    \* the messages ever submitted
    Priority     \* DialogQueuePriority of each message: Low 0, Normal 1, High 2

ASSUME PriorityAssumption == Priority \in [Messages -> Nat]

\* Mutant: before the first message of no higher priority.
InsertPosLifo(q, m) ==
    LET lower == {i \in DOMAIN q : Priority[q[i]] <= Priority[m]}
    IN  IF lower = {} THEN Len(q) + 1
        ELSE CHOOSE i \in lower : \A j \in lower : i <= j

\* Before the first message of lower priority, at the back if there is none.
InsertPos(q, m) ==
    LET lower == {i \in DOMAIN q : Priority[q[i]] < Priority[m]}
    IN  IF lower = {} THEN Len(q) + 1
        ELSE CHOOSE i \in lower : \A j \in lower : i <= j

Insert(q, m) == InsertAt(q, InsertPos(q, m), m)
=============================================================================
