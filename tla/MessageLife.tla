----------------------------- MODULE MessageLife -----------------------------
(***************************************************************************)
(* What the dialog scheduler promises of each message                      *)
(* (agentic/coordination/scheduler.rs): it is in one place at a time, on a *)
(* way from its caller to its end. A message that is being started may go  *)
(* back to the queue, one that is recorded may not; an end is final; and   *)
(* only a recorded message is answered, as it ends, so at most once. How   *)
(* calls of submit, the outcome handler, tasks and cancellations bring     *)
(* that about, none of them under one lock, is DialogTurns'.               *)
(***************************************************************************)
EXTENDS Naturals

CONSTANTS
    Messages,
    SessionOf,     \* the session each message is sent to
    Awaited        \* messages whose answer a session waits for

VARIABLES
    place,         \* where each message is: with its "caller", "queued", "starting",
                   \* "recorded" as what its session is working on, or "over"
    answers        \* how often each was answered

LifeInit ==
    /\ place = [m \in Messages |-> "caller"]
    /\ answers = [m \in Messages |-> 0]

\* m goes to a place, and the messages of its session that are in the places
\* `ended` are over.
Move(m, to, ended) ==
    place' = [n \in Messages |->
                IF n = m THEN to
                ELSE IF SessionOf[n] = SessionOf[m] /\ place[n] \in ended THEN "over"
                ELSE place[n]]

\* The queue is full, or it takes the message.
TurnAway(m) == place[m] = "caller" /\ Move(m, "over", {}) /\ UNCHANGED answers
QueueUp(m)  == place[m] = "caller" /\ Move(m, "queued", {}) /\ UNCHANGED answers

\* A session whose last turn has failed loses what is queued for it.
StartAtOnce(m) ==
    /\ place[m] = "caller"
    /\ Move(m, "starting", {}) \/ Move(m, "starting", {"queued"})
    /\ UNCHANGED answers

Dequeue(m) == place[m] = "queued" /\ Move(m, "starting", {}) /\ UNCHANGED answers

\* A start fails: the message is put back, or its caller is told.
FailStart(m) ==
    /\ place[m] = "starting"
    /\ Move(m, "queued", {}) \/ Move(m, "over", {})
    /\ UNCHANGED answers

\* active_turns has one entry for a session.
Record(m) == place[m] = "starting" /\ Move(m, "recorded", {"recorded"}) /\ UNCHANGED answers

\* An outcome takes the message from active_turns, with or without an answer.
End(m) ==
    /\ place[m] = "recorded" /\ Move(m, "over", {})
    /\ \/ UNCHANGED answers
       \/ m \in Awaited /\ answers' = [answers EXCEPT ![m] = @ + 1]

\* A turn has failed: what is queued for its session goes.
Drop(m) == place[m] = "queued" /\ Move(m, "over", {"queued"}) /\ UNCHANGED answers

\* Each step takes a message further.
LifeNext ==
    \E m \in Messages :
      /\ place'[m] # place[m]
      /\ \/ TurnAway(m) \/ QueueUp(m) \/ StartAtOnce(m) \/ Dequeue(m)
         \/ FailStart(m) \/ Record(m) \/ End(m) \/ Drop(m)

LifeSpec == LifeInit /\ [][LifeNext]_<<place, answers>>
=============================================================================
