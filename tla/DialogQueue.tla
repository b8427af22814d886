---------------------------- MODULE DialogQueue ----------------------------
(***************************************************************************)
(* The per-session message queue of DialogScheduler                        *)
(* (agentic/coordination/scheduler.rs): `queues` is a map of sessions to   *)
(* VecDeques whose entries never interact, so one session is modelled.     *)
(*                                                                         *)
(* submit() runs on many tasks at once.  `enqueue` takes the queue's lock  *)
(* three times (depth check, push_back, pop_back + insert) and dispatching *)
(* takes it twice (pop_front, and push_front when start_turn fails), so    *)
(* each of those is a step of its own.  What start_turn does is the        *)
(* subject of module DialogTurns; here it succeeds or fails.               *)
(***************************************************************************)
EXTENDS QueuePriority, FiniteSets

CONSTANTS
    Procs,          \* the tasks using the queue at once: submitters, the outcome handler
    MaxQueueDepth   \* MAX_QUEUE_DEPTH

ASSUME QueueAssumption ==
    /\ MaxQueueDepth \in Nat \ {0}
    /\ IsFiniteSet(Procs)

VARIABLES
    queue,    \* the VecDeque<QueuedTurn>
    op,       \* what each task is in the middle of: [pc, msg]
    fresh,    \* messages not submitted yet
    out,      \* messages that have left for good: started, rejected or cleared
    clock,    \* history: how many messages have been pushed
    stamp,    \* history: the arrival number of each message, 0 before it
    raced     \* history: two operations have overlapped since the queue was last unused

vars == <<queue, op, fresh, out, clock, stamp, raced>>

Resting == [pc |-> "rest"]
Ops     == {Resting} \cup [pc : {"push", "reorder", "start"}, msg : Messages]

At(p, pc) == op[p].pc = pc
InMiddle(p) == op[p].pc \in {"reorder", "start"}   \* between two accesses to the queue
-----------------------------------------------------------------------------
\* Mutant: back() instead of pop_back().
ReorderBackKeeping(q) == IF q = <<>> THEN q ELSE Insert(q, Last(q))

\* pop_back and insert again, whichever message the last one is by now.
ReorderBack(q) == IF q = <<>> THEN q ELSE Insert(Front(q), Last(q))

\* The history of overlaps: every change of the queue but the one that ends
\* an operation is compared with what the others are in the middle of.
NoteOverlap(p) == raced' = (raced \/ \E o \in Procs \ {p} : InMiddle(o))
ForgetWhenUnused ==
    raced' = (raced /\ ~(queue' = <<>> /\ \A o \in Procs : op'[o].pc \notin {"reorder", "start"}))
-----------------------------------------------------------------------------
Init ==
    /\ queue = <<>>
    /\ op = [p \in Procs |-> Resting]
    /\ fresh = Messages
    /\ out = {}
    /\ clock = 0
    /\ stamp = [m \in Messages |-> 0]
    /\ raced = FALSE

\* Mutant: the limit is off by one.
CheckDepthLate(p) ==
    /\ At(p, "rest")
    /\ Len(queue) <= MaxQueueDepth
    /\ \E m \in fresh :
         /\ op' = [op EXCEPT ![p] = [pc |-> "push", msg |-> m]]
         /\ fresh' = fresh \ {m}
    /\ UNCHANGED <<queue, out, clock, stamp, raced>>

\* enqueue, first lock: the depth is below the limit.
CheckDepth(p) ==
    /\ At(p, "rest")
    /\ Len(queue) < MaxQueueDepth
    /\ \E m \in fresh :
         /\ op' = [op EXCEPT ![p] = [pc |-> "push", msg |-> m]]
         /\ fresh' = fresh \ {m}
    /\ UNCHANGED <<queue, out, clock, stamp, raced>>

\* enqueue, first lock: the queue is full and submit returns Err.
Reject(p) ==
    /\ At(p, "rest")
    /\ Len(queue) >= MaxQueueDepth
    /\ \E m \in fresh :
         /\ fresh' = fresh \ {m}
         /\ out' = out \cup {m}
    /\ UNCHANGED <<queue, op, clock, stamp, raced>>

\* enqueue, second lock.
PushBack(p) ==
    /\ At(p, "push")
    /\ queue' = Append(queue, op[p].msg)
    /\ op' = [op EXCEPT ![p] = [pc |-> "reorder", msg |-> op[p].msg]]
    /\ clock' = clock + 1
    /\ stamp' = [stamp EXCEPT ![op[p].msg] = clock + 1]
    /\ NoteOverlap(p)
    /\ UNCHANGED <<fresh, out>>

\* enqueue, third lock: the message at the back moves to its place.
Reorder(p) ==
    /\ At(p, "reorder")
    /\ queue' = ReorderBack(queue)
    /\ op' = [op EXCEPT ![p] = Resting]
    /\ UNCHANGED <<fresh, out, clock, stamp>>
    /\ ForgetWhenUnused

\* dequeue_next of try_start_next_queued: start_turn is about to run.
Dequeue(p) ==
    /\ At(p, "rest")
    /\ queue # <<>>
    /\ queue' = Tail(queue)
    /\ op' = [op EXCEPT ![p] = [pc |-> "start", msg |-> Head(queue)]]
    /\ NoteOverlap(p)
    /\ UNCHANGED <<fresh, out, clock, stamp>>

\* start_turn returned Ok.
Started(p) ==
    /\ At(p, "start")
    /\ op' = [op EXCEPT ![p] = Resting]
    /\ out' = out \cup {op[p].msg}
    /\ UNCHANGED <<queue, fresh, clock, stamp>>
    /\ ForgetWhenUnused

\* start_turn returned Err: requeue_front, which does not look at the depth.
RequeueFront(p) ==
    /\ At(p, "start")
    /\ queue' = <<op[p].msg>> \o queue
    /\ op' = [op EXCEPT ![p] = Resting]
    /\ UNCHANGED <<fresh, out, clock, stamp, raced>>

\* clear_queue: a failed turn, a submit to a session in error, abandoned work.
Clear(p) ==
    /\ At(p, "rest")
    /\ queue # <<>>
    /\ queue' = <<>>
    /\ out' = out \cup ToSet(queue)
    /\ UNCHANGED <<op, fresh, clock, stamp>>
    /\ ForgetWhenUnused

Step(p) ==
    \/ CheckDepth(p) \/ Reject(p) \/ PushBack(p) \/ Reorder(p)
    \/ Dequeue(p) \/ Started(p) \/ RequeueFront(p) \/ Clear(p)

\* Every message has been submitted and has left: nothing more can happen.
Done == /\ out = Messages
        /\ UNCHANGED vars

Next == (\E p \in Procs : Step(p)) \/ Done

Spec == Init /\ [][Next]_vars
-----------------------------------------------------------------------------
TypeOK ==
    /\ queue \in Seq(Messages)
    /\ op \in [Procs -> Ops]
    /\ fresh \subseteq Messages
    /\ out \subseteq Messages
    /\ clock \in Nat
    /\ stamp \in [Messages -> Nat]
    /\ raced \in BOOLEAN

Holding(pc) == {p \in Procs : At(p, pc)}
Busy == Holding("push") \cup Holding("start")   \* tasks with a message that is not in the queue
Held == {op[p].msg : p \in Busy}

\* A submitted message is never lost and never doubled, however the three
\* locks of concurrent enqueue calls, dispatches and clears interleave: it is
\* in exactly one of these places, once, although one call may move the
\* message another call has pushed.
NoLossNoDuplicate ==
    /\ IsInjective(queue)
    /\ \A p, r \in Busy : p # r => op[p].msg # op[r].msg
    /\ Messages = fresh \cup Held \cup ToSet(queue) \cup out
    /\ fresh \cap (Held \cup ToSet(queue) \cup out) = {}
    /\ Held \cap (ToSet(queue) \cup out) = {}
    /\ ToSet(queue) \cap out = {}

\* The depth check and the push are not atomic and a failed dispatch is put
\* back unchecked, so the queue can outgrow MAX_QUEUE_DEPTH; but never by more
\* than the number of tasks that use it at once, less one.
OverrunBounded == Len(queue) <= MaxQueueDepth + Cardinality(Procs) - 1

Precedes(a, b) ==
    \/ Priority[a] > Priority[b]
    \/ Priority[a] = Priority[b] /\ stamp[a] < stamp[b]

\* The part of the queue that is in order: all but a message pushed and not
\* yet moved.
Settled == IF Holding("reorder") = {} THEN queue ELSE Front(queue)

\* As long as no two operations on the queue have overlapped since it was
\* last unused, it is ordered by priority and by arrival within a priority,
\* and a dispatch that fails puts back a message that precedes all others.
OrderedUnlessRaced ==
    ~raced =>
      /\ \A i, j \in DOMAIN Settled : i < j => Precedes(Settled[i], Settled[j])
      /\ \A p \in Holding("start"), i \in DOMAIN queue : Precedes(op[p].msg, queue[i])
=============================================================================
