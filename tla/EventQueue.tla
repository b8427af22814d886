----------------------------- MODULE EventQueue -----------------------------
(***************************************************************************)
(* The event queue of the agentic core (agentic/events/queue.rs), the loop *)
(* of the desktop that empties it (bootstrap/workspace.rs) and the router  *)
(* that hands each event to the subscribers (agentic/events/router.rs).    *)
(*                                                                         *)
(* enqueue() runs on many tasks at once.  It draws the sequence number,    *)
(* then takes the queue's lock for the check of the size, for the push and *)
(* for the length, and the statistics' lock last: each of these is a step. *)
(* dequeue_batch() keeps the queue's lock to its end and is one step.      *)
(***************************************************************************)
EXTENDS Integers, FiniteSets

CONSTANTS
    Tasks,         \* the tasks that emit events
    MaxQueueSize,  \* EventQueueConfig::max_queue_size
    BatchSize,     \* EventQueueConfig::batch_size
    Kinds,         \* kinds of events: their priority and whether their delivery
                   \* class is OrderedTimeline
    MaxEvents      \* bound: how many events are emitted

ASSUME EventAssumption ==
    /\ IsFiniteSet(Tasks)
    /\ MaxQueueSize \in Nat \ {0} /\ BatchSize \in Nat \ {0} /\ MaxEvents \in Nat
    /\ Kinds \subseteq [priority : 0 .. 3, timeline : BOOLEAN]

\* EventPriority
Critical == 0
High     == 1
Normal   == 2
Low      == 3

\* An event is named by the sequence number it has drawn.
Events == 0 .. MaxEvents - 1

VARIABLES
    sequence,   \* next_sequence
    kind,       \* EventEnvelope: the kind of each event that has been created
    queue,      \* the BinaryHeap of envelopes
    stats,      \* QueueStats: [pending, enqueued, processed]
    permit,     \* Notify: notify_one has been called and no notified() has returned since
    task,       \* where each task is in enqueue: [pc, event, len]
    loop,       \* where the loop of spawn_event_loop is
    batch,      \* its batch, least envelope first
    spawned,    \* events of class PriorityControl that a task of their own dispatches
    routed,     \* events that have been routed to the subscribers
    emitted,    \* events that have also been given to the transport
    dropped,    \* history: events turned away because the queue was full
    earlier     \* history: the events whose enqueue had returned when an event was created

streamVars == <<routed, emitted, spawned>>
vars == <<sequence, kind, queue, stats, permit, task, loop, batch, streamVars, dropped, earlier>>

Quiet   == [pc |-> "idle", event |-> 0, len |-> 0]
TaskPcs == {"idle", "checking", "pushing", "measuring", "counting", "notifying"}

\* Events whose enqueue has not returned.
UnderWay == {task[t].event : t \in {u \in Tasks : task[u].pc # "idle"}}

Timeline == {e \in Events : e < sequence /\ kind[e].timeline}
-----------------------------------------------------------------------------
\* Ord for EventEnvelope, seen through Reverse: the greatest is popped first.
Before(e, f) ==
    \/ kind[e].priority < kind[f].priority
    \/ kind[e].priority = kind[f].priority /\ e <= f

First(e, S) == e \in S /\ \A f \in S : Before(e, f)

Lesser(a, b) == IF a <= b THEN a ELSE b
-----------------------------------------------------------------------------
Init ==
    /\ sequence = 0
    /\ kind = [e \in {} |-> Quiet]
    /\ queue = {} /\ batch = {}
    /\ stats = [pending |-> 0, enqueued |-> 0, processed |-> 0]
    /\ permit = FALSE
    /\ task = [t \in Tasks |-> Quiet]
    /\ loop = "waits"
    /\ spawned = {} /\ routed = {} /\ emitted = {} /\ dropped = {}
    /\ earlier = [e \in {} |-> {}]

At(t, pc)   == task[t].pc = pc
Goto(t, pc) == task' = [task EXCEPT ![t].pc = pc]

\* enqueue: the sequence number and the envelope.
Create(t) ==
    /\ At(t, "idle") /\ sequence < MaxEvents
    /\ \E k \in Kinds : kind' = [e \in 0 .. sequence |-> IF e = sequence THEN k ELSE kind[e]]
    /\ earlier' = [e \in 0 .. sequence |->
                      IF e = sequence THEN {f \in 0 .. sequence - 1 : f \notin UnderWay}
                      ELSE earlier[e]]
    /\ sequence' = sequence + 1
    /\ task' = [task EXCEPT ![t] = [pc |-> "checking", event |-> sequence, len |-> 0]]
    /\ UNCHANGED <<queue, stats, permit, loop, batch, streamVars, dropped>>

\* The queue is full: the event is dropped, and its caller is told Ok.
Drop(t) ==
    /\ At(t, "checking") /\ Cardinality(queue) >= MaxQueueSize
    /\ dropped' = dropped \cup {task[t].event}
    /\ task' = [task EXCEPT ![t] = Quiet]
    /\ UNCHANGED <<sequence, kind, queue, stats, permit, loop, batch, streamVars, earlier>>

\* Mutant: the limit is off by one.
FitsLate(t) ==
    /\ At(t, "checking") /\ Cardinality(queue) <= MaxQueueSize
    /\ Goto(t, "pushing")
    /\ UNCHANGED <<sequence, kind, queue, stats, permit, loop, batch, streamVars, dropped, earlier>>

Fits(t) ==
    /\ At(t, "checking") /\ Cardinality(queue) < MaxQueueSize
    /\ Goto(t, "pushing")
    /\ UNCHANGED <<sequence, kind, queue, stats, permit, loop, batch, streamVars, dropped, earlier>>

Push(t) ==
    /\ At(t, "pushing")
    /\ queue' = queue \cup {task[t].event}
    /\ Goto(t, "measuring")
    /\ UNCHANGED <<sequence, kind, stats, permit, loop, batch, streamVars, dropped, earlier>>

\* The length, and the statistics with the length of a moment ago.
Measure(t) ==
    /\ At(t, "measuring")
    /\ task' = [task EXCEPT ![t] = [pc |-> "counting", event |-> @.event,
                                    len |-> Cardinality(queue)]]
    /\ UNCHANGED <<sequence, kind, queue, stats, permit, loop, batch, streamVars, dropped, earlier>>

\* Mutant: only the event that finds the queue empty wakes the loop.
CountFirstNotifies(t) ==
    /\ At(t, "counting")
    /\ stats' = [stats EXCEPT !.pending = task[t].len, !.enqueued = @ + 1]
    /\ task' = [task EXCEPT ![t] = IF task[t].len = 1 THEN [@ EXCEPT !.pc = "notifying"]
                                   ELSE Quiet]
    /\ UNCHANGED <<sequence, kind, queue, permit, loop, batch, streamVars, dropped, earlier>>

Count(t) ==
    /\ At(t, "counting")
    /\ stats' = [stats EXCEPT !.pending = task[t].len, !.enqueued = @ + 1]
    /\ Goto(t, "notifying")
    /\ UNCHANGED <<sequence, kind, queue, permit, loop, batch, streamVars, dropped, earlier>>

\* notify_one: one permit is kept however often it is called.
NotifyOne(t) ==
    /\ At(t, "notifying")
    /\ permit' = TRUE
    /\ task' = [task EXCEPT ![t] = Quiet]
    /\ UNCHANGED <<sequence, kind, queue, stats, loop, batch, streamVars, dropped, earlier>>

Enqueue(t) ==
    \/ Drop(t) \/ Fits(t) \/ Push(t) \/ Measure(t) \/ Count(t) \/ NotifyOne(t)
-----------------------------------------------------------------------------
\* wait_for_events: notified() takes the permit.
Wake ==
    /\ loop = "waits" /\ permit
    /\ permit' = FALSE
    /\ loop' = "drains"
    /\ UNCHANGED <<sequence, kind, queue, stats, task, batch, streamVars, dropped, earlier>>

\* Mutant: pending_events is lowered by what was taken.
DequeueBatchSubtracts ==
    /\ loop = "drains" /\ queue # {}
    /\ \E taken \in SUBSET queue :
         /\ Cardinality(taken) = Lesser(BatchSize, Cardinality(queue))
         /\ \A e \in taken, f \in queue \ taken : Before(e, f)
         /\ batch' = taken
         /\ queue' = queue \ taken
         /\ stats' = [stats EXCEPT !.pending = @ - Cardinality(taken),
                                   !.processed = @ + Cardinality(taken)]
    /\ loop' = "dispatches"
    /\ UNCHANGED <<sequence, kind, permit, task, streamVars, dropped, earlier>>

\* dequeue_configured_batch: the least envelopes, and the statistics.
DequeueBatch ==
    /\ loop = "drains" /\ queue # {}
    /\ \E taken \in SUBSET queue :
         /\ Cardinality(taken) = Lesser(BatchSize, Cardinality(queue))
         /\ \A e \in taken, f \in queue \ taken : Before(e, f)
         /\ batch' = taken
         /\ queue' = queue \ taken
         /\ stats' = [stats EXCEPT !.pending = Cardinality(queue \ taken),
                                   !.processed = @ + Cardinality(taken)]
    /\ loop' = "dispatches"
    /\ UNCHANGED <<sequence, kind, permit, task, streamVars, dropped, earlier>>

\* Nothing is left: the loop waits again.
Drained ==
    /\ loop = "drains" /\ queue = {}
    /\ loop' = "waits"
    /\ UNCHANGED <<sequence, kind, queue, stats, permit, task, batch, streamVars, dropped, earlier>>

BatchDone ==
    /\ loop = "dispatches" /\ batch = {}
    /\ loop' = "drains"
    /\ UNCHANGED <<sequence, kind, queue, stats, permit, task, batch, streamVars, dropped, earlier>>

\* dispatch_event of a timeline event, awaited: first the subscribers ...
Route(e) ==
    /\ loop = "dispatches" /\ First(e, batch)
    /\ kind[e].timeline /\ e \notin routed
    /\ routed' = routed \cup {e}
    /\ UNCHANGED <<sequence, kind, queue, stats, permit, task, loop, batch, spawned, emitted,
                   dropped, earlier>>

\* ... then the transport.
Emit(e) ==
    /\ loop = "dispatches" /\ First(e, batch)
    /\ kind[e].timeline /\ e \in routed
    /\ emitted' = emitted \cup {e}
    /\ batch' = batch \ {e}
    /\ UNCHANGED <<sequence, kind, queue, stats, permit, task, loop, spawned, routed,
                   dropped, earlier>>

\* Mutant: whatever the delivery class.
SpawnAny(e) ==
    /\ loop = "dispatches" /\ First(e, batch)
    /\ spawned' = spawned \cup {e}
    /\ batch' = batch \ {e}
    /\ UNCHANGED <<sequence, kind, queue, stats, permit, task, loop, routed, emitted,
                   dropped, earlier>>

\* A control event gets a task of its own, and the loop goes on.
Spawn(e) ==
    /\ loop = "dispatches" /\ First(e, batch)
    /\ ~kind[e].timeline
    /\ spawned' = spawned \cup {e}
    /\ batch' = batch \ {e}
    /\ UNCHANGED <<sequence, kind, queue, stats, permit, task, loop, routed, emitted,
                   dropped, earlier>>

Loop ==
    \/ Wake \/ DequeueBatch \/ Drained \/ BatchDone
    \/ \E e \in Events : Route(e) \/ Emit(e) \/ Spawn(e)

\* dispatch_event on the task of a control event.
RouteSpawned(e) ==
    /\ e \in spawned \ routed
    /\ routed' = routed \cup {e}
    /\ UNCHANGED <<sequence, kind, queue, stats, permit, task, loop, batch, spawned, emitted,
                   dropped, earlier>>

EmitSpawned(e) ==
    /\ e \in spawned \cap routed
    /\ emitted' = emitted \cup {e}
    /\ spawned' = spawned \ {e}
    /\ UNCHANGED <<sequence, kind, queue, stats, permit, task, loop, batch, routed,
                   dropped, earlier>>

\* Nobody emits any more and everything is shown.
Rest ==
    /\ sequence = MaxEvents /\ UnderWay = {}
    /\ loop = "waits" /\ ~permit /\ spawned = {}
    /\ UNCHANGED vars

Next ==
    \/ \E t \in Tasks : Create(t) \/ Enqueue(t)
    \/ Loop
    \/ \E e \in Events : RouteSpawned(e) \/ EmitSpawned(e)
    \/ Rest

Spec == Init /\ [][Next]_vars

\* tokio goes on polling, as long as there is one to poll, the tasks in the
\* middle of enqueue, the loop and the tasks it has spawned; subscribers and the
\* transport return.
Fairness ==
    /\ WF_vars(\E t \in Tasks : Enqueue(t))
    /\ WF_vars(Loop)
    /\ WF_vars(\E e \in Events : RouteSpawned(e) \/ EmitSpawned(e))

FairSpec == Spec /\ Fairness
-----------------------------------------------------------------------------
TypeOK ==
    /\ sequence \in 0 .. MaxEvents
    /\ kind \in [0 .. sequence - 1 -> Kinds]
    /\ queue \subseteq 0 .. sequence - 1 /\ batch \subseteq 0 .. sequence - 1
    /\ stats \in [pending : Nat, enqueued : Nat, processed : Nat]
    /\ permit \in BOOLEAN
    /\ task \in [Tasks -> [pc : TaskPcs, event : Nat, len : Nat]]
    /\ \A t \in Tasks : task[t].pc # "idle" => task[t].event < sequence
    /\ loop \in {"waits", "drains", "dispatches"}
    /\ spawned \subseteq 0 .. sequence - 1 /\ routed \subseteq 0 .. sequence - 1
    /\ emitted \subseteq 0 .. sequence - 1 /\ dropped \subseteq 0 .. sequence - 1
    /\ earlier \in [0 .. sequence - 1 -> SUBSET (0 .. sequence - 1)]

\* A timeline event overtakes none whose enqueue had returned before its own
\* began, unless that one is less urgent: neither the subscribers nor the
\* transport see it until the earlier one is through both.
OvertakenOnlyByUrgent ==
    \A f \in Timeline \cap routed : \A e \in (Timeline \cap earlier[f]) \ dropped :
      kind[e].priority <= kind[f].priority => e \in emitted

\* The loop does not wait while an event is in the queue, unless its wakeup is
\* there or on its way, however enqueue's steps fall between the loop's.
NoLostWakeup ==
    loop = "waits" /\ queue # {} =>
      permit \/ \E t \in Tasks : task[t].pc \in {"measuring", "counting", "notifying"}

\* The check of the size and the push are apart: the limit is passed by at
\* most one event for each further task.
OverrunBounded ==
    Cardinality(queue) + Cardinality({t \in Tasks : At(t, "pushing")})
      <= MaxQueueSize + Cardinality(Tasks) - 1

\* The totals account for every event that was pushed: what is counted or about
\* to be is in the queue or has been taken, although the queue and the
\* statistics have different locks.
StatsAddUp ==
    stats.enqueued + Cardinality({t \in Tasks : task[t].pc \in {"measuring", "counting"}})
      = stats.processed + Cardinality(queue)

\* Every event that enters the queue reaches the subscribers and the transport.
EventuallyEmitted == \A e \in Events : e \in queue ~> e \in emitted
=============================================================================
