-------------------------- MODULE EventQueueProofs --------------------------
(* What holds of EventQueue for every set of tasks and kinds of events, and *)
(* every limit of the queue and of a batch.                                 *)
EXTENDS EventQueue, FiniteSetTheorems, TLAPS

Task == [pc : TaskPcs, event : Nat, len : Nat]

\* What the step of one task does to the tasks.
LEMMA TaskTypes ==
    ASSUME TypeOK, NEW t \in Tasks
    PROVE  /\ task[t] \in Task /\ task[t].pc \in TaskPcs
           /\ task[t].event \in Nat /\ task[t].len \in Nat
           /\ task[t].pc # "idle" => task[t].event \in 0 .. sequence - 1
BY EventAssumption DEF TypeOK, Task

LEMMA TaskUpdate ==
    ASSUME TypeOK, NEW t \in Tasks, NEW v \in Task, task' = [task EXCEPT ![t] = v]
    PROVE  /\ task' \in [Tasks -> Task]
           /\ task'[t] = v
           /\ \A u \in Tasks : u # t => task'[u] = task[u]
           /\ (sequence' = sequence \/ sequence' = sequence + 1)
                /\ (v.pc # "idle" => v.event < sequence')
                => \A u \in Tasks : task'[u].pc # "idle" => task'[u].event < sequence'
<1>1. /\ task' \in [Tasks -> Task]
      /\ task'[t] = v
      /\ \A u \in Tasks : u # t => task'[u] = task[u]
  BY DEF TypeOK, Task
<1>2. ASSUME sequence' = sequence \/ sequence' = sequence + 1,
             v.pc # "idle" => v.event < sequence',
             NEW u \in Tasks, task'[u].pc # "idle"
      PROVE  task'[u].event < sequence'
  <2>1. CASE u = t
    BY <1>1, <1>2, <2>1
  <2>2. CASE u # t
    <3>1. task[u].event \in 0 .. sequence - 1 /\ sequence \in Nat
      BY <1>1, <1>2, <2>2, TaskTypes, EventAssumption DEF TypeOK
    <3> QED
      BY <1>1, <1>2, <2>2, <3>1
  <2> QED
    BY <2>1, <2>2
<1> QED
  BY <1>1, <1>2

LEMMA TaskGoto ==
    ASSUME TypeOK, NEW t \in Tasks, NEW pc \in TaskPcs, Goto(t, pc)
    PROVE  /\ task' \in [Tasks -> Task]
           /\ task'[t] = [pc |-> pc, event |-> task[t].event, len |-> task[t].len]
           /\ \A u \in Tasks : u # t => task'[u] = task[u]
           /\ sequence' = sequence /\ (pc # "idle" => task[t].pc # "idle")
                => \A u \in Tasks : task'[u].pc # "idle" => task'[u].event < sequence'
<1> DEFINE r == task[t]
           v == [pc |-> pc, event |-> task[t].event, len |-> task[t].len]
<1>0. r \in [pc : TaskPcs, event : Nat, len : Nat]
  BY DEF TypeOK
<1>1. [r EXCEPT !.pc = pc] = v
  BY <1>0
<1>3. task' = [task EXCEPT ![t] = v]
  BY <1>1 DEF Goto
<1>2. v \in Task /\ v.pc = pc /\ v.event = task[t].event
  BY <1>0 DEF Task
<1>4. task[t].pc # "idle" => task[t].event < sequence
  BY DEF TypeOK
<1> HIDE DEF v, Task
<1>5. /\ task' \in [Tasks -> Task] /\ task'[t] = v
      /\ \A u \in Tasks : u # t => task'[u] = task[u]
      /\ sequence' = sequence /\ (pc # "idle" => task[t].pc # "idle")
           => \A u \in Tasks : task'[u].pc # "idle" => task'[u].event < sequence'
  BY <1>2, <1>3, <1>4, TaskUpdate
<1> QED
  BY <1>5 DEF v

\* The sets of events are finite.
LEMMA EventsFinite ==
    ASSUME TypeOK
    PROVE  /\ IsFiniteSet(queue) /\ Cardinality(queue) \in Nat
           /\ \A S \in SUBSET queue : IsFiniteSet(S) /\ Cardinality(S) \in Nat
                                      /\ Cardinality(queue \ S) = Cardinality(queue) - Cardinality(S)
<1>1. IsFiniteSet(0 .. sequence - 1)
  BY EventAssumption, FS_Interval DEF TypeOK
<1>2. IsFiniteSet(queue)
  BY <1>1, FS_Subset DEF TypeOK
<1>3. ASSUME NEW S \in SUBSET queue
      PROVE  /\ IsFiniteSet(S) /\ Cardinality(S) \in Nat
             /\ Cardinality(queue \ S) = Cardinality(queue) - Cardinality(S)
  <2>1. IsFiniteSet(S) /\ IsFiniteSet(queue \ S)
    BY <1>2, FS_Subset
  <2>2. Cardinality(S \cup (queue \ S))
          = Cardinality(S) + Cardinality(queue \ S) - Cardinality(S \cap (queue \ S))
    BY <2>1, FS_Union
  <2>3. S \cup (queue \ S) = queue /\ S \cap (queue \ S) = {}
    OBVIOUS
  <2>4. Cardinality(S) \in Nat /\ Cardinality(queue \ S) \in Nat /\ Cardinality({}) = 0
    BY <2>1, FS_CardinalityType, FS_EmptySet
  <2> QED
    BY <2>1, <2>2, <2>3, <2>4
<1> QED
  BY <1>2, <1>3, FS_CardinalityType
-----------------------------------------------------------------------------
\* Type correctness, and that events keep to the numbers that were drawn.
LEMMA TypeStep == TypeOK /\ [Next]_vars => TypeOK'
<1> SUFFICES ASSUME TypeOK, [Next]_vars PROVE TypeOK'
  OBVIOUS
<1> USE EventAssumption
<1>1. ASSUME NEW t \in Tasks, Create(t) PROVE TypeOK'
  <2> DEFINE v == [pc |-> "checking", event |-> sequence, len |-> 0]
  <2>1. sequence \in Nat /\ sequence < MaxEvents /\ sequence' = sequence + 1
    BY <1>1 DEF Create, TypeOK
  <2>2. v \in Task /\ task' = [task EXCEPT ![t] = v]
    BY <1>1, <2>1 DEF Create, Task, TaskPcs
  <2>3. /\ task' \in [Tasks -> Task] /\ task'[t] = v
        /\ \A u \in Tasks : u # t => task'[u] = task[u]
        /\ \A u \in Tasks : task'[u].pc # "idle" => task'[u].event < sequence'
    <3>1. v.event < sequence'
      BY <2>1
    <3> HIDE DEF v, Task
    <3> QED BY <2>1, <2>2, <3>1, TaskUpdate
  <2>4. 0 .. sequence' - 1 = 0 .. sequence /\ 0 .. sequence - 1 \subseteq 0 .. sequence
    BY <2>1
  <2>5. kind' \in [0 .. sequence' - 1 -> Kinds]
    BY <1>1, <2>1, <2>4 DEF Create, TypeOK
  <2>6. earlier' \in [0 .. sequence' - 1 -> SUBSET (0 .. sequence' - 1)]
    BY <1>1, <2>1, <2>4 DEF Create, TypeOK
  <2>7. /\ queue' = queue /\ batch' = batch /\ stats' = stats /\ permit' = permit
        /\ loop' = loop /\ spawned' = spawned /\ routed' = routed /\ emitted' = emitted
        /\ dropped' = dropped
    BY <1>1 DEF Create, streamVars
  <2> QED
    BY <2>1, <2>3, <2>4, <2>5, <2>6, <2>7 DEF TypeOK, Task
<1>2. ASSUME NEW t \in Tasks, Drop(t) PROVE TypeOK'
  <2>1. Quiet \in Task /\ task' = [task EXCEPT ![t] = Quiet]
    BY <1>2 DEF Drop, Quiet, Task, TaskPcs
  <2>2. /\ task' \in [Tasks -> Task] /\ task'[t] = Quiet
        /\ \A u \in Tasks : u # t => task'[u] = task[u]
        /\ \A u \in Tasks : task'[u].pc # "idle" => task'[u].event < sequence'
    BY <1>2, <2>1, TaskUpdate DEF Drop, Quiet
  <2>3. task[t].event \in 0 .. sequence - 1
    BY <1>2 DEF Drop, At, TypeOK
  <2> QED
    BY <1>2, <2>2, <2>3 DEF Drop, TypeOK, Task, Quiet, streamVars
<1>3. ASSUME NEW t \in Tasks, Fits(t) PROVE TypeOK'
  <2>1. /\ task' \in [Tasks -> Task]
        /\ task'[t] = [pc |-> "pushing", event |-> task[t].event, len |-> task[t].len]
        /\ \A u \in Tasks : u # t => task'[u] = task[u]
        /\ \A u \in Tasks : task'[u].pc # "idle" => task'[u].event < sequence'
    BY <1>3, TaskGoto DEF Fits, At, TaskPcs
  <2> QED
    BY <1>3, <2>1 DEF Fits, At, TypeOK, Task, streamVars
<1>4. ASSUME NEW t \in Tasks, Push(t) PROVE TypeOK'
  <2>1. /\ task' \in [Tasks -> Task]
        /\ task'[t] = [pc |-> "measuring", event |-> task[t].event, len |-> task[t].len]
        /\ \A u \in Tasks : u # t => task'[u] = task[u]
        /\ \A u \in Tasks : task'[u].pc # "idle" => task'[u].event < sequence'
    BY <1>4, TaskGoto DEF Push, At, TaskPcs
  <2>2. task[t].event \in 0 .. sequence - 1
    BY <1>4 DEF Push, At, TypeOK
  <2> QED
    BY <1>4, <2>1, <2>2 DEF Push, At, TypeOK, Task, streamVars
<1>5. ASSUME NEW t \in Tasks, Measure(t) PROVE TypeOK'
  <2> DEFINE v == [pc |-> "counting", event |-> task[t].event, len |-> Cardinality(queue)]
  <2>1. Cardinality(queue) \in Nat
    BY EventsFinite
  <2>2. v \in Task /\ task' = [task EXCEPT ![t] = v]
    <3>2. v \in Task
      BY <2>1, TaskTypes DEF Task, TaskPcs
    <3>3. task' = [task EXCEPT ![t] = v]
      BY <1>5 DEF Measure
    <3> QED
      BY <3>2, <3>3
  <2>3. /\ task' \in [Tasks -> Task] /\ task'[t] = v
        /\ \A u \in Tasks : u # t => task'[u] = task[u]
        /\ \A u \in Tasks : task'[u].pc # "idle" => task'[u].event < sequence'
    <3>1. v.event < sequence /\ sequence' = sequence
      BY <1>5 DEF Measure, At, TypeOK
    <3> HIDE DEF v, Task
    <3> QED BY <2>2, <3>1, TaskUpdate
  <2> QED
    BY <1>5, <2>3 DEF Measure, At, TypeOK, Task, streamVars
<1>6. ASSUME NEW t \in Tasks, Count(t) PROVE TypeOK'
  <2>1. /\ task' \in [Tasks -> Task]
        /\ task'[t] = [pc |-> "notifying", event |-> task[t].event, len |-> task[t].len]
        /\ \A u \in Tasks : u # t => task'[u] = task[u]
        /\ \A u \in Tasks : task'[u].pc # "idle" => task'[u].event < sequence'
    BY <1>6, TaskGoto DEF Count, At, TaskPcs
  <2>2. stats' \in [pending : Nat, enqueued : Nat, processed : Nat]
    <3>1. task[t].len \in Nat
      BY TaskTypes
    <3>2. stats.enqueued + 1 \in Nat
      BY DEF TypeOK
    <3> QED
      BY <1>6, <3>1, <3>2 DEF Count, TypeOK
  <2> QED
    BY <1>6, <2>1, <2>2 DEF Count, At, TypeOK, Task, streamVars
<1>7. ASSUME NEW t \in Tasks, NotifyOne(t) PROVE TypeOK'
  <2>1. Quiet \in Task /\ task' = [task EXCEPT ![t] = Quiet]
    BY <1>7 DEF NotifyOne, Quiet, Task, TaskPcs
  <2>2. /\ task' \in [Tasks -> Task] /\ task'[t] = Quiet
        /\ \A u \in Tasks : u # t => task'[u] = task[u]
        /\ \A u \in Tasks : task'[u].pc # "idle" => task'[u].event < sequence'
    BY <1>7, <2>1, TaskUpdate DEF NotifyOne, Quiet
  <2> QED
    BY <1>7, <2>2 DEF NotifyOne, TypeOK, Task, Quiet, streamVars
<1>8. CASE Wake
  BY <1>8 DEF Wake, TypeOK, streamVars
<1>9. CASE DequeueBatch
  <2>1. PICK taken \in SUBSET queue :
          /\ batch' = taken /\ queue' = queue \ taken
          /\ stats' = [stats EXCEPT !.pending = Cardinality(queue \ taken),
                                    !.processed = @ + Cardinality(taken)]
    BY <1>9 DEF DequeueBatch
  <2>2. Cardinality(taken) \in Nat /\ Cardinality(queue \ taken) \in Nat
    BY EventsFinite
  <2>3. stats' \in [pending : Nat, enqueued : Nat, processed : Nat]
    <3>1. stats.processed + Cardinality(taken) \in Nat
      BY <2>2 DEF TypeOK
    <3> QED
      BY <2>1, <2>2, <3>1 DEF TypeOK
  <2> QED
    BY <1>9, <2>1, <2>3 DEF DequeueBatch, TypeOK, streamVars
<1>10. CASE Drained
  BY <1>10 DEF Drained, TypeOK, streamVars
<1>11. CASE BatchDone
  BY <1>11 DEF BatchDone, TypeOK, streamVars
<1>12. ASSUME NEW e \in Events, Route(e) PROVE TypeOK'
  BY <1>12 DEF Route, First, TypeOK
<1>13. ASSUME NEW e \in Events, Emit(e) PROVE TypeOK'
  BY <1>13 DEF Emit, First, TypeOK
<1>14. ASSUME NEW e \in Events, Spawn(e) PROVE TypeOK'
  BY <1>14 DEF Spawn, First, TypeOK
<1>15. ASSUME NEW e \in Events, RouteSpawned(e) PROVE TypeOK'
  BY <1>15 DEF RouteSpawned, TypeOK
<1>16. ASSUME NEW e \in Events, EmitSpawned(e) PROVE TypeOK'
  BY <1>16 DEF EmitSpawned, TypeOK
<1>17. CASE UNCHANGED vars
  BY <1>17 DEF vars, streamVars, TypeOK
<1> QED
  BY <1>1, <1>2, <1>3, <1>4, <1>5, <1>6, <1>7, <1>8, <1>9, <1>10, <1>11, <1>12, <1>13, <1>14,
     <1>15, <1>16, <1>17 DEF Next, Enqueue, Loop, Rest

\* Type correctness: events are numbers that were drawn, and every task and the
\* loop are at one of the points where they take a lock or wait.
THEOREM EventTypeCorrect == Spec => []TypeOK
<1>1. Init => TypeOK
  <2> SUFFICES ASSUME Init PROVE TypeOK
    OBVIOUS
  <2>1. Quiet \in [pc : TaskPcs, event : Nat, len : Nat]
    BY DEF Quiet, TaskPcs
  <2>2. 0 .. sequence - 1 = {} /\ sequence = 0
    BY DEF Init
  <2>3. kind \in [0 .. sequence - 1 -> Kinds] /\ earlier \in [0 .. sequence - 1 -> SUBSET (0 .. sequence - 1)]
    BY <2>2 DEF Init
  <2>4. task \in [Tasks -> [pc : TaskPcs, event : Nat, len : Nat]]
        /\ \A t \in Tasks : task[t].pc = "idle"
    BY <2>1 DEF Init, Quiet
  <2>5. stats \in [pending : Nat, enqueued : Nat, processed : Nat]
    BY DEF Init
  <2>6. sequence \in 0 .. MaxEvents
    BY <2>2, EventAssumption
  <2>7. /\ queue = {} /\ batch = {} /\ permit = FALSE /\ loop = "waits"
        /\ spawned = {} /\ routed = {} /\ emitted = {} /\ dropped = {}
    BY DEF Init
  <2> QED
    BY <2>3, <2>4, <2>5, <2>6, <2>7 DEF TypeOK
<1> QED
  BY <1>1, TypeStep, PTL DEF Spec
-----------------------------------------------------------------------------
Others(t) == \A u \in Tasks : u # t => task'[u] = task[u]
Steps(t, pc, next, event) ==
    /\ task[t].pc = pc /\ task'[t].pc = next /\ task'[t].event = event
    /\ task' \in [Tasks -> Task] /\ Others(t)

\* Where a task is before and after each of its steps.
LEMMA TaskSteps ==
    ASSUME TypeOK, NEW t \in Tasks
    PROVE  /\ Create(t)    => Steps(t, "idle", "checking", sequence)
           /\ Drop(t)      => Steps(t, "checking", "idle", 0)
           /\ Fits(t)      => Steps(t, "checking", "pushing", task[t].event)
           /\ Push(t)      => Steps(t, "pushing", "measuring", task[t].event)
           /\ Measure(t)   => Steps(t, "measuring", "counting", task[t].event)
           /\ Count(t)     => Steps(t, "counting", "notifying", task[t].event)
           /\ NotifyOne(t) => Steps(t, "notifying", "idle", 0)
<1>1. ASSUME NEW v \in Task, task' = [task EXCEPT ![t] = v]
      PROVE  task' \in [Tasks -> Task] /\ task'[t] = v /\ Others(t)
  BY <1>1, TaskUpdate DEF Others
<1>2. ASSUME NEW pc \in TaskPcs, Goto(t, pc)
      PROVE  /\ task' \in [Tasks -> Task] /\ Others(t)
             /\ task'[t].pc = pc /\ task'[t].event = task[t].event
  <2>1. task' \in [Tasks -> Task]
    BY <1>2, TaskGoto
  <2>2. task'[t] = [pc |-> pc, event |-> task[t].event, len |-> task[t].len]
    BY <1>2, TaskGoto
  <2>3. Others(t)
    BY <1>2, TaskGoto DEF Others
  <2> QED
    BY <2>1, <2>2, <2>3
<1>3. Create(t) => Steps(t, "idle", "checking", sequence)
  <2> SUFFICES ASSUME Create(t) PROVE Steps(t, "idle", "checking", sequence)
    OBVIOUS
  <2> DEFINE v == [pc |-> "checking", event |-> sequence, len |-> 0]
  <2>1. v \in Task /\ v.pc = "checking" /\ v.event = sequence
    BY EventAssumption DEF TypeOK, Task, TaskPcs
  <2>2. task' = [task EXCEPT ![t] = v] /\ task[t].pc = "idle"
    BY DEF Create, At
  <2> HIDE DEF v, Task
  <2> QED
    BY <1>1, <2>1, <2>2 DEF Steps
<1>4. Quiet \in Task /\ Quiet.pc = "idle" /\ Quiet.event = 0
  BY DEF Quiet, Task, TaskPcs
<1>5. Drop(t) => Steps(t, "checking", "idle", 0)
  BY <1>1, <1>4 DEF Drop, At, Steps
<1>6. NotifyOne(t) => Steps(t, "notifying", "idle", 0)
  BY <1>1, <1>4 DEF NotifyOne, At, Steps
<1>7. Fits(t) => Steps(t, "checking", "pushing", task[t].event)
  BY <1>2 DEF Fits, At, Steps, TaskPcs
<1>8. Push(t) => Steps(t, "pushing", "measuring", task[t].event)
  BY <1>2 DEF Push, At, Steps, TaskPcs
<1>9. Count(t) => Steps(t, "counting", "notifying", task[t].event)
  BY <1>2 DEF Count, At, Steps, TaskPcs
<1>10. Measure(t) => Steps(t, "measuring", "counting", task[t].event)
  <2> SUFFICES ASSUME Measure(t) PROVE Steps(t, "measuring", "counting", task[t].event)
    OBVIOUS
  <2> DEFINE v == [pc |-> "counting", event |-> task[t].event, len |-> Cardinality(queue)]
  <2>1. v \in Task /\ v.pc = "counting" /\ v.event = task[t].event
    BY EventsFinite, TaskTypes DEF Task, TaskPcs
  <2>2. task' = [task EXCEPT ![t] = v] /\ task[t].pc = "measuring"
    BY DEF Measure, At
  <2> HIDE DEF v, Task
  <2> QED
    BY <1>1, <2>1, <2>2 DEF Steps
<1> QED
  BY <1>3, <1>5, <1>6, <1>7, <1>8, <1>9, <1>10

\* The steps of the loop and of the tasks it spawns leave the emitting tasks
\* and what only they change alone.
LEMMA LoopSteps ==
    ASSUME Loop \/ (\E e \in Events : RouteSpawned(e) \/ EmitSpawned(e)) \/ UNCHANGED vars
    PROVE  UNCHANGED <<sequence, kind, task, dropped, earlier>>
<1>1. CASE Wake \/ Drained \/ BatchDone
  BY <1>1 DEF Wake, Drained, BatchDone
<1>2. CASE DequeueBatch
  BY <1>2 DEF DequeueBatch
<1>3. ASSUME NEW e \in Events, Route(e) \/ Emit(e) \/ Spawn(e) \/ RouteSpawned(e) \/ EmitSpawned(e)
      PROVE  UNCHANGED <<sequence, kind, task, dropped, earlier>>
  BY <1>3 DEF Route, Emit, Spawn, RouteSpawned, EmitSpawned
<1>4. CASE UNCHANGED vars
  BY <1>4 DEF vars
<1> QED
  BY <1>1, <1>2, <1>3, <1>4 DEF Loop
-----------------------------------------------------------------------------
\* No wakeup is lost: the invariant is inductive as it stands, a task that has
\* pushed hands the duty to wake the loop on from step to step.
LEMMA WakeupStep == TypeOK /\ NoLostWakeup /\ [Next]_vars => NoLostWakeup'
<1> SUFFICES ASSUME TypeOK, NoLostWakeup, [Next]_vars PROVE NoLostWakeup'
  OBVIOUS
<1> DEFINE Wakes(t) == task[t].pc \in {"measuring", "counting", "notifying"}
<1>1. ASSUME NEW t \in Tasks, Create(t) \/ Drop(t) \/ Fits(t) PROVE NoLostWakeup'
  <2>1. ~Wakes(t) /\ Others(t)
    BY <1>1, TaskSteps DEF Steps
  <2>2. UNCHANGED <<queue, permit, loop>>
    BY <1>1 DEF Create, Drop, Fits
  <2> QED
    BY <2>1, <2>2 DEF NoLostWakeup, Others
<1>2. ASSUME NEW t \in Tasks, Push(t) \/ Measure(t) \/ Count(t) PROVE NoLostWakeup'
  <2>1. task'[t].pc \in {"measuring", "counting", "notifying"}
    BY <1>2, TaskSteps DEF Steps
  <2> QED
    BY <2>1 DEF NoLostWakeup
<1>3. ASSUME NEW t \in Tasks, NotifyOne(t) PROVE NoLostWakeup'
  BY <1>3 DEF NotifyOne, NoLostWakeup
<1>4. CASE Wake
  BY <1>4 DEF Wake, NoLostWakeup
<1>5. CASE Drained
  BY <1>5 DEF Drained, NoLostWakeup
<1>6. CASE DequeueBatch
  BY <1>6 DEF DequeueBatch, NoLostWakeup
<1>7. CASE BatchDone
  BY <1>7 DEF BatchDone, NoLostWakeup
<1>8. ASSUME NEW e \in Events, Route(e) \/ Emit(e) \/ Spawn(e) PROVE NoLostWakeup'
  BY <1>8 DEF Route, Emit, Spawn, NoLostWakeup
<1>9. ASSUME NEW e \in Events, RouteSpawned(e) \/ EmitSpawned(e) PROVE NoLostWakeup'
  BY <1>9 DEF RouteSpawned, EmitSpawned, NoLostWakeup
<1>10. CASE UNCHANGED vars
  BY <1>10 DEF vars, NoLostWakeup
<1> QED
  BY <1>1, <1>2, <1>3, <1>4, <1>5, <1>6, <1>7, <1>8, <1>9, <1>10 DEF Next, Enqueue, Loop, Rest

\* The loop does not wait while an event is in the queue and nobody is about to
\* wake it.
THEOREM WakeupIsKept == Spec => []NoLostWakeup
<1>1. Init => NoLostWakeup
  BY DEF Init, NoLostWakeup
<1> QED
  BY <1>1, WakeupStep, EventTypeCorrect, PTL DEF Spec
-----------------------------------------------------------------------------
Pushing == {t \in Tasks : At(t, "pushing")}
Counted == {t \in Tasks : task[t].pc \in {"measuring", "counting"}}

\* Sets of tasks are finite; one that a task joins or leaves grows or shrinks
\* by one.
LEMMA SetsOfTasks ==
    ASSUME NEW S \in SUBSET Tasks
    PROVE  /\ IsFiniteSet(S) /\ Cardinality(S) \in Nat /\ Cardinality(S) <= Cardinality(Tasks)
           /\ Cardinality(Tasks) \in Nat
BY EventAssumption, FS_Subset, FS_CardinalityType

LEMMA TaskSets ==
    ASSUME NEW S \in SUBSET Tasks, NEW t \in Tasks
    PROVE  /\ t \notin S => Cardinality(S \cup {t}) = Cardinality(S) + 1
           /\ t \in S => Cardinality(S \ {t}) = Cardinality(S) - 1
BY SetsOfTasks, EventAssumption, FS_Subset, FS_AddElement, FS_RemoveElement

\* The limit is passed by at most one event for each further task: the task
\* that finds room finds it for all that are between the check and the push.
LEMMA OverrunStep == TypeOK /\ OverrunBounded /\ [Next]_vars => OverrunBounded'
<1> SUFFICES ASSUME TypeOK, OverrunBounded, [Next]_vars PROVE OverrunBounded'
  OBVIOUS
<1> USE EventAssumption
<1>a. Cardinality(queue) + Cardinality(Pushing) <= MaxQueueSize + Cardinality(Tasks) - 1
  BY DEF OverrunBounded, Pushing
<1>b. SUFFICES Cardinality(queue') + Cardinality(Pushing') <= MaxQueueSize + Cardinality(Tasks) - 1
  BY DEF OverrunBounded, Pushing, At
<1>c. /\ Pushing \in SUBSET Tasks /\ Pushing' \in SUBSET Tasks
      /\ Pushing = {t \in Tasks : task[t].pc = "pushing"}
      /\ Pushing' = {t \in Tasks : task'[t].pc = "pushing"}
  BY DEF Pushing, At
<1>d. Cardinality(queue) \in Nat
  BY EventsFinite
<1> HIDE DEF Pushing
<1>1. ASSUME NEW t \in Tasks,
             Create(t) \/ Drop(t) \/ Measure(t) \/ Count(t) \/ NotifyOne(t)
      PROVE  Cardinality(queue') + Cardinality(Pushing') <= MaxQueueSize + Cardinality(Tasks) - 1
  <2>1. Others(t) /\ task[t].pc # "pushing" /\ task'[t].pc # "pushing"
    BY <1>1, TaskSteps DEF Steps
  <2>2. Pushing' = Pushing
    BY <1>c, <2>1 DEF Others
  <2>3. queue' = queue
    BY <1>1 DEF Create, Drop, Measure, Count, NotifyOne
  <2> QED
    BY <1>a, <2>2, <2>3
<1>2. ASSUME NEW t \in Tasks, Fits(t)
      PROVE  Cardinality(queue') + Cardinality(Pushing') <= MaxQueueSize + Cardinality(Tasks) - 1
  <2>1. Cardinality(queue) < MaxQueueSize /\ queue' = queue
    BY <1>2 DEF Fits
  <2>2. Cardinality(Pushing') \in Nat /\ Cardinality(Pushing') <= Cardinality(Tasks)
        /\ Cardinality(Tasks) \in Nat
    BY <1>c, SetsOfTasks
  <2> QED
    BY <1>d, <2>1, <2>2
<1>3. ASSUME NEW t \in Tasks, Push(t)
      PROVE  Cardinality(queue') + Cardinality(Pushing') <= MaxQueueSize + Cardinality(Tasks) - 1
  <2>1. Others(t) /\ task[t].pc = "pushing" /\ task'[t].pc # "pushing"
    BY <1>3, TaskSteps DEF Steps
  <2>2. Pushing' = Pushing \ {t} /\ t \in Pushing
    BY <1>c, <2>1 DEF Others
  <2>3. Cardinality(Pushing') = Cardinality(Pushing) - 1
    BY <1>c, <2>2, TaskSets
  <2>4. queue' = queue \cup {task[t].event}
    BY <1>3 DEF Push
  <2>5. Cardinality(queue') \in Nat /\ Cardinality(queue') <= Cardinality(queue) + 1
    <3> DEFINE x == task[t].event
    <3>1. IsFiniteSet(queue)
      BY EventsFinite
    <3>2. Cardinality(queue \cup {x}) = IF x \in queue THEN Cardinality(queue) ELSE Cardinality(queue) + 1
      BY <3>1, FS_AddElement
    <3> QED
      BY <1>d, <2>4, <3>2
  <2>6. Cardinality(Pushing) \in Nat /\ Cardinality(Tasks) \in Nat
    BY <1>c, SetsOfTasks
  <2> QED
    BY <1>a, <1>d, <2>3, <2>5, <2>6
<1>4. CASE DequeueBatch
  <2>1. PICK taken \in SUBSET queue : queue' = queue \ taken
    BY <1>4 DEF DequeueBatch
  <2>2. Cardinality(queue') = Cardinality(queue) - Cardinality(taken) /\ Cardinality(taken) \in Nat
    BY <2>1, EventsFinite
  <2>3. Pushing' = Pushing
    BY <1>4, <1>c, LoopSteps DEF Loop
  <2>4. Cardinality(Pushing) \in Nat /\ Cardinality(Tasks) \in Nat
    BY <1>c, SetsOfTasks
  <2> QED
    BY <1>a, <1>d, <2>2, <2>3, <2>4
<1>5. CASE UNCHANGED queue /\ UNCHANGED task
  BY <1>5, <1>a, <1>c
<1>6. CASE \/ Wake \/ Drained \/ BatchDone \/ UNCHANGED vars
           \/ \E e \in Events : Route(e) \/ Emit(e) \/ Spawn(e) \/ RouteSpawned(e) \/ EmitSpawned(e)
  <2>1. UNCHANGED queue /\ UNCHANGED task
    BY <1>6 DEF Wake, Drained, BatchDone, Route, Emit, Spawn, RouteSpawned, EmitSpawned, vars
  <2> QED
    BY <1>5, <2>1
<1> QED
  BY <1>1, <1>2, <1>3, <1>4, <1>6 DEF Next, Enqueue, Loop, Rest

\* The queue never holds more than max_queue_size events and one for each task
\* but one.
THEOREM OverrunIsBounded == Spec => []OverrunBounded
<1>1. Init => OverrunBounded
  <2> SUFFICES ASSUME Init PROVE OverrunBounded
    OBVIOUS
  <2>1. queue = {} /\ {t \in Tasks : At(t, "pushing")} = {}
    BY DEF Init, At, Quiet
  <2>2. Cardinality({}) = 0 /\ Cardinality(Tasks) \in Nat
    BY EventAssumption, FS_EmptySet, FS_CardinalityType
  <2> QED
    BY <2>1, <2>2, EventAssumption DEF OverrunBounded
<1> QED
  BY <1>1, OverrunStep, EventTypeCorrect, PTL DEF Spec
-----------------------------------------------------------------------------
Holds(t) == task[t].pc \in {"checking", "pushing"}

\* An event that is not pushed yet is in the hands of one task and not in the
\* queue.
Fresh ==
    \A t \in Tasks : Holds(t) =>
      /\ task[t].event \notin queue
      /\ \A u \in Tasks : u # t /\ Holds(u) => task[u].event # task[t].event

LEMMA FreshStep == TypeOK /\ Fresh /\ [Next]_vars => Fresh'
<1> SUFFICES ASSUME TypeOK, Fresh, [Next]_vars PROVE Fresh'
  OBVIOUS
<1>1. ASSUME NEW t \in Tasks, Create(t) PROVE Fresh'
  <2>1. Others(t) /\ task'[t].event = sequence /\ task[t].pc = "idle"
    BY <1>1, TaskSteps DEF Steps
  <2>2. queue' = queue /\ sequence \notin queue
    BY <1>1, EventAssumption DEF Create, TypeOK
  <2>3. \A u \in Tasks : Holds(u) => task[u].event # sequence
    BY EventAssumption DEF TypeOK, Holds
  <2> QED
    BY <2>1, <2>2, <2>3 DEF Fresh, Holds, Others
<1>2. ASSUME NEW t \in Tasks, Fits(t) PROVE Fresh'
  <2>1. Others(t) /\ task'[t].event = task[t].event /\ Holds(t)
    BY <1>2, TaskSteps DEF Steps, Holds
  <2>2. queue' = queue
    BY <1>2 DEF Fits
  <2> QED
    BY <2>1, <2>2 DEF Fresh, Holds, Others
<1>3. ASSUME NEW t \in Tasks, Push(t) PROVE Fresh'
  <2>1. Others(t) /\ task'[t].pc = "measuring" /\ Holds(t)
    BY <1>3, TaskSteps DEF Steps, Holds
  <2>2. queue' = queue \cup {task[t].event}
    BY <1>3 DEF Push
  <2> QED
    BY <2>1, <2>2 DEF Fresh, Holds, Others
<1>4. ASSUME NEW t \in Tasks, Drop(t) \/ Measure(t) \/ Count(t) \/ NotifyOne(t) PROVE Fresh'
  <2>1. Others(t) /\ task'[t].pc \notin {"checking", "pushing"}
    BY <1>4, TaskSteps DEF Steps
  <2>2. queue' = queue
    BY <1>4 DEF Drop, Measure, Count, NotifyOne
  <2> QED
    BY <2>1, <2>2 DEF Fresh, Holds, Others
<1>5. CASE Loop \/ (\E e \in Events : RouteSpawned(e) \/ EmitSpawned(e)) \/ UNCHANGED vars
  <2>1. task' = task
    BY <1>5, LoopSteps
  <2>2. queue' \subseteq queue
    BY <1>5 DEF Loop, Wake, DequeueBatch, Drained, BatchDone, Route, Emit, Spawn, RouteSpawned,
                EmitSpawned, vars
  <2> QED
    BY <2>1, <2>2 DEF Fresh, Holds
<1> QED
  BY <1>1, <1>2, <1>3, <1>4, <1>5 DEF Next, Enqueue, Rest

LEMMA EventsAreFresh == Spec => []Fresh
<1>1. Init => Fresh
  BY DEF Init, Fresh, Holds, Quiet
<1> QED
  BY <1>1, FreshStep, EventTypeCorrect, PTL DEF Spec

\* The statistics account for every event, though they have another lock than
\* the queue: a push adds an event that is not in the queue, and the task that
\* has pushed counts it later.
LEMMA StatsStep == TypeOK /\ Fresh /\ StatsAddUp /\ [Next]_vars => StatsAddUp'
<1> SUFFICES ASSUME TypeOK, Fresh, StatsAddUp, [Next]_vars PROVE StatsAddUp'
  OBVIOUS
<1>a. stats.enqueued + Cardinality(Counted) = stats.processed + Cardinality(queue)
  BY DEF StatsAddUp, Counted
<1>b. SUFFICES stats'.enqueued + Cardinality(Counted') = stats'.processed + Cardinality(queue')
  BY DEF StatsAddUp, Counted
<1>c. /\ Counted \in SUBSET Tasks /\ Counted' \in SUBSET Tasks
      /\ Counted = {t \in Tasks : task[t].pc \in {"measuring", "counting"}}
      /\ Counted' = {t \in Tasks : task'[t].pc \in {"measuring", "counting"}}
  BY DEF Counted
<1>d. /\ Cardinality(queue) \in Nat /\ Cardinality(Counted) \in Nat
      /\ stats.enqueued \in Nat /\ stats.processed \in Nat
  BY <1>c, EventsFinite, SetsOfTasks DEF TypeOK
<1> HIDE DEF Counted
<1>1. ASSUME NEW t \in Tasks, Create(t) \/ Drop(t) \/ Fits(t) \/ Measure(t) \/ NotifyOne(t)
      PROVE  stats'.enqueued + Cardinality(Counted') = stats'.processed + Cardinality(queue')
  <2>1. Others(t) /\ (task'[t].pc \in {"measuring", "counting"}
                        <=> task[t].pc \in {"measuring", "counting"})
    BY <1>1, TaskSteps DEF Steps
  <2>2. Counted' = Counted
    BY <1>c, <2>1 DEF Others
  <2>3. queue' = queue /\ stats' = stats
    BY <1>1 DEF Create, Drop, Fits, Measure, NotifyOne
  <2> QED
    BY <1>a, <2>2, <2>3
<1>2. ASSUME NEW t \in Tasks, Push(t)
      PROVE  stats'.enqueued + Cardinality(Counted') = stats'.processed + Cardinality(queue')
  <2>1. Others(t) /\ task[t].pc = "pushing" /\ task'[t].pc = "measuring"
    BY <1>2, TaskSteps DEF Steps
  <2>2. Counted' = Counted \cup {t} /\ t \notin Counted
    BY <1>c, <2>1 DEF Others
  <2>3. Cardinality(Counted') = Cardinality(Counted) + 1
    BY <1>c, <2>2, TaskSets
  <2>4. queue' = queue \cup {task[t].event} /\ stats' = stats /\ task[t].event \notin queue
    BY <1>2, <2>1 DEF Push, Fresh, Holds
  <2>5. Cardinality(queue') = Cardinality(queue) + 1
    <3>1. IsFiniteSet(queue)
      BY EventsFinite
    <3> QED
      BY <2>4, <3>1, FS_AddElement
  <2> QED
    BY <1>a, <1>d, <2>3, <2>4, <2>5
<1>3. ASSUME NEW t \in Tasks, Count(t)
      PROVE  stats'.enqueued + Cardinality(Counted') = stats'.processed + Cardinality(queue')
  <2>1. Others(t) /\ task[t].pc = "counting" /\ task'[t].pc = "notifying"
    BY <1>3, TaskSteps DEF Steps
  <2>2. Counted' = Counted \ {t} /\ t \in Counted
    BY <1>c, <2>1 DEF Others
  <2>3. Cardinality(Counted') = Cardinality(Counted) - 1
    BY <1>c, <2>2, TaskSets
  <2>4. /\ queue' = queue
        /\ stats'.enqueued = stats.enqueued + 1 /\ stats'.processed = stats.processed
    BY <1>3 DEF Count, TypeOK
  <2> QED
    BY <1>a, <1>d, <2>3, <2>4
<1>4. CASE DequeueBatch
  <2>1. PICK taken \in SUBSET queue :
          /\ queue' = queue \ taken
          /\ stats' = [stats EXCEPT !.pending = Cardinality(queue \ taken),
                                    !.processed = @ + Cardinality(taken)]
    BY <1>4 DEF DequeueBatch
  <2>2. Cardinality(queue') = Cardinality(queue) - Cardinality(taken) /\ Cardinality(taken) \in Nat
    BY <2>1, EventsFinite
  <2>3. /\ stats'.enqueued = stats.enqueued
        /\ stats'.processed = stats.processed + Cardinality(taken)
    BY <2>1 DEF TypeOK
  <2>4. Counted' = Counted
    BY <1>4, <1>c, LoopSteps DEF Loop
  <2> QED
    BY <1>a, <1>d, <2>2, <2>3, <2>4
<1>5. CASE UNCHANGED <<queue, task, stats>>
  BY <1>5, <1>a, <1>c
<1>6. CASE \/ Wake \/ Drained \/ BatchDone \/ UNCHANGED vars
           \/ \E e \in Events : Route(e) \/ Emit(e) \/ Spawn(e) \/ RouteSpawned(e) \/ EmitSpawned(e)
  <2>1. UNCHANGED <<queue, task, stats>>
    BY <1>6 DEF Wake, Drained, BatchDone, Route, Emit, Spawn, RouteSpawned, EmitSpawned, vars
  <2> QED
    BY <1>5, <2>1
<1> QED
  BY <1>1, <1>2, <1>3, <1>4, <1>6 DEF Next, Enqueue, Loop, Rest

\* What is counted as enqueued or about to be is in the queue or has been
\* counted as processed.
THEOREM StatsAreTrue == Spec => []StatsAddUp
<1>1. Init => StatsAddUp
  <2> SUFFICES ASSUME Init PROVE StatsAddUp
    OBVIOUS
  <2>1. queue = {} /\ {t \in Tasks : task[t].pc \in {"measuring", "counting"}} = {}
        /\ stats.enqueued = 0 /\ stats.processed = 0
    BY DEF Init, Quiet
  <2> QED
    BY <2>1, FS_EmptySet DEF StatsAddUp
<1> QED
  BY <1>1, StatsStep, EventsAreFresh, EventTypeCorrect, PTL DEF Spec
-----------------------------------------------------------------------------
\* What had returned before an event was created is older and in no task.
Returned ==
    \A f \in 0 .. sequence - 1 : \A e \in earlier[f] :
      e < f /\ \A t \in Tasks : task[t].pc # "idle" => task[t].event # e

\* An event that was created is somewhere.
Kept ==
    \A e \in 0 .. sequence - 1 :
      \/ e \in queue \/ e \in batch \/ e \in spawned \/ e \in emitted \/ e \in dropped
      \/ \E t \in Tasks : Holds(t) /\ task[t].event = e

\* Only control events get tasks of their own.
ControlSpawned == \A e \in spawned : ~kind[e].timeline

\* A batch is gone through before the next one is taken.
BatchFirst == loop # "dispatches" => batch = {}

\* What is left in the queue when a batch is taken is less urgent or younger;
\* what comes later had not returned before.
Ordered == \A f \in batch, e \in queue : e \in earlier[f] => kind[f].priority < kind[e].priority

OrderInv ==
    Returned /\ Kept /\ ControlSpawned /\ BatchFirst /\ Ordered /\ OvertakenOnlyByUrgent

LEMMA KindTypes ==
    ASSUME TypeOK, NEW e \in 0 .. sequence - 1
    PROVE  kind[e].priority \in Int /\ earlier[e] \in SUBSET (0 .. sequence - 1)
           /\ e \in Nat /\ e \in Events
BY EventAssumption DEF TypeOK, Events

\* Being routed is all that can break the order of delivery.
LEMMA SameDelivery ==
    ASSUME OvertakenOnlyByUrgent, UNCHANGED <<sequence, kind, earlier>>,
           dropped \subseteq dropped', emitted \subseteq emitted',
           \A f \in routed' \ routed : ~kind[f].timeline
    PROVE  OvertakenOnlyByUrgent'
BY DEF OvertakenOnlyByUrgent, Timeline

\* A new event is the youngest, and comes after all that have returned.
LEMMA OrderCreate ==
    ASSUME TypeOK, OrderInv, NEW t \in Tasks, Create(t)
    PROVE  OrderInv'
<1> DEFINE s == sequence
<1>1. /\ Others(t) /\ task[t].pc = "idle" /\ task'[t].pc = "checking" /\ task'[t].event = s
  BY TaskSteps DEF Steps
<1>2. /\ s \in Nat /\ sequence' = s + 1 /\ 0 .. sequence' - 1 = 0 .. s
      /\ UNCHANGED <<queue, batch, spawned, routed, emitted, dropped, loop>>
  BY EventAssumption DEF Create, TypeOK, streamVars
<1>3. /\ \A e \in 0 .. s - 1 : kind'[e] = kind[e] /\ earlier'[e] = earlier[e]
      /\ earlier'[s] = {f \in 0 .. s - 1 : f \notin UnderWay}
  BY <1>2 DEF Create
<1>4. \A f \in 0 .. s - 1 : earlier[f] \subseteq 0 .. s - 1
  BY KindTypes
<1> HIDE DEF s
<1>5. Returned'
  <2> SUFFICES ASSUME NEW f \in 0 .. s, NEW e \in earlier'[f]
               PROVE  e < f /\ \A u \in Tasks : task'[u].pc # "idle" => task'[u].event # e
    BY <1>2 DEF Returned
  <2>1. CASE f = s
    <3>1. e \in 0 .. s - 1 /\ e \notin UnderWay
      BY <1>3, <2>1
    <3>2. ASSUME NEW u \in Tasks, task'[u].pc # "idle" PROVE task'[u].event # e
      <4>1. CASE u = t
        BY <1>1, <1>2, <3>1, <4>1
      <4>2. CASE u # t
        BY <1>1, <3>1, <3>2, <4>2 DEF Others, UnderWay
      <4> QED
        BY <4>1, <4>2
    <3> QED
      BY <1>2, <2>1, <3>1, <3>2
  <2>2. CASE f # s
    <3>1. f \in 0 .. s - 1 /\ e \in earlier[f]
      BY <1>2, <1>3, <2>2
    <3>2. e < f /\ e \in 0 .. s - 1 /\ \A u \in Tasks : task[u].pc # "idle" => task[u].event # e
      BY <3>1, <1>4 DEF OrderInv, Returned, s
    <3>3. s # e
      BY <1>2, <3>2
    <3> QED
      BY <1>1, <3>2, <3>3 DEF Others
  <2> QED
    BY <2>1, <2>2
<1>6. Kept'
  <2> SUFFICES ASSUME NEW e \in 0 .. s
               PROVE  \/ e \in queue \/ e \in batch \/ e \in spawned \/ e \in emitted \/ e \in dropped
                      \/ \E u \in Tasks : task'[u].pc \in {"checking", "pushing"} /\ task'[u].event = e
    BY <1>2 DEF Kept, Holds
  <2>1. CASE e = s
    BY <1>1, <2>1
  <2>2. CASE e # s
    <3>1. e \in 0 .. s - 1
      BY <1>2, <2>2
    <3>2. \A u \in Tasks : Holds(u) => u # t
      BY <1>1 DEF Holds
    <3> QED
      BY <1>1, <3>1, <3>2 DEF OrderInv, Kept, Others, Holds, s
  <2> QED
    BY <2>1, <2>2
<1>7. ControlSpawned'
  BY <1>2, <1>3 DEF OrderInv, ControlSpawned, TypeOK, s
<1>8. BatchFirst'
  BY <1>2 DEF OrderInv, BatchFirst
<1>9. Ordered'
  BY <1>2, <1>3 DEF OrderInv, Ordered, TypeOK, s
<1>10. OvertakenOnlyByUrgent'
  <2> SUFFICES ASSUME NEW f \in Timeline' \cap routed', NEW e \in (Timeline' \cap earlier'[f]) \ dropped',
                      kind'[e].priority <= kind'[f].priority
               PROVE  e \in emitted'
    BY DEF OvertakenOnlyByUrgent
  <2>1. f \in 0 .. s - 1
    BY <1>2 DEF TypeOK, s
  <2>2. e \in earlier[f] /\ e \in 0 .. s - 1
    BY <1>3, <1>4, <2>1
  <2>3. f \in Timeline /\ e \in Timeline /\ kind[e].priority <= kind[f].priority
    BY <1>2, <1>3, <2>1, <2>2 DEF Timeline, s
  <2> QED
    BY <1>2, <2>2, <2>3 DEF OrderInv, OvertakenOnlyByUrgent
<1> QED
  BY <1>5, <1>6, <1>7, <1>8, <1>9, <1>10 DEF OrderInv

\* enqueue hands an event to the queue, or drops it.
LEMMA OrderEnqueue ==
    ASSUME TypeOK, OrderInv, NEW t \in Tasks, Enqueue(t)
    PROVE  OrderInv'
<1>1. /\ Others(t) /\ task[t].pc # "idle"
      /\ task'[t].pc # "idle" => task'[t].event = task[t].event
  BY TaskSteps DEF Steps, Enqueue
<1>2. /\ UNCHANGED <<sequence, kind, earlier, batch, spawned, routed, emitted, loop>>
      /\ dropped \subseteq dropped'
  BY DEF Enqueue, Drop, Fits, Push, Measure, Count, NotifyOne, streamVars
<1>3. queue' = queue \/ queue' = queue \cup {task[t].event}
  BY DEF Enqueue, Drop, Fits, Push, Measure, Count, NotifyOne
<1>4. Holds(t) => \/ task'[t].pc = "pushing" /\ task'[t].event = task[t].event
                  \/ task[t].event \in queue'
                  \/ task[t].event \in dropped'
  <2>1. CASE Drop(t)
    BY <2>1 DEF Drop
  <2>2. CASE Fits(t)
    BY <2>2, TaskSteps DEF Steps
  <2>3. CASE Push(t)
    BY <2>3 DEF Push
  <2>4. CASE Measure(t) \/ Count(t) \/ NotifyOne(t)
    BY <2>4, TaskSteps DEF Steps, Holds
  <2> QED
    BY <2>1, <2>2, <2>3, <2>4 DEF Enqueue
<1>5. Returned'
  BY <1>1, <1>2 DEF OrderInv, Returned, Others
<1>6. Kept'
  <2> SUFFICES ASSUME NEW e \in 0 .. sequence - 1
               PROVE  \/ e \in queue' \/ e \in batch \/ e \in spawned \/ e \in emitted \/ e \in dropped'
                      \/ \E u \in Tasks : task'[u].pc \in {"checking", "pushing"} /\ task'[u].event = e
    BY <1>2 DEF Kept, Holds
  <2>1. CASE \E u \in Tasks : Holds(u) /\ task[u].event = e
    <3>1. PICK u \in Tasks : Holds(u) /\ task[u].event = e
      BY <2>1
    <3>2. CASE u = t
      BY <1>4, <3>1, <3>2
    <3>3. CASE u # t
      BY <1>1, <3>1, <3>3 DEF Others, Holds
    <3> QED
      BY <3>2, <3>3
  <2>2. CASE e \in queue \/ e \in batch \/ e \in spawned \/ e \in emitted \/ e \in dropped
    BY <1>2, <1>3, <2>2
  <2> QED
    BY <2>1, <2>2 DEF OrderInv, Kept
<1>7. ControlSpawned' /\ BatchFirst'
  BY <1>2 DEF OrderInv, ControlSpawned, BatchFirst
<1>8. Ordered'
  <2> SUFFICES ASSUME NEW f \in batch, NEW e \in queue', e \in earlier[f]
               PROVE  kind[f].priority < kind[e].priority
    BY <1>2 DEF Ordered
  <2>1. CASE e \in queue
    BY <2>1 DEF OrderInv, Ordered
  <2>2. CASE e = task[t].event
    <3>1. f \in 0 .. sequence - 1
      BY DEF TypeOK
    <3> QED
      BY <1>1, <2>2, <3>1 DEF OrderInv, Returned
  <2> QED
    BY <1>3, <2>1, <2>2
<1>9. OvertakenOnlyByUrgent'
  BY <1>2, SameDelivery DEF OrderInv
<1> QED
  BY <1>5, <1>6, <1>7, <1>8, <1>9 DEF OrderInv

\* A batch leaves behind what is less urgent or younger.
LEMMA OrderDequeue ==
    ASSUME TypeOK, OrderInv, DequeueBatch
    PROVE  OrderInv'
<1>1. PICK taken \in SUBSET queue :
        /\ \A e \in taken, f \in queue \ taken : Before(e, f)
        /\ batch' = taken /\ queue' = queue \ taken
  BY DEF DequeueBatch
<1>2. /\ UNCHANGED <<sequence, kind, earlier, task, spawned, routed, emitted, dropped>>
      /\ loop = "drains" /\ loop' = "dispatches"
  BY DEF DequeueBatch, streamVars
<1>3. Returned' /\ ControlSpawned' /\ BatchFirst'
  BY <1>2 DEF OrderInv, Returned, ControlSpawned, BatchFirst
<1>4. Kept'
  <2>1. batch = {}
    BY <1>2 DEF OrderInv, BatchFirst
  <2> QED
    BY <1>1, <1>2, <2>1 DEF OrderInv, Kept, Holds
<1>5. Ordered'
  <2> SUFFICES ASSUME NEW f \in taken, NEW e \in queue \ taken, e \in earlier[f]
               PROVE  kind[f].priority < kind[e].priority
    BY <1>1, <1>2 DEF Ordered
  <2>1. f \in 0 .. sequence - 1 /\ e \in 0 .. sequence - 1
    BY DEF TypeOK
  <2>2. e < f
    BY <2>1 DEF OrderInv, Returned
  <2>3. Before(f, e)
    BY <1>1
  <2> QED
    BY <2>1, <2>2, <2>3, KindTypes DEF Before
<1>6. OvertakenOnlyByUrgent'
  BY <1>2, SameDelivery DEF OrderInv
<1> QED
  BY <1>3, <1>4, <1>5, <1>6 DEF OrderInv

\* The event that is routed is the first of its batch: what had returned
\* before it and is not less urgent has been emitted.
LEMMA OrderRoute ==
    ASSUME TypeOK, OrderInv, NEW f \in Events, Route(f)
    PROVE  OrderInv'
<1>1. /\ UNCHANGED <<sequence, kind, earlier, task, queue, batch, spawned, emitted, dropped, loop>>
      /\ f \in batch /\ \A e \in batch : Before(f, e)
      /\ routed' = routed \cup {f}
  BY DEF Route, First
<1>2. Returned' /\ ControlSpawned' /\ BatchFirst' /\ Kept' /\ Ordered'
  BY <1>1 DEF OrderInv, Returned, ControlSpawned, BatchFirst, Kept, Ordered, Holds
<1>3. ASSUME NEW e \in (Timeline \cap earlier[f]) \ dropped, kind[e].priority <= kind[f].priority
      PROVE  e \in emitted
  <2>1. f \in 0 .. sequence - 1 /\ e \in 0 .. sequence - 1
    BY <1>1, KindTypes DEF TypeOK
  <2>2. e < f /\ \A t \in Tasks : Holds(t) => task[t].event # e
    BY <2>1 DEF OrderInv, Returned, Holds
  <2>3. /\ kind[e].priority \in Int /\ kind[f].priority \in Int /\ e \in Nat /\ f \in Nat
    BY <2>1, KindTypes
  <2>4. e \notin queue
    BY <1>1, <1>3, <2>3 DEF OrderInv, Ordered
  <2>5. e \notin batch
    BY <1>1, <1>3, <2>2, <2>3 DEF Before
  <2>6. e \notin spawned
    BY DEF OrderInv, ControlSpawned, Timeline
  <2> QED
    BY <2>1, <2>2, <2>4, <2>5, <2>6 DEF OrderInv, Kept
<1>4. OvertakenOnlyByUrgent'
  BY <1>1, <1>3 DEF OrderInv, OvertakenOnlyByUrgent, Timeline
<1> QED
  BY <1>2, <1>4 DEF OrderInv

\* The other steps move an event on.
LEMMA OrderOther ==
    ASSUME TypeOK, OrderInv,
           \/ Wake \/ Drained \/ BatchDone \/ UNCHANGED vars
           \/ \E e \in Events : Emit(e) \/ Spawn(e) \/ RouteSpawned(e) \/ EmitSpawned(e)
    PROVE  OrderInv'
<1>1. UNCHANGED <<sequence, kind, earlier, task, queue, dropped>>
  BY DEF Wake, Drained, BatchDone, Emit, Spawn, RouteSpawned, EmitSpawned, vars
<1>2. /\ emitted \subseteq emitted' /\ batch' \subseteq batch
      /\ \A e \in batch \cup spawned : e \in batch' \cup spawned' \cup emitted'
      /\ BatchFirst'
      /\ \A e \in spawned' \ spawned : ~kind[e].timeline
      /\ \A e \in routed' \ routed : ~kind[e].timeline
  <2>1. CASE Wake \/ Drained \/ BatchDone
    BY <2>1 DEF Wake, Drained, BatchDone, streamVars, OrderInv, BatchFirst
  <2>2. CASE UNCHANGED vars
    BY <2>2 DEF vars, streamVars, OrderInv, BatchFirst
  <2>3. ASSUME NEW e \in Events, Emit(e) \/ Spawn(e)
        PROVE  /\ emitted \subseteq emitted' /\ batch' \subseteq batch
               /\ \A f \in batch \cup spawned : f \in batch' \cup spawned' \cup emitted'
               /\ BatchFirst'
               /\ \A f \in spawned' \ spawned : ~kind[f].timeline
               /\ \A f \in routed' \ routed : ~kind[f].timeline
    BY <2>3 DEF Emit, Spawn, OrderInv, BatchFirst
  <2>4. ASSUME NEW e \in Events, RouteSpawned(e) \/ EmitSpawned(e)
        PROVE  /\ emitted \subseteq emitted' /\ batch' \subseteq batch
               /\ \A f \in batch \cup spawned : f \in batch' \cup spawned' \cup emitted'
               /\ BatchFirst'
               /\ \A f \in spawned' \ spawned : ~kind[f].timeline
               /\ \A f \in routed' \ routed : ~kind[f].timeline
    BY <2>4 DEF RouteSpawned, EmitSpawned, OrderInv, BatchFirst, ControlSpawned
  <2> QED
    BY <2>1, <2>2, <2>3, <2>4
<1>3. Returned' /\ Ordered'
  BY <1>1, <1>2 DEF OrderInv, Returned, Ordered
<1>4. ControlSpawned'
  BY <1>1, <1>2 DEF OrderInv, ControlSpawned
<1>5. Kept'
  BY <1>1, <1>2 DEF OrderInv, Kept, Holds
<1>6. OvertakenOnlyByUrgent'
  BY <1>1, <1>2, SameDelivery DEF OrderInv
<1> QED
  BY <1>2, <1>3, <1>4, <1>5, <1>6 DEF OrderInv

\* A timeline event overtakes only less urgent ones: neither the subscribers
\* nor the transport get it before an earlier one, as urgent as it, that was
\* not dropped.
THEOREM UrgentOnlyOvertakes == Spec => []OvertakenOnlyByUrgent
<1>1. Init => OrderInv
  <2> SUFFICES ASSUME Init PROVE OrderInv
    OBVIOUS
  <2>1. 0 .. sequence - 1 = {} /\ queue = {} /\ batch = {} /\ spawned = {} /\ routed = {}
    BY DEF Init
  <2> QED
    BY <2>1 DEF OrderInv, Returned, Kept, ControlSpawned, BatchFirst, Ordered,
                OvertakenOnlyByUrgent
<1>2. TypeOK /\ OrderInv /\ [Next]_vars => OrderInv'
  BY OrderCreate, OrderEnqueue, OrderDequeue, OrderRoute, OrderOther DEF Next, Loop, Rest
<1>3. OrderInv => OvertakenOnlyByUrgent
  BY DEF OrderInv
<1> QED
  BY <1>1, <1>2, <1>3, EventTypeCorrect, PTL DEF Spec
=============================================================================
