------------------------- MODULE DialogQueueProofs -------------------------
(* What holds of DialogQueue for every set of messages, priorities, tasks  *)
(* and every depth limit.                                                  *)
EXTENDS DialogQueue, QueuePriorityProofs, FiniteSetTheorems, SequenceTheorems, TLAPS

\* Moving the message at the back keeps the messages and their number.
LEMMA ReorderBackElements ==
    ASSUME NEW q \in Seq(Messages)
    PROVE  /\ ReorderBack(q) \in Seq(Messages)
           /\ Len(ReorderBack(q)) = Len(q)
           /\ ToSet(ReorderBack(q)) = ToSet(q)
           /\ IsInjective(q) => IsInjective(ReorderBack(q))
<1>1. CASE q = <<>>
  BY <1>1 DEF ReorderBack
<1>2. CASE q # <<>>
  <2> DEFINE f == Front(q)
             z == Last(q)
  <2>1. /\ f \in Seq(Messages) /\ z \in Messages
        /\ Len(f) = Len(q) - 1 /\ Len(q) \in Nat \ {0}
        /\ \A i \in 1..Len(q) - 1 : f[i] = q[i]
        /\ z = q[Len(q)]
    BY <1>2, FrontProperties
  <2>2. ReorderBack(q) = Insert(f, z)
    BY <1>2 DEF ReorderBack
  <2> HIDE DEF f, z
  <2>3. \A x : x \in ToSet(q) <=> x \in ToSet(f) \/ x = z
    BY <2>1, Elements
  <2>4. IsInjective(q) => IsInjective(f) /\ z \notin ToSet(f)
    BY <2>1, Elements
  <2>5. /\ Insert(f, z) \in Seq(Messages)
        /\ Len(Insert(f, z)) = Len(f) + 1
        /\ ToSet(Insert(f, z)) = ToSet(f) \cup {z}
        /\ IsInjective(f) /\ z \notin ToSet(f) => IsInjective(Insert(f, z))
    BY <2>1, InsertElements, InsertProperties
  <2> QED
    BY <2>1, <2>2, <2>3, <2>4, <2>5
<1> QED
  BY <1>1, <1>2
-----------------------------------------------------------------------------
\* What one task is in the middle of, and what the others keep.
LEMMA OpUpdate ==
    ASSUME TypeOK, NEW p \in Procs, NEW v \in Ops, op' = [op EXCEPT ![p] = v]
    PROVE  /\ op' \in [Procs -> Ops]
           /\ op'[p] = v
           /\ \A r \in Procs : r # p => op'[r] = op[r]
BY DEF TypeOK

\* A task that is not at rest handles a message.
LEMMA OpMessage ==
    ASSUME TypeOK, NEW p \in Procs
    PROVE  /\ op[p].pc \in {"rest", "push", "reorder", "start"}
           /\ op[p].pc # "rest" => op[p].msg \in Messages
           /\ op[p].pc = "rest" => op[p] = Resting
BY DEF TypeOK, Ops, Resting

\* Type correctness: the queue holds messages and every task is at one of the
\* points where enqueue, try_start_next_queued and clear_queue take the lock.
THEOREM TypeCorrect == Spec => []TypeOK
<1>1. Init => TypeOK
  <2> SUFFICES ASSUME Init PROVE TypeOK
    OBVIOUS
  <2>1. queue \in Seq(Messages)
    BY EmptySeq DEF Init
  <2>2. op \in [Procs -> Ops]
    BY Zenon DEF Init, Ops
  <2> QED
    BY <2>1, <2>2 DEF Init, TypeOK
<1>2. TypeOK /\ [Next]_vars => TypeOK'
  <2> SUFFICES ASSUME TypeOK, [Next]_vars PROVE TypeOK'
    OBVIOUS
  <2> USE DEF TypeOK, At
  <2>1. ASSUME NEW p \in Procs, CheckDepth(p) PROVE TypeOK'
    BY <2>1 DEF CheckDepth, Ops
  <2>2. ASSUME NEW p \in Procs, Reject(p) PROVE TypeOK'
    BY <2>2 DEF Reject
  <2>3. ASSUME NEW p \in Procs, PushBack(p) PROVE TypeOK'
    <3>1. op[p].msg \in Messages
      BY <2>3, OpMessage DEF PushBack
    <3> QED
      BY <2>3, <3>1 DEF PushBack, NoteOverlap, Ops
  <2>4. ASSUME NEW p \in Procs, Reorder(p) PROVE TypeOK'
    BY <2>4, ReorderBackElements DEF Reorder, Ops, ForgetWhenUnused
  <2>5. ASSUME NEW p \in Procs, Dequeue(p) PROVE TypeOK'
    <3>1. Head(queue) \in Messages /\ Tail(queue) \in Seq(Messages)
      BY <2>5 DEF Dequeue
    <3> QED
      BY <2>5, <3>1 DEF Dequeue, NoteOverlap, Ops
  <2>6. ASSUME NEW p \in Procs, Started(p) PROVE TypeOK'
    BY <2>6, OpMessage DEF Started, ForgetWhenUnused, Ops
  <2>7. ASSUME NEW p \in Procs, RequeueFront(p) PROVE TypeOK'
    <3>1. op[p].msg \in Messages
      BY <2>7, OpMessage DEF RequeueFront
    <3> QED
      BY <2>7, <3>1 DEF RequeueFront, Ops
  <2>8. ASSUME NEW p \in Procs, Clear(p) PROVE TypeOK'
    BY <2>8, Elements DEF Clear, ForgetWhenUnused
  <2>9. CASE UNCHANGED vars
    BY <2>9 DEF vars
  <2> QED
    BY <2>1, <2>2, <2>3, <2>4, <2>5, <2>6, <2>7, <2>8, <2>9 DEF Next, Step, Done
<1> QED
  BY <1>1, <1>2, PTL DEF Spec
-----------------------------------------------------------------------------
\* Every message out of the queue but on its way into it counts as an entry:
\* the entries exceed the limit by less than the number of tasks.
OverrunInv ==
    Len(queue) + Cardinality(Busy) <= MaxQueueDepth - 1 + Cardinality(Procs)

LEMMA BusyCardinality ==
    IsFiniteSet(Busy) /\ Cardinality(Busy) \in Nat /\ Cardinality(Busy) <= Cardinality(Procs)
    /\ Cardinality(Procs) \in Nat
BY QueueAssumption, PriorityAssumption, FS_Subset, FS_CardinalityType DEF Busy, Holding

\* A task joins, leaves or stays in Busy.
LEMMA BusyUpdate ==
    ASSUME TypeOK, NEW p \in Procs
    PROVE  /\ p \in Busy <=> op[p].pc \in {"push", "start"}
           /\ op' = [op EXCEPT ![p] = Resting] => Busy' = Busy \ {p}
           /\ \A m \in Messages :
                /\ op' = [op EXCEPT ![p] = [pc |-> "reorder", msg |-> m]] => Busy' = Busy \ {p}
                /\ op' = [op EXCEPT ![p] = [pc |-> "push", msg |-> m]] => Busy' = Busy \cup {p}
                /\ op' = [op EXCEPT ![p] = [pc |-> "start", msg |-> m]] => Busy' = Busy \cup {p}
<1> USE DEF Busy, Holding, At
<1>1. p \in Busy <=> op[p].pc \in {"push", "start"}
  OBVIOUS
<1>2. ASSUME NEW v \in Ops, op' = [op EXCEPT ![p] = v]
      PROVE  /\ v.pc \in {"push", "start"} => Busy' = Busy \cup {p}
             /\ v.pc \notin {"push", "start"} => Busy' = Busy \ {p}
  BY <1>2, OpUpdate
<1>3. /\ Resting \in Ops /\ Resting.pc = "rest"
      /\ \A m \in Messages, c \in {"push", "reorder", "start"} :
           [pc |-> c, msg |-> m] \in Ops /\ [pc |-> c, msg |-> m].pc = c
  BY DEF Ops, Resting
<1> HIDE DEF Busy
<1> QED
  BY <1>1, <1>2, <1>3

\* The depth limit is overrun by less than the number of concurrent tasks.
THEOREM OverrunIsBounded == Spec => []OverrunBounded
<1>1. Init => OverrunInv
  <2> SUFFICES ASSUME Init PROVE OverrunInv
    OBVIOUS
  <2>1. Busy = {}
    BY DEF Init, Busy, Holding, At, Resting
  <2> QED
    BY <2>1, FS_EmptySet, BusyCardinality, QueueAssumption, PriorityAssumption, EmptySeq DEF Init, OverrunInv
<1>2. TypeOK /\ OverrunInv /\ [Next]_vars => OverrunInv'
  <2> SUFFICES ASSUME TypeOK, OverrunInv, [Next]_vars PROVE OverrunInv'
    OBVIOUS
  <2> USE QueueAssumption, PriorityAssumption, BusyCardinality DEF OverrunInv
  <2>0. Len(queue) \in Nat /\ queue \in Seq(Messages) /\ op \in [Procs -> Ops]
    BY DEF TypeOK
  <2>1. ASSUME NEW p \in Procs, CheckDepth(p) PROVE OverrunInv'
    <3>1. PICK m \in Messages : op' = [op EXCEPT ![p] = [pc |-> "push", msg |-> m]]
      BY <2>1 DEF CheckDepth, TypeOK
    <3>2. Busy' = Busy \cup {p} /\ Busy' \subseteq Procs
      BY <3>1, BusyUpdate DEF Busy, Holding
    <3>3. Cardinality(Busy') <= Cardinality(Procs) /\ Cardinality(Busy') \in Nat
      BY <3>2, FS_Subset, FS_CardinalityType
    <3> QED
      BY <2>0, <2>1, <3>3 DEF CheckDepth
  <2>2. ASSUME NEW p \in Procs, PushBack(p) PROVE OverrunInv'
    <3>1. p \in Busy /\ Busy' = Busy \ {p}
      BY <2>2, OpMessage, BusyUpdate DEF PushBack, At
    <3>2. Cardinality(Busy') = Cardinality(Busy) - 1
      BY <3>1, FS_RemoveElement
    <3>3. Len(queue') = Len(queue) + 1
      BY <2>0, <2>2 DEF PushBack
    <3> QED
      BY <2>0, <3>2, <3>3
  <2>3. ASSUME NEW p \in Procs, Reorder(p) PROVE OverrunInv'
    <3>1. p \notin Busy /\ Busy' = Busy \ {p}
      BY <2>3, BusyUpdate DEF Reorder, At
    <3>2. Busy' = Busy /\ Len(queue') = Len(queue)
      BY <2>0, <2>3, <3>1, ReorderBackElements DEF Reorder
    <3> QED
      BY <3>2
  <2>4. ASSUME NEW p \in Procs, Dequeue(p) PROVE OverrunInv'
    <3>1. p \notin Busy /\ Busy' = Busy \cup {p}
      <4>1. Head(queue) \in Messages
        BY <2>0, <2>4 DEF Dequeue
      <4> QED
        BY <2>4, <4>1, BusyUpdate DEF Dequeue, At
    <3>2. Cardinality(Busy') = Cardinality(Busy) + 1
      BY <3>1, FS_AddElement
    <3>3. Len(queue') = Len(queue) - 1
      BY <2>0, <2>4 DEF Dequeue
    <3> QED
      BY <2>0, <3>2, <3>3
  <2>5. ASSUME NEW p \in Procs, Started(p) PROVE OverrunInv'
    <3>1. p \in Busy /\ Busy' = Busy \ {p} /\ queue' = queue
      BY <2>5, BusyUpdate DEF Started, At
    <3>2. Cardinality(Busy') = Cardinality(Busy) - 1
      BY <3>1, FS_RemoveElement
    <3> QED
      BY <2>0, <3>1, <3>2
  <2>6. ASSUME NEW p \in Procs, RequeueFront(p) PROVE OverrunInv'
    <3>1. p \in Busy /\ Busy' = Busy \ {p} /\ op[p].msg \in Messages
      BY <2>6, OpMessage, BusyUpdate DEF RequeueFront, At
    <3>2. Cardinality(Busy') = Cardinality(Busy) - 1
      BY <3>1, FS_RemoveElement
    <3>3. Len(queue') = Len(queue) + 1
      BY <2>0, <2>6, <3>1 DEF RequeueFront
    <3> QED
      BY <2>0, <3>2, <3>3
  <2>7. ASSUME NEW p \in Procs, Clear(p) PROVE OverrunInv'
    BY <2>0, <2>7, EmptySeq DEF Clear, Busy, Holding, At
  <2>8. ASSUME UNCHANGED <<queue, op>> PROVE OverrunInv'
    BY <2>8 DEF Busy, Holding, At
  <2> QED
    BY <2>1, <2>2, <2>3, <2>4, <2>5, <2>6, <2>7, <2>8 DEF Next, Step, Done, Reject, vars
<1>3. TypeOK /\ OverrunInv => OverrunBounded
  BY BusyCardinality, QueueAssumption, PriorityAssumption DEF TypeOK, OverrunInv, OverrunBounded
<1> QED
  BY <1>1, <1>2, <1>3, TypeCorrect, PTL DEF Spec
-----------------------------------------------------------------------------

\* The messages held by tasks when a task takes one or lets go of it.
LEMMA HeldUpdate ==
    ASSUME TypeOK, NEW p \in Procs, \A r, s \in Busy : r # s => op[r].msg # op[s].msg
    PROVE  /\ \A m \in Messages, c \in {"push", "start"} :
                p \notin Busy /\ op' = [op EXCEPT ![p] = [pc |-> c, msg |-> m]] /\ m \notin Held
                => /\ Held' = Held \cup {m}
                   /\ \A r, s \in Busy' : r # s => op'[r].msg # op'[s].msg
           /\ \A v \in Ops :
                p \in Busy /\ op' = [op EXCEPT ![p] = v] /\ v.pc \in {"rest", "reorder"}
                => /\ Held' = Held \ {op[p].msg} /\ op[p].msg \in Held
                   /\ \A r, s \in Busy' : r # s => op'[r].msg # op'[s].msg
<1>1. ASSUME NEW m \in Messages, NEW c \in {"push", "start"},
             p \notin Busy, op' = [op EXCEPT ![p] = [pc |-> c, msg |-> m]], m \notin Held
      PROVE  /\ Held' = Held \cup {m}
             /\ \A r, s \in Busy' : r # s => op'[r].msg # op'[s].msg
  <2>1. Busy' = Busy \cup {p} /\ Busy \subseteq Procs
    BY <1>1, BusyUpdate DEF Busy, Holding
  <2>2. op'[p].msg = m /\ \A r \in Busy : op'[r] = op[r]
    BY <1>1, <2>1 DEF TypeOK
  <2> QED
    BY <1>1, <2>1, <2>2 DEF Held
<1>2. ASSUME NEW v \in Ops, p \in Busy, op' = [op EXCEPT ![p] = v], v.pc \in {"rest", "reorder"}
      PROVE  /\ Held' = Held \ {op[p].msg} /\ op[p].msg \in Held
             /\ \A r, s \in Busy' : r # s => op'[r].msg # op'[s].msg
  <2>1. Busy' = Busy \ {p} /\ Busy \subseteq Procs
    BY <1>2, OpUpdate DEF Busy, Holding, At
  <2>2. \A r \in Busy' : op'[r] = op[r]
    BY <1>2, <2>1 DEF TypeOK
  <2> QED
    BY <1>2, <2>1, <2>2 DEF Held
<1> QED
  BY <1>1, <1>2
-----------------------------------------------------------------------------
\* However the locks of concurrent calls interleave, a submitted message is in
\* exactly one place, once.
THEOREM NothingLostOrDoubled == Spec => []NoLossNoDuplicate
<1>1. Init => NoLossNoDuplicate
  <2> SUFFICES ASSUME Init PROVE NoLossNoDuplicate
    OBVIOUS
  <2>1. Busy = {} /\ Held = {}
    BY DEF Init, Busy, Held, Holding, At, Resting
  <2>2. ToSet(queue) = {} /\ IsInjective(queue)
    BY EmptyElements DEF Init
  <2> QED
    BY <2>1, <2>2 DEF Init, NoLossNoDuplicate
<1>2. TypeOK /\ NoLossNoDuplicate /\ [Next]_vars => NoLossNoDuplicate'
  <2> SUFFICES ASSUME TypeOK, NoLossNoDuplicate, [Next]_vars PROVE NoLossNoDuplicate'
    OBVIOUS
  <2> USE DEF NoLossNoDuplicate
  <2>0. /\ queue \in Seq(Messages) /\ op \in [Procs -> Ops] /\ IsInjective(queue)
        /\ \A r, s \in Busy : r # s => op[r].msg # op[s].msg
        /\ Resting \in Ops /\ Resting.pc = "rest"
    BY DEF TypeOK, Ops, Resting
  <2>1. ASSUME NEW p \in Procs, CheckDepth(p) PROVE NoLossNoDuplicate'
    <3>1. PICK m \in fresh : /\ op' = [op EXCEPT ![p] = [pc |-> "push", msg |-> m]]
                             /\ fresh' = fresh \ {m}
      BY <2>1 DEF CheckDepth
    <3>2. m \in Messages /\ m \notin Held /\ p \notin Busy
      BY <2>1, BusyUpdate DEF CheckDepth, At, TypeOK
    <3>3. /\ Held' = Held \cup {m}
          /\ \A r, s \in Busy' : r # s => op'[r].msg # op'[s].msg
      BY <2>0, <3>1, <3>2, HeldUpdate
    <3> QED
      BY <2>1, <3>1, <3>2, <3>3 DEF CheckDepth
  <2>2. ASSUME NEW p \in Procs, Reject(p) PROVE NoLossNoDuplicate'
    BY <2>2 DEF Reject, TypeOK, Held, Busy, Holding, At
  <2>3. ASSUME NEW p \in Procs, PushBack(p) PROVE NoLossNoDuplicate'
    <3> DEFINE m == op[p].msg
               v == [pc |-> "reorder", msg |-> m]
    <3>1. m \in Messages /\ p \in Busy /\ v \in Ops /\ v.pc = "reorder"
      BY <2>3, OpMessage, BusyUpdate DEF PushBack, At, Ops
    <3>2. /\ Held' = Held \ {m} /\ m \in Held
          /\ \A r, s \in Busy' : r # s => op'[r].msg # op'[s].msg
      BY <2>0, <2>3, <3>1, HeldUpdate DEF PushBack
    <3>3. ToSet(queue') = ToSet(queue) \cup {m} /\ IsInjective(queue')
      BY <2>0, <2>3, <3>1, <3>2, AppendElements DEF PushBack
    <3> HIDE DEF m, v
    <3> QED
      BY <2>3, <3>1, <3>2, <3>3 DEF PushBack
  <2>4. ASSUME NEW p \in Procs, Reorder(p) PROVE NoLossNoDuplicate'
    <3>1. ToSet(queue') = ToSet(queue) /\ IsInjective(queue')
      BY <2>0, <2>4, ReorderBackElements DEF Reorder
    <3>2. Busy' = Busy /\ p \notin Busy /\ \A r \in Busy : op'[r] = op[r]
      BY <2>0, <2>4, BusyUpdate DEF Reorder, At, Busy, Holding
    <3>3. Held' = Held /\ \A r, s \in Busy' : r # s => op'[r].msg # op'[s].msg
      BY <2>0, <3>2 DEF Held
    <3> QED
      BY <2>4, <3>1, <3>3 DEF Reorder
  <2>5. ASSUME NEW p \in Procs, Dequeue(p) PROVE NoLossNoDuplicate'
    <3> DEFINE m == Head(queue)
    <3>1. /\ m \in Messages /\ m \in ToSet(queue)
          /\ ToSet(queue') = ToSet(queue) \ {m} /\ IsInjective(queue')
      BY <2>0, <2>5, TailElements DEF Dequeue
    <3>2. m \notin Held /\ p \notin Busy
      BY <2>5, <3>1, BusyUpdate DEF Dequeue, At
    <3>3. /\ Held' = Held \cup {m}
          /\ \A r, s \in Busy' : r # s => op'[r].msg # op'[s].msg
      BY <2>0, <2>5, <3>1, <3>2, HeldUpdate DEF Dequeue
    <3> HIDE DEF m
    <3> QED
      BY <2>5, <3>1, <3>2, <3>3 DEF Dequeue
  <2>6. ASSUME NEW p \in Procs, Started(p) PROVE NoLossNoDuplicate'
    <3>1. p \in Busy
      BY <2>6, BusyUpdate DEF Started, At
    <3>2. /\ Held' = Held \ {op[p].msg} /\ op[p].msg \in Held
          /\ \A r, s \in Busy' : r # s => op'[r].msg # op'[s].msg
      BY <2>0, <2>6, <3>1, HeldUpdate DEF Started
    <3> QED
      BY <2>6, <3>2 DEF Started
  <2>7. ASSUME NEW p \in Procs, RequeueFront(p) PROVE NoLossNoDuplicate'
    <3> DEFINE m == op[p].msg
    <3>1. p \in Busy /\ m \in Messages
      BY <2>7, OpMessage, BusyUpdate DEF RequeueFront, At
    <3>2. /\ Held' = Held \ {m} /\ m \in Held
          /\ \A r, s \in Busy' : r # s => op'[r].msg # op'[s].msg
      BY <2>0, <2>7, <3>1, HeldUpdate DEF RequeueFront
    <3>3. ToSet(queue') = ToSet(queue) \cup {m} /\ IsInjective(queue')
      BY <2>0, <2>7, <3>1, <3>2, ConsElements DEF RequeueFront
    <3> HIDE DEF m
    <3> QED
      BY <2>7, <3>1, <3>2, <3>3 DEF RequeueFront
  <2>8. ASSUME NEW p \in Procs, Clear(p) PROVE NoLossNoDuplicate'
    <3>1. ToSet(queue') = {} /\ IsInjective(queue')
      BY <2>8, EmptyElements DEF Clear
    <3>2. Busy' = Busy /\ Held' = Held /\ op' = op
      BY <2>8 DEF Clear, Busy, Held, Holding, At
    <3> QED
      BY <2>8, <3>1, <3>2 DEF Clear
  <2>9. CASE UNCHANGED vars
    BY <2>9 DEF vars, Busy, Held, Holding, At
  <2> QED
    BY <2>1, <2>2, <2>3, <2>4, <2>5, <2>6, <2>7, <2>8, <2>9 DEF Next, Step, Done
<1> QED
  BY <1>1, <1>2, TypeCorrect, PTL DEF Spec
-----------------------------------------------------------------------------
Sorted(q) == \A i, j \in 1..Len(q) : i < j => Precedes(q[i], q[j])

\* Inserting the newest message into an ordered queue leaves it ordered.
LEMMA InsertSorted ==
    ASSUME TypeOK, NEW q \in Seq(Messages), NEW m \in Messages, Sorted(q),
           \A i \in 1..Len(q) : stamp[q[i]] < stamp[m]
    PROVE  Sorted(Insert(q, m))
<1> DEFINE k == InsertPos(q, m)
           r == Insert(q, m)
<1>1. /\ k \in 1..Len(q) + 1 /\ Len(q) \in Nat
      /\ \A i \in 1..k - 1 : ~(Priority[q[i]] < Priority[m])
      /\ k \in 1..Len(q) => Priority[q[k]] < Priority[m]
  BY InsertPosProperties
<1>2. /\ r \in Seq(Messages) /\ Len(r) = Len(q) + 1
      /\ \A i \in 1..Len(q) + 1 : r[i] = IF i < k THEN q[i] ELSE IF i = k THEN m ELSE q[i - 1]
  BY InsertProperties
<1>3. /\ \A i \in 1..Len(q) : Priority[q[i]] \in Nat /\ stamp[q[i]] \in Nat
      /\ Priority[m] \in Nat /\ stamp[m] \in Nat
  BY Elements, QueueAssumption, PriorityAssumption DEF TypeOK
<1> HIDE DEF k, r
<1>4. ASSUME NEW i \in 1..Len(q) + 1, NEW j \in 1..Len(q) + 1, i < j
      PROVE  Precedes(r[i], r[j])
  <2>1. CASE j < k
    <3>1. r[i] = q[i] /\ r[j] = q[j] /\ i \in 1..Len(q) /\ j \in 1..Len(q)
      BY <1>1, <1>2, <1>4, <2>1
    <3> QED
      BY <1>4, <3>1 DEF Sorted
  <2>2. CASE j = k
    <3>1. r[i] = q[i] /\ r[j] = m /\ i \in 1..k - 1 /\ i \in 1..Len(q)
      BY <1>1, <1>2, <1>4, <2>2
    <3> QED
      BY <1>1, <1>3, <3>1 DEF Precedes
  <2>3. CASE i = k
    <3>1. r[i] = m /\ r[j] = q[j - 1] /\ k \in 1..Len(q) /\ j - 1 \in 1..Len(q) /\ k <= j - 1
      BY <1>1, <1>2, <1>4, <2>3
    <3>2. Priority[q[j - 1]] <= Priority[q[k]]
      <4>1. CASE k = j - 1
        BY <1>3, <3>1, <4>1
      <4>2. CASE k < j - 1
        <5>1. Precedes(q[k], q[j - 1])
          BY <3>1, <4>2 DEF Sorted
        <5> QED
          BY <1>3, <3>1, <5>1 DEF Precedes
      <4> QED
        BY <1>1, <1>4, <3>1, <4>1, <4>2
    <3> QED
      BY <1>1, <1>3, <3>1, <3>2 DEF Precedes
  <2>4. CASE i < k /\ k < j
    <3>1. r[i] = q[i] /\ r[j] = q[j - 1] /\ i \in 1..Len(q) /\ j - 1 \in 1..Len(q) /\ i < j - 1
      BY <1>1, <1>2, <1>4, <2>4
    <3> QED
      BY <3>1 DEF Sorted
  <2>5. CASE k < i
    <3>1. r[i] = q[i - 1] /\ r[j] = q[j - 1] /\ i - 1 \in 1..Len(q) /\ j - 1 \in 1..Len(q)
      BY <1>1, <1>2, <1>4, <2>5
    <3> QED
      BY <1>4, <3>1 DEF Sorted
  <2> QED
    BY <1>1, <1>4, <2>1, <2>2, <2>3, <2>4, <2>5
<1> QED
  BY <1>2, <1>4 DEF Sorted, r
-----------------------------------------------------------------------------
\* Every arrival number was handed out.
StampInv == \A m \in Messages : stamp[m] <= clock

\* Without overlaps one task at a time is between two accesses, and a message
\* about to be moved to its place is the newest of the queue.
SerialInv ==
    ~raced =>
      /\ \A p, r \in Procs : InMiddle(p) /\ InMiddle(r) => p = r
      /\ Holding("reorder") # {} =>
           \A i \in 1..Len(queue) - 1 : stamp[queue[i]] < stamp[queue[Len(queue)]]

\* The order of the settled messages, by position.
SettledLen == IF Holding("reorder") = {} THEN Len(queue) ELSE Len(queue) - 1

OrderInv ==
    ~raced =>
      /\ \A i, j \in 1..SettledLen : i < j => Precedes(queue[i], queue[j])
      /\ \A p \in Holding("start"), i \in 1..Len(queue) : Precedes(op[p].msg, queue[i])

OrderFacts == StampInv /\ SerialInv /\ OrderInv

LEMMA OrderFromPositions ==
    ASSUME TypeOK, OrderInv
    PROVE  OrderedUnlessRaced
<1>1. queue \in Seq(Messages) /\ DOMAIN queue = 1..Len(queue) /\ Len(queue) \in Nat
  BY DEF TypeOK
<1>2. CASE Holding("reorder") = {} \/ queue = <<>>
  <2>1. Front(<<>>) = <<>>
    BY DEF Front
  <2>2. Settled = queue /\ (queue # <<>> => SettledLen = Len(queue))
    BY <1>2, <2>1 DEF Settled, SettledLen
  <2> QED
    BY <1>1, <2>2 DEF OrderInv, OrderedUnlessRaced
<1>3. CASE Holding("reorder") # {} /\ queue # <<>>
  <2> DEFINE f == Front(queue)
  <2>1. /\ f \in Seq(Messages) /\ Len(f) = Len(queue) - 1
        /\ \A i \in 1..Len(queue) - 1 : f[i] = queue[i]
    BY <1>1, <1>3, FrontProperties
  <2>2. Settled = f /\ SettledLen = Len(queue) - 1
    BY <1>3 DEF Settled, SettledLen
  <2> HIDE DEF f
  <2>3. DOMAIN f = 1..Len(queue) - 1
    BY <2>1
  <2> QED
    BY <1>1, <2>1, <2>2, <2>3 DEF OrderInv, OrderedUnlessRaced
<1> QED
  BY <1>2, <1>3

\* An operation that leaves the queue empty and nobody between two accesses,
\* or that nobody is between two accesses after, has little left to show.
LEMMA OrderWhenAlone ==
    ASSUME TypeOK', StampInv', \A r \in Procs : ~InMiddle(r)',
           ~raced' => (\A i, j \in 1..Len(queue) : i < j => Precedes(queue[i], queue[j]))'
    PROVE  OrderFacts'
<1>1. (Holding("reorder") = {})' /\ (Holding("start") = {})'
  BY DEF Holding, InMiddle, At
<1> QED
  BY <1>1 DEF OrderFacts, SerialInv, OrderInv, SettledLen
-----------------------------------------------------------------------------
\* The queue is ordered by priority and arrival until operations overlap.
THEOREM OrderHoldsUnlessRaced == Spec => []OrderedUnlessRaced
<1>1. Init => OrderFacts
  <2> SUFFICES ASSUME Init PROVE OrderFacts
    OBVIOUS
  <2>1. Len(queue) = 0 /\ Holding("reorder") = {} /\ Holding("start") = {}
    BY EmptySeq DEF Init, Holding, At, Resting
  <2>2. \A p \in Procs : ~InMiddle(p)
    BY DEF Init, InMiddle, Resting
  <2> QED
    BY <2>1, <2>2 DEF Init, OrderFacts, StampInv, SerialInv, OrderInv, SettledLen
<1>2. TypeOK /\ TypeOK' /\ NoLossNoDuplicate /\ OrderFacts /\ [Next]_vars => OrderFacts'
  <2> SUFFICES ASSUME TypeOK, TypeOK', NoLossNoDuplicate, OrderFacts, [Next]_vars
               PROVE  OrderFacts'
    OBVIOUS
  <2>0. /\ queue \in Seq(Messages) /\ Len(queue) \in Nat /\ op \in [Procs -> Ops]
        /\ queue' \in Seq(Messages) /\ Len(queue') \in Nat
        /\ \A i \in 1..Len(queue) : queue[i] \in Messages
        /\ clock \in Nat /\ stamp \in [Messages -> Nat] /\ raced \in BOOLEAN /\ raced' \in BOOLEAN
    BY DEF TypeOK
  <2>1. ASSUME queue' = queue, clock' = clock, stamp' = stamp, raced' = raced,
               \A r \in Procs : op'[r] = op[r] \/ (~InMiddle(r) /\ ~InMiddle(r)')
        PROVE  OrderFacts'
    <3>1. Holding("reorder")' = Holding("reorder") /\ Holding("start")' = Holding("start")
      BY <2>1 DEF Holding, At, InMiddle
    <3>2. \A r \in Holding("start") : op'[r] = op[r]
      BY <2>1 DEF Holding, At, InMiddle
    <3>3. \A r \in Procs : InMiddle(r)' <=> InMiddle(r)
      BY <2>1 DEF InMiddle
    <3> QED
      BY <2>1, <3>1, <3>2, <3>3 DEF OrderFacts, StampInv, SerialInv, OrderInv, SettledLen, Precedes
  <2>2. ASSUME NEW p \in Procs, PushBack(p) PROVE OrderFacts'
    <3> DEFINE m == op[p].msg
    <3>1. /\ m \in Messages /\ m \in Held /\ m \notin ToSet(queue)
          /\ op' = [op EXCEPT ![p] = [pc |-> "reorder", msg |-> m]] /\ op[p].pc = "push"
          /\ queue' = Append(queue, m)
          /\ clock' = clock + 1 /\ stamp' = [stamp EXCEPT ![m] = clock + 1]
          /\ raced' = (raced \/ \E o \in Procs \ {p} : InMiddle(o))
      BY <2>2, OpMessage, BusyUpdate DEF PushBack, At, NoLossNoDuplicate, Held, NoteOverlap
    <3> HIDE DEF m
    <3>2. /\ Len(queue') = Len(queue) + 1 /\ queue'[Len(queue) + 1] = m
          /\ \A i \in 1..Len(queue) : queue'[i] = queue[i]
      BY <2>0, <3>1
    <3>3. \A i \in 1..Len(queue) : stamp'[queue[i]] = stamp[queue[i]]
      BY <2>0, <3>1, Elements
    <3>4. StampInv'
      BY <2>0, <3>1 DEF OrderFacts, StampInv
    <3>5. ASSUME ~raced' PROVE ~raced /\ \A o \in Procs : ~InMiddle(o)
      BY <2>0, <3>1, <3>5 DEF InMiddle
    <3>6. ASSUME ~raced' PROVE /\ \A r \in Procs : InMiddle(r)' <=> r = p
                               /\ Holding("reorder")' # {} /\ Holding("start")' = {}
                               /\ Holding("reorder") = {}
      BY <2>0, <3>1, <3>5, <3>6 DEF InMiddle, Holding, At
    <3>7. SerialInv'
      <4>1. \A i \in 1..Len(queue) : stamp'[queue'[i]] < stamp'[queue'[Len(queue')]]
        BY <2>0, <3>1, <3>2, <3>3 DEF OrderFacts, StampInv
      <4> QED
        BY <2>0, <3>2, <3>6, <4>1 DEF SerialInv
    <3>8. OrderInv'
      <4> SUFFICES ASSUME ~raced', NEW i \in 1..Len(queue), NEW j \in 1..Len(queue), i < j
                   PROVE  Precedes(queue[i], queue[j])'
        BY <2>0, <3>2, <3>6 DEF OrderInv, SettledLen
      <4>1. Precedes(queue[i], queue[j])
        BY <3>5, <3>6 DEF OrderFacts, OrderInv, SettledLen
      <4> QED
        BY <3>2, <3>3, <4>1 DEF Precedes
    <3> QED
      BY <3>4, <3>7, <3>8 DEF OrderFacts
  <2>3. ASSUME NEW p \in Procs, Reorder(p) PROVE OrderFacts'
    <3>1. /\ op' = [op EXCEPT ![p] = Resting] /\ op[p].pc = "reorder" /\ InMiddle(p)
          /\ queue' = ReorderBack(queue) /\ UNCHANGED <<clock, stamp>>
          /\ p \in Holding("reorder")
          /\ raced' = (raced /\ ~(queue' = <<>> /\ \A o \in Procs : ~InMiddle(o)'))
      BY <2>3 DEF Reorder, At, InMiddle, Holding, ForgetWhenUnused
    <3>2. StampInv'
      BY <3>1 DEF OrderFacts, StampInv
    <3>3. CASE ~raced
      <4>1. \A r \in Procs : ~InMiddle(r)'
        BY <2>0, <3>1, <3>3 DEF OrderFacts, SerialInv, InMiddle, Resting
      <4>2. CASE queue = <<>>
        <5>1. Len(queue') = 0
          BY <3>1, <4>2 DEF ReorderBack
        <5> QED
          BY <3>2, <4>1, <5>1, OrderWhenAlone
      <4>3. CASE queue # <<>>
        <5> DEFINE f == Front(queue)
                   z == Last(queue)
        <5>1. /\ f \in Seq(Messages) /\ z \in Messages /\ Len(queue) \in Nat \ {0}
              /\ Len(f) = Len(queue) - 1 /\ z = queue[Len(queue)]
              /\ \A i \in 1..Len(queue) - 1 : f[i] = queue[i]
          BY <2>0, <4>3, FrontProperties
        <5>2. queue' = Insert(f, z)
          BY <3>1, <4>3 DEF ReorderBack
        <5> HIDE DEF f, z
        <5>3. Sorted(f)
          BY <3>1, <3>3, <5>1 DEF OrderFacts, OrderInv, SettledLen, Sorted
        <5>4. \A i \in 1..Len(f) : stamp[f[i]] < stamp[z]
          BY <3>1, <3>3, <5>1 DEF OrderFacts, SerialInv
        <5>5. Sorted(queue')
          BY <5>1, <5>2, <5>3, <5>4, InsertSorted
        <5>6. (\A i, j \in 1..Len(queue) : i < j => Precedes(queue[i], queue[j]))'
          BY <3>1, <5>5 DEF Sorted, Precedes
        <5> QED
          BY <3>2, <4>1, <5>6, OrderWhenAlone
      <4> QED
        BY <4>2, <4>3
    <3>4. CASE raced
      <4>1. ~raced' => Len(queue') = 0 /\ \A r \in Procs : ~InMiddle(r)'
        BY <3>1, <3>4, EmptySeq
      <4>2. CASE raced'
        BY <3>2, <4>2 DEF OrderFacts, SerialInv, OrderInv
      <4>3. CASE ~raced'
        BY <3>2, <4>1, <4>3, OrderWhenAlone
      <4> QED
        BY <4>2, <4>3
    <3> QED
      BY <2>0, <3>3, <3>4
  <2>4. ASSUME NEW p \in Procs, Dequeue(p) PROVE OrderFacts'
    <3> DEFINE m == Head(queue)
    <3>1. /\ queue # <<>> /\ Len(queue) >= 1 /\ m = queue[1]
          /\ Len(queue') = Len(queue) - 1
          /\ \A i \in 1..Len(queue') : queue'[i] = queue[i + 1]
          /\ op' = [op EXCEPT ![p] = [pc |-> "start", msg |-> m]] /\ op[p].pc = "rest"
          /\ UNCHANGED <<clock, stamp>>
          /\ raced' = (raced \/ \E o \in Procs \ {p} : InMiddle(o))
      BY <2>0, <2>4 DEF Dequeue, At, NoteOverlap
    <3> HIDE DEF m
    <3>2. StampInv'
      BY <3>1 DEF OrderFacts, StampInv
    <3>3. ASSUME ~raced' PROVE ~raced /\ \A o \in Procs : ~InMiddle(o)
      BY <2>0, <3>1, <3>3 DEF InMiddle
    <3>4. ASSUME ~raced' PROVE /\ \A r \in Procs : InMiddle(r)' => r = p
                               /\ Holding("reorder")' = {} /\ Holding("reorder") = {}
                               /\ \A r \in Holding("start")' : op'[r].msg = m
      BY <2>0, <3>1, <3>3, <3>4 DEF InMiddle, Holding, At
    <3>5. ASSUME ~raced', NEW i \in 1..Len(queue), NEW j \in 1..Len(queue), i < j
          PROVE  Precedes(queue[i], queue[j])
      BY <3>3, <3>4, <3>5 DEF OrderFacts, OrderInv, SettledLen
    <3>6. OrderInv'
      <4> SUFFICES ASSUME ~raced'
                   PROVE  /\ \A i, j \in 1..Len(queue') : i < j => Precedes(queue'[i], queue'[j])
                          /\ \A i \in 1..Len(queue') : Precedes(m, queue'[i])
        BY <3>1, <3>4 DEF OrderInv, SettledLen, Precedes
      <4>1. ASSUME NEW i \in 1..Len(queue'), NEW j \in 1..Len(queue'), i < j
            PROVE  Precedes(queue'[i], queue'[j])
        <5>1. i + 1 \in 1..Len(queue) /\ j + 1 \in 1..Len(queue) /\ i + 1 < j + 1
          BY <2>0, <3>1, <4>1
        <5> QED
          BY <3>1, <3>5, <5>1
      <4>2. ASSUME NEW i \in 1..Len(queue') PROVE Precedes(m, queue'[i])
        <5>1. 1 \in 1..Len(queue) /\ i + 1 \in 1..Len(queue) /\ 1 < i + 1
          BY <2>0, <3>1
        <5> QED
          BY <3>1, <3>5, <5>1
      <4> QED
        BY <4>1, <4>2
    <3> QED
      BY <3>2, <3>4, <3>6 DEF OrderFacts, SerialInv
  <2>5. ASSUME NEW p \in Procs, Started(p) PROVE OrderFacts'
    <3>1. /\ op' = [op EXCEPT ![p] = Resting] /\ op[p].pc = "start" /\ InMiddle(p)
          /\ UNCHANGED <<queue, clock, stamp>>
          /\ raced' = (raced /\ ~(queue' = <<>> /\ \A o \in Procs : ~InMiddle(o)'))
      BY <2>5 DEF Started, At, InMiddle, ForgetWhenUnused
    <3>2. StampInv'
      BY <3>1 DEF OrderFacts, StampInv
    <3>3. CASE ~raced
      <4>1. (\A r \in Procs : ~InMiddle(r)') /\ Holding("reorder") = {}
        BY <2>0, <3>1, <3>3 DEF OrderFacts, SerialInv, InMiddle, Resting, Holding, At
      <4>2. (\A i, j \in 1..Len(queue) : i < j => Precedes(queue[i], queue[j]))'
        BY <3>1, <3>3, <4>1 DEF OrderFacts, OrderInv, SettledLen, Precedes
      <4> QED
        BY <3>2, <4>1, <4>2, OrderWhenAlone
    <3>4. CASE raced
      <4>1. ~raced' => Len(queue') = 0 /\ \A r \in Procs : ~InMiddle(r)'
        BY <3>1, <3>4, EmptySeq
      <4>2. CASE raced'
        BY <3>2, <4>2 DEF OrderFacts, SerialInv, OrderInv
      <4>3. CASE ~raced'
        BY <3>2, <4>1, <4>3, OrderWhenAlone
      <4> QED
        BY <4>2, <4>3
    <3> QED
      BY <3>3, <3>4
  <2>6. ASSUME NEW p \in Procs, RequeueFront(p) PROVE OrderFacts'
    <3> DEFINE m == op[p].msg
    <3>1. /\ m \in Messages /\ op[p].pc = "start" /\ InMiddle(p) /\ p \in Holding("start")
          /\ op' = [op EXCEPT ![p] = Resting]
          /\ queue' = <<m>> \o queue /\ UNCHANGED <<clock, stamp, raced>>
      BY <2>6, OpMessage DEF RequeueFront, At, InMiddle, Holding
    <3>2. StampInv'
      BY <3>1 DEF OrderFacts, StampInv
    <3>3. CASE raced
      BY <3>1, <3>2, <3>3 DEF OrderFacts, SerialInv, OrderInv
    <3>4. CASE ~raced
      <4>1. (\A r \in Procs : ~InMiddle(r)') /\ Holding("reorder") = {}
        BY <2>0, <3>1, <3>4 DEF OrderFacts, SerialInv, InMiddle, Resting, Holding, At
      <4>2. \A i, j \in 1..Len(queue) : i < j => Precedes(queue[i], queue[j])
        BY <3>4, <4>1 DEF OrderFacts, OrderInv, SettledLen
      <4>3. \A i \in 1..Len(queue) : Precedes(m, queue[i])
        BY <3>1, <3>4 DEF OrderFacts, OrderInv
      <4> HIDE DEF m
      <4>4. /\ Len(queue') = Len(queue) + 1 /\ queue'[1] = m
            /\ \A i \in 2..Len(queue) + 1 : queue'[i] = queue[i - 1]
        BY <2>0, <3>1
      <4>5. ASSUME NEW i \in 1..Len(queue'), NEW j \in 1..Len(queue'), i < j
            PROVE  Precedes(queue'[i], queue'[j])
        <5>1. j - 1 \in 1..Len(queue) /\ queue'[j] = queue[j - 1]
          BY <2>0, <4>4, <4>5
        <5>2. CASE i = 1
          BY <4>3, <4>4, <5>1, <5>2
        <5>3. CASE i # 1
          <6>1. i \in 2..Len(queue) + 1 /\ i - 1 \in 1..Len(queue) /\ i - 1 < j - 1
            BY <2>0, <4>4, <4>5, <5>3
          <6>2. queue'[i] = queue[i - 1]
            BY <4>4, <6>1
          <6> QED
            BY <4>2, <5>1, <6>1, <6>2
        <5> QED
          BY <5>2, <5>3
      <4>6. (\A i, j \in 1..Len(queue) : i < j => Precedes(queue[i], queue[j]))'
        BY <3>1, <4>5 DEF Precedes
      <4> QED
        BY <3>2, <4>1, <4>6, OrderWhenAlone
    <3> QED
      BY <3>3, <3>4
  <2>7. ASSUME NEW p \in Procs, Clear(p) PROVE OrderFacts'
    <3>1. /\ Len(queue') = 0 /\ UNCHANGED <<op, clock, stamp>>
          /\ raced' = (raced /\ ~(\A o \in Procs : ~InMiddle(o)'))
      BY <2>7, EmptySeq DEF Clear, ForgetWhenUnused, InMiddle
    <3>2. \A r \in Procs : InMiddle(r)' <=> InMiddle(r)
      BY <3>1 DEF InMiddle
    <3>3. SerialInv'
      BY <2>0, <3>1, <3>2 DEF OrderFacts, SerialInv
    <3>4. OrderInv'
      BY <3>1 DEF OrderInv, SettledLen
    <3> QED
      BY <3>1, <3>3, <3>4 DEF OrderFacts, StampInv
  <2>8. ASSUME NEW p \in Procs, CheckDepth(p) PROVE OrderFacts'
    <3>1. \A r \in Procs : op'[r] = op[r] \/ (~InMiddle(r) /\ ~InMiddle(r)')
      BY <2>0, <2>8 DEF CheckDepth, At, InMiddle
    <3> QED
      BY <2>1, <2>8, <3>1 DEF CheckDepth
  <2>9. ASSUME NEW p \in Procs, Reject(p) PROVE OrderFacts'
    <3>1. op' = op /\ queue' = queue /\ clock' = clock /\ stamp' = stamp /\ raced' = raced
      BY <2>9 DEF Reject
    <3> QED
      BY <2>1, <3>1
  <2>10. CASE UNCHANGED vars
    <3>1. op' = op /\ queue' = queue /\ clock' = clock /\ stamp' = stamp /\ raced' = raced
      BY <2>10 DEF vars
    <3> QED
      BY <2>1, <3>1
  <2> QED
    BY <2>2, <2>3, <2>4, <2>5, <2>6, <2>7, <2>8, <2>9, <2>10 DEF Next, Step, Done
<1> QED
  BY <1>1, <1>2, OrderFromPositions, TypeCorrect, NothingLostOrDoubled, PTL DEF Spec, OrderFacts
=============================================================================
