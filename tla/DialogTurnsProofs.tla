------------------------- MODULE DialogTurnsProofs -------------------------
(* What holds of DialogTurns for every set of sessions and messages, every *)
(* number of concurrent tasks and cancel requests, and every bound.        *)
EXTENDS DialogTurns, QueuePriorityProofs, TLAPS

Starting == {"start", "mark", "save", "resolve"}

\* What the parts of the state have to do with each other, besides their types:
\* everything about a message stays in the session the message is sent to.
Shape ==
    /\ \A s \in Sessions : \A m \in ToSet(queue[s]) : SessionOf[m] = s
    /\ \A s \in Sessions : Processing(s) => SessionOf[state[s]] = s
    /\ \A p \in Procs : pc[p] \in Starting => msg[p] \in Messages /\ SessionOf[msg[p]] = SessOf(p)
    /\ pc[Handler] \in {"recv", "reply", "act", "next"} \cup Starting
    /\ pc[Handler] # "recv" => handling.s \in Sessions
    /\ \A i \in Slots : /\ run[i].pc # "free" => run[i].turn \in Messages
                        /\ run[i].pc \in {"settle", "report"} => run[i].kind \in Kinds
    /\ \A c \in Cancels : /\ cancel[c].pc \in {"find", "idle", "notify"} => cancel[c].s \in Sessions
                          /\ cancel[c].pc \in {"idle", "notify", "stop"} => cancel[c].turn \in Messages

LEMMA InitialShape == Init => TypeOK /\ Shape
<1> SUFFICES ASSUME Init PROVE TypeOK /\ Shape
  OBVIOUS
<1> USE TurnAssumption
<1>1. \A s \in Sessions : queue[s] = <<>> /\ ToSet(queue[s]) = {}
  BY EmptyElements DEF Init
<1>2. TypeOK
  BY <1>1, EmptySeq DEF Init, TypeOK, RunType, CancelType, OutcomeType, Free, Unused, NoOutcome, Procs, Kinds
<1>3. Shape
  BY <1>1 DEF Init, Shape, Free, Unused, Procs, Starting, Processing
<1> QED
  BY <1>2, <1>3
-----------------------------------------------------------------------------
\* Whose session a caller works on.
LEMMA CallerSession ==
    ASSUME TypeOK, Shape, NEW p \in Procs, pc[p] \in {"next"} \cup Starting
    PROVE  /\ SessOf(p) \in Sessions
           /\ pc[p] \in Starting => msg[p] \in Messages /\ SessionOf[msg[p]] = SessOf(p)
BY TurnAssumption DEF Shape, SessOf, Procs, Starting, TypeOK

\* A caller that returns leaves the others as they are.
LEMMA AfterReturn ==
    ASSUME TypeOK, Shape, NEW p \in Procs, Return(p)
    PROVE  /\ pc' \in [Procs -> {"unsent", "called", "sawProcessing", "sawIdle", "sawError", "next",
                         "start", "mark", "save", "resolve", "done", "recv", "reply", "act"}]
           /\ msg' \in [Procs -> Messages \cup {None}]
           /\ popped' \subseteq Procs
           /\ handling' \in [s : Sessions \cup {None}, kind : Kinds \cup {"none"},
                             reply : Messages \cup {None}]
           /\ pc'[p] \in {"recv", "done"}
           /\ pc'[Handler] \in {"recv", "reply", "act", "next"} \cup Starting
           /\ pc'[Handler] # "recv" => handling'.s \in Sessions
           /\ \A r \in Procs : pc'[r] \in Starting =>
                r # p /\ pc'[r] = pc[r] /\ msg'[r] = msg[r] /\ SessOf(r)' = SessOf(r)
BY TurnAssumption DEF TypeOK, Shape, Return, Procs, SessOf, NoOutcome, Kinds, Starting

\* What start_turn's failure does to the queue.
LEMMA AfterFailure ==
    ASSUME TypeOK, Shape, NEW p \in Procs, pc[p] \in Starting, FailStart(p)
    PROVE  /\ queue' \in [Sessions -> Seq(Messages)]
           /\ \A s \in Sessions : \A m \in ToSet(queue'[s]) : SessionOf[m] = s
<1>1. /\ SessOf(p) \in Sessions /\ msg[p] \in Messages /\ SessionOf[msg[p]] = SessOf(p)
  BY CallerSession
<1>2. CASE p \notin popped
  BY <1>2 DEF FailStart, TypeOK, Shape
<1>3. CASE p \in popped
  <2> DEFINE s == SessOf(p)
             q == queue[s]
  <2>1. q \in Seq(Messages) /\ queue' = [queue EXCEPT ![s] = <<msg[p]>> \o q]
    BY <1>1, <1>3 DEF FailStart, TypeOK
  <2>2. <<msg[p]>> \o q \in Seq(Messages) /\ ToSet(<<msg[p]>> \o q) = ToSet(q) \cup {msg[p]}
    BY <1>1, <2>1, ConsElements
  <2> HIDE DEF q
  <2> QED
    BY <1>1, <2>1, <2>2 DEF TypeOK, Shape, q
<1> QED
  BY <1>2, <1>3
-----------------------------------------------------------------------------
LEMMA SubmitShape ==
    ASSUME TypeOK, Shape, NEW m \in Messages, SubmitStep(m)
    PROVE  TypeOK' /\ Shape'
<1> USE TurnAssumption DEF sched, calls, engine
<1>0. m \in Procs /\ m # Handler /\ SessOf(m) = SessionOf[m] /\ SessionOf[m] \in Sessions
  BY DEF Procs, SessOf
<1>1. CASE Submit(m)
  <2>1. PICK x \in {"sawProcessing", "sawIdle", "sawError"} : pc' = [pc EXCEPT ![m] = x]
    BY <1>1 DEF Submit
  <2>2. TypeOK'
    BY <1>0, <1>1, <2>1 DEF Submit, TypeOK
  <2>3. Shape'
    BY <1>0, <1>1, <2>1 DEF Submit, TypeOK, Shape, SessOf, Processing, Starting
  <2> QED
    BY <2>2, <2>3
<1>2. CASE Reject(m)
  <2>1. TypeOK'
    BY <1>0, <1>2, AfterReturn DEF Reject, TypeOK
  <2>2. Shape'
    BY <1>0, <1>2, AfterReturn DEF Reject, Shape, Processing
  <2> QED
    BY <2>1, <2>2
<1>3. CASE QueueUp(m)
  <2> DEFINE s == SessionOf[m]
             q == queue[s]
  <2>1. q \in Seq(Messages) /\ queue' = [queue EXCEPT ![s] = Insert(q, m)] /\ Return(m)
    BY <1>0, <1>3 DEF QueueUp, Enqueue, TypeOK
  <2>2. Insert(q, m) \in Seq(Messages) /\ ToSet(Insert(q, m)) = ToSet(q) \cup {m}
    BY <2>1, InsertElements, InsertProperties
  <2>3. stranded' \in [Sessions -> BOOLEAN]
    BY <1>3 DEF QueueUp, Recheck, TypeOK
  <2> HIDE DEF q
  <2>4. TypeOK'
    BY <1>0, <1>3, <2>1, <2>2, <2>3, AfterReturn DEF QueueUp, TypeOK
  <2>5. \A r \in Sessions : \A n \in ToSet(queue'[r]) : SessionOf[n] = r
    BY <1>0, <2>1, <2>2 DEF Shape, TypeOK, q
  <2>6. Shape'
    BY <1>0, <1>3, <2>1, <2>5, AfterReturn DEF QueueUp, Shape, Processing
  <2> QED
    BY <2>4, <2>6
<1>4. CASE QueueUpAndDispatch(m)
  <2> DEFINE s == SessionOf[m]
             q == queue[s]
  <2>1. q \in Seq(Messages) /\ queue' = [queue EXCEPT ![s] = Insert(q, m)]
    BY <1>0, <1>4 DEF QueueUpAndDispatch, Enqueue, TypeOK
  <2>2. Insert(q, m) \in Seq(Messages) /\ ToSet(Insert(q, m)) = ToSet(q) \cup {m}
    BY <2>1, InsertElements, InsertProperties
  <2> HIDE DEF q
  <2>3. TypeOK'
    BY <1>0, <1>4, <2>1, <2>2 DEF QueueUpAndDispatch, TypeOK
  <2>4. \A r \in Sessions : \A n \in ToSet(queue'[r]) : SessionOf[n] = r
    BY <1>0, <2>1, <2>2 DEF Shape, TypeOK, q
  <2>5. Shape'
    BY <1>0, <1>4, <2>4 DEF QueueUpAndDispatch, TypeOK, Shape, SessOf, Processing, Starting
  <2> QED
    BY <2>3, <2>5
<1>5. CASE StartAtOnce(m)
  <2>1. /\ queue' \in [Sessions -> Seq(Messages)]
        /\ \A r \in Sessions : \A n \in ToSet(queue'[r]) : SessionOf[n] = r
    <3>1. CASE queue' = queue
      BY <3>1 DEF TypeOK, Shape
    <3>2. CASE queue' = [queue EXCEPT ![SessionOf[m]] = <<>>]
      BY <1>0, <3>2, EmptyElements, EmptySeq DEF TypeOK, Shape
    <3> QED
      BY <1>5, <3>1, <3>2 DEF StartAtOnce, ClearQueue
  <2>2. stranded' \in [Sessions -> BOOLEAN]
    BY <1>5 DEF StartAtOnce, QueueEmptied, TypeOK
  <2>3. TypeOK'
    BY <1>0, <1>5, <2>1, <2>2 DEF StartAtOnce, TypeOK
  <2>4. Shape'
    BY <1>0, <1>5, <2>1 DEF StartAtOnce, TypeOK, Shape, SessOf, Processing, Starting
  <2> QED
    BY <2>3, <2>4
<1> QED
  BY <1>1, <1>2, <1>3, <1>4, <1>5 DEF SubmitStep

LEMMA DispatchShape ==
    ASSUME TypeOK, Shape, NEW p \in Procs, NothingToStart(p) \/ Dequeue(p)
    PROVE  TypeOK' /\ Shape'
<1> USE TurnAssumption DEF sched, calls, engine
<1>1. CASE NothingToStart(p)
  <2>1. TypeOK'
    BY <1>1, AfterReturn DEF NothingToStart, TypeOK
  <2>2. Shape'
    BY <1>1, AfterReturn DEF NothingToStart, Shape, Processing
  <2> QED
    BY <2>1, <2>2
<1>2. CASE Dequeue(p)
  <2> DEFINE s == SessOf(p)
             q == queue[s]
             h == Head(q)
             t == Tail(q)
  <2>1. s \in Sessions
    BY <1>2, CallerSession DEF Dequeue
  <2>2. /\ q \in Seq(Messages) /\ q # <<>>
        /\ queue' = [queue EXCEPT ![s] = t]
        /\ msg' = [msg EXCEPT ![p] = h]
        /\ popped' = popped \cup {p}
        /\ pc' = [pc EXCEPT ![p] = "start"]
        /\ stranded' \in [Sessions -> BOOLEAN]
    BY <1>2, <2>1 DEF Dequeue, TypeOK, QueueEmptied
  <2>3. UNCHANGED <<state, active, yield, suppressed, channel, handling, run, tokens, cancel,
                    wedged, disturbed, replies>>
    BY <1>2 DEF Dequeue
  <2>4. h \in Messages /\ t \in Seq(Messages) /\ ToSet(q) = ToSet(t) \cup {h}
    BY <2>2, HeadElements
  <2>5. SessionOf[h] = s
    BY <2>1, <2>4 DEF Shape
  <2>6. \A r \in Sessions : \A n \in ToSet(queue'[r]) : SessionOf[n] = r
    <3> HIDE DEF t
    <3> QED
      BY <2>1, <2>2, <2>4 DEF Shape, TypeOK
  <2>7. p # Handler => pc[Handler] = pc'[Handler]
    BY <2>2 DEF TypeOK
  <2>8. pc[p] = "next"
    BY <1>2 DEF Dequeue
  <2>9. s = IF p = Handler THEN handling.s ELSE SessionOf[p]
    BY DEF SessOf
  <2> HIDE DEF q, h, t, s
  <2>10. TypeOK'
    BY <2>1, <2>2, <2>3, <2>4 DEF TypeOK
  <2>11. Shape'
    BY <2>1, <2>2, <2>3, <2>4, <2>5, <2>6, <2>7, <2>8, <2>9
       DEF TypeOK, Shape, SessOf, Processing, Starting, Procs
  <2> QED
    BY <2>10, <2>11
<1> QED
  BY <1>1, <1>2
-----------------------------------------------------------------------------
LEMMA FailureShape ==
    ASSUME TypeOK, Shape, NEW p \in Procs, pc[p] \in Starting, FailStart(p), Return(p),
           UNCHANGED <<state, active, yield, suppressed, channel, run, tokens, cancel,
                       disturbed, replies>>,
           stranded' \in [Sessions -> BOOLEAN], wedged' \subseteq Messages
    PROVE  TypeOK' /\ Shape'
<1>1. TypeOK'
  BY AfterReturn, AfterFailure DEF TypeOK
<1>2. Shape'
  BY AfterReturn, AfterFailure DEF Shape, Processing
<1> QED
  BY <1>1, <1>2

LEMMA StartShape ==
    ASSUME TypeOK, Shape, NEW p \in Procs, Start(p)
    PROVE  TypeOK' /\ Shape'
<1> USE TurnAssumption DEF sched, calls, engine
<1>0. /\ SessOf(p) \in Sessions /\ msg[p] \in Messages /\ SessionOf[msg[p]] = SessOf(p)
      /\ pc[p] \in Starting
  <2>1. pc[p] \in Starting
    BY DEF Start, Admit, Refuse, FailBeforeMark, Mark, FailAfterMark, Spawn, Resolve, FailResolve, Starting
  <2> QED
    BY <2>1, CallerSession
<1>1. CASE Admit(p)
  <2>1. TypeOK'
    BY <1>0, <1>1 DEF Admit, TypeOK
  <2>2. Shape'
    BY <1>0, <1>1 DEF Admit, TypeOK, Shape, SessOf, Processing, Starting
  <2> QED
    BY <2>1, <2>2
<1>2. CASE Refuse(p)
  <2>1. /\ FailStart(p) /\ Return(p)
        /\ UNCHANGED <<state, active, yield, suppressed, channel, run, tokens, cancel,
                       disturbed, replies>>
    BY <1>2 DEF Refuse, FailStart
  <2>2. stranded' \in [Sessions -> BOOLEAN] /\ wedged' \subseteq Messages
    BY <1>2 DEF Refuse, TypeOK
  <2> QED
    BY <1>0, <2>1, <2>2, FailureShape
<1>3. CASE FailBeforeMark(p)
  <2>1. /\ FailStart(p) /\ Return(p) /\ pc[p] \in Starting
        /\ UNCHANGED <<state, active, yield, suppressed, channel, run, tokens, cancel,
                       disturbed, replies>>
    BY <1>3 DEF FailBeforeMark, FailStart, Starting
  <2>2. stranded' \in [Sessions -> BOOLEAN] /\ wedged' \subseteq Messages
    BY <1>0, <1>3 DEF FailBeforeMark, Recheck, TypeOK
  <2> QED
    BY <2>1, <2>2, FailureShape
<1>4. CASE Mark(p)
  <2>1. TypeOK'
    BY <1>0, <1>4 DEF Mark, TypeOK
  <2>2. Shape'
    BY <1>0, <1>4 DEF Mark, TypeOK, Shape, SessOf, Processing, Starting
  <2> QED
    BY <2>1, <2>2
<1>5. CASE FailAfterMark(p)
  <2>1. /\ FailStart(p) /\ Return(p) /\ pc[p] \in Starting
        /\ UNCHANGED <<state, active, yield, suppressed, channel, run, tokens, cancel,
                       disturbed, replies>>
    BY <1>5 DEF FailAfterMark, FailStart, Starting
  <2>2. stranded' \in [Sessions -> BOOLEAN] /\ wedged' \subseteq Messages
    BY <1>0, <1>5 DEF FailAfterMark, Recheck, TypeOK
  <2> QED
    BY <2>1, <2>2, FailureShape
<1>6. CASE Spawn(p)
  <2>1. PICK i \in Slots :
          run' = [run EXCEPT ![i] = [pc |-> "begin", turn |-> msg[p], token |-> "none",
                                     left |-> MaxRounds, kind |-> "none"]]
    BY <1>6 DEF Spawn
  <2>2. TypeOK'
    <3>1. run' \in [Slots -> RunType]
      BY <1>0, <2>1, TurnAssumption DEF TypeOK, RunType
    <3>2. pc' = [pc EXCEPT ![p] = "resolve"]
          /\ UNCHANGED <<state, queue, active, yield, suppressed, channel, msg, popped, handling,
                         tokens, cancel, wedged, disturbed, stranded, replies>>
      BY <1>6 DEF Spawn, sched
    <3> QED
      BY <1>0, <3>1, <3>2 DEF TypeOK
  <2>3. Shape'
    BY <1>0, <1>6, <2>1 DEF Spawn, TypeOK, Shape, SessOf, Processing, Starting
  <2> QED
    BY <2>2, <2>3
<1>7. CASE Resolve(p)
  <2>1. TypeOK'
    BY <1>0, <1>7, AfterReturn DEF Resolve, Processing, TypeOK
  <2>2. Shape'
    BY <1>0, <1>7, AfterReturn DEF Resolve, Shape, Processing
  <2> QED
    BY <2>1, <2>2
<1>8. CASE FailResolve(p)
  <2>1. /\ FailStart(p) /\ Return(p) /\ pc[p] \in Starting
        /\ UNCHANGED <<state, active, yield, suppressed, channel, run, tokens, cancel,
                       disturbed, replies>>
    BY <1>8 DEF FailResolve, FailStart, Starting
  <2>2. stranded' \in [Sessions -> BOOLEAN] /\ wedged' \subseteq Messages
    BY <1>0, <1>8 DEF FailResolve, Recheck, TypeOK
  <2> QED
    BY <2>1, <2>2, FailureShape
<1> QED
  BY <1>1, <1>2, <1>3, <1>4, <1>5, <1>6, <1>7, <1>8 DEF Start
-----------------------------------------------------------------------------
LEMMA HandlerShape ==
    ASSUME TypeOK, Shape, HandlerStep
    PROVE  TypeOK' /\ Shape'
<1> USE TurnAssumption DEF sched, calls, engine
<1>0. Handler \in Procs /\ Handler \notin Messages
  BY DEF Procs
<1>1. CASE Receive
  <2> DEFINE o == Head(channel)
  <2>1. o \in OutcomeType /\ Tail(channel) \in Seq(OutcomeType)
    BY <1>1 DEF Receive, TypeOK
  <2>2. o.s \in Sessions /\ o.kind \in Kinds
    BY <2>1 DEF OutcomeType
  <2> HIDE DEF o
  <2>3. /\ yield' = yield \ {o.s}
        /\ suppressed' = suppressed \ {<<o.s, o.turn>>}
        /\ active' = [active EXCEPT ![o.s] = None]
        /\ channel' = Tail(channel)
        /\ UNCHANGED <<state, queue, msg, popped, run, tokens, cancel, wedged, disturbed, stranded>>
    BY <1>1 DEF Receive, o
  <2>4. PICK l \in {"reply", "act"}, r \in Messages \cup {None} :
           /\ handling' = [s |-> o.s, kind |-> o.kind, reply |-> r]
           /\ \/ pc' = [pc EXCEPT ![Handler] = l]
              \/ r \in Messages /\ pc' = [pc EXCEPT ![Handler] = l, ![r] = "called"]
    <3>1. CASE \E r \in Replies : /\ Forward(active[o.s], r)
                                  /\ handling' = [s |-> o.s, kind |-> o.kind, reply |-> r]
      BY <3>1 DEF Forward
    <3>2. CASE /\ pc' = [pc EXCEPT ![Handler] = "act"]
               /\ handling' = [s |-> o.s, kind |-> o.kind, reply |-> None]
      BY <3>2
    <3> QED
      BY <1>1, <3>1, <3>2 DEF Receive, o
  <2>5. replies' \in [Messages -> Nat]
    <3>1. CASE UNCHANGED replies
      BY <3>1 DEF TypeOK
    <3>2. CASE \E x \in Replies : Forward(active[o.s], x)
      <4>1. PICK k : replies' = [replies EXCEPT ![k] = @ + 1]
        BY <3>2 DEF Forward
      <4>2. CASE k \in Messages
        BY <4>1, <4>2 DEF TypeOK
      <4>3. CASE k \notin Messages
        <5>1. replies' = replies
          BY <4>1, <4>3 DEF TypeOK
        <5> QED
          BY <5>1 DEF TypeOK
      <4> QED
        BY <4>2, <4>3
    <3> QED
      BY <1>1, <3>1, <3>2 DEF Receive, o
  <2>6. pc' \in [Procs -> {"unsent", "called", "sawProcessing", "sawIdle", "sawError", "next",
                         "start", "mark", "save", "resolve", "done", "recv", "reply", "act"}]
    BY <1>0, <2>4 DEF TypeOK, Procs
  <2>7. TypeOK'
    BY <2>1, <2>2, <2>3, <2>4, <2>5, <2>6 DEF TypeOK
  <2>8. /\ pc'[Handler] \in {"reply", "act"}
        /\ \A p \in Procs : pc'[p] \in Starting => p # Handler /\ pc'[p] = pc[p]
    BY <1>0, <2>4 DEF TypeOK, Procs, Starting
  <2>9. Shape'
    BY <2>2, <2>3, <2>4, <2>8 DEF Shape, SessOf, Processing, Starting
  <2> QED
    BY <2>7, <2>9
<1>2. CASE Forwarded
  <2>1. TypeOK'
    BY <1>0, <1>2 DEF Forwarded, TypeOK
  <2>2. Shape'
    BY <1>0, <1>2 DEF Forwarded, TypeOK, Shape, SessOf, Processing, Starting
  <2> QED
    BY <2>1, <2>2
<1>3. CASE DispatchNext
  <2>1. TypeOK'
    BY <1>0, <1>3 DEF DispatchNext, TypeOK
  <2>2. Shape'
    BY <1>0, <1>3 DEF DispatchNext, TypeOK, Shape, SessOf, Processing, Starting
  <2> QED
    BY <2>1, <2>2
<1>4. CASE ClearAfterFailure
  <2>1. handling.s \in Sessions
    BY <1>4 DEF ClearAfterFailure, Shape
  <2>2. /\ queue' = [queue EXCEPT ![handling.s] = <<>>]
        /\ stranded' \in [Sessions -> BOOLEAN]
        /\ Return(Handler)
        /\ UNCHANGED <<state, active, yield, suppressed, channel, run, tokens, cancel,
                       wedged, disturbed, replies>>
    BY <1>4 DEF ClearAfterFailure, ClearQueue, QueueEmptied, TypeOK
  <2>3. /\ queue' \in [Sessions -> Seq(Messages)]
        /\ \A r \in Sessions : \A n \in ToSet(queue'[r]) : SessionOf[n] = r
    BY <2>1, <2>2, EmptyElements, EmptySeq DEF TypeOK, Shape
  <2>4. TypeOK'
    BY <1>0, <2>2, <2>3, AfterReturn DEF TypeOK
  <2>5. Shape'
    BY <1>0, <2>2, <2>3, AfterReturn DEF Shape, Processing
  <2> QED
    BY <2>4, <2>5
<1> QED
  BY <1>1, <1>2, <1>3, <1>4 DEF HandlerStep
-----------------------------------------------------------------------------
\* Changing a field or two of a task's record, or of a request to cancel.
LEMMA RunFields ==
    ASSUME NEW i \in Slots, run \in [Slots -> RunType]
    PROVE  /\ \A l \in {"loop", "report"} : [run EXCEPT ![i].pc = l] \in [Slots -> RunType]
           /\ [run EXCEPT ![i] = Free] \in [Slots -> RunType]
           /\ run[i].left > 0 =>
                [pc |-> "round", turn |-> run[i].turn, token |-> "held",
                 left |-> run[i].left - 1, kind |-> "none"] \in RunType
           /\ \A t \in {"hit", "stray", "none"} : [run[i] EXCEPT !.token = t] \in RunType
           /\ \A k \in Kinds :
                [pc |-> "settle", turn |-> run[i].turn, token |-> "none", left |-> 0, kind |-> k] \in RunType
<1>1. \A l \in {"loop", "report"} : [run EXCEPT ![i].pc = l] \in [Slots -> RunType]
  BY DEF RunType
<1>2. [run EXCEPT ![i] = Free] \in [Slots -> RunType]
  BY TurnAssumption DEF RunType, Free
<1>3. ASSUME run[i].left > 0
      PROVE  [pc |-> "round", turn |-> run[i].turn, token |-> "held",
              left |-> run[i].left - 1, kind |-> "none"] \in RunType
  <2>1. run[i].left - 1 \in 0..MaxRounds
    BY <1>3, TurnAssumption DEF RunType
  <2> QED
    BY <2>1 DEF RunType
<1>4. \A t \in {"hit", "stray", "none"} : [run[i] EXCEPT !.token = t] \in RunType
  BY DEF RunType
<1>5. \A k \in Kinds :
        [pc |-> "settle", turn |-> run[i].turn, token |-> "none", left |-> 0, kind |-> k] \in RunType
  BY TurnAssumption DEF RunType
<1> QED
  BY <1>1, <1>2, <1>3, <1>4, <1>5

LEMMA CancelFields ==
    ASSUME NEW c \in Cancels, cancel \in [Cancels -> CancelType]
    PROVE  /\ \A l \in {"notify", "stop"} : [cancel EXCEPT ![c].pc = l] \in [Cancels -> CancelType]
           /\ \A m \in Messages :
                [cancel EXCEPT ![c] = [@ EXCEPT !.pc = "idle", !.turn = m]] \in [Cancels -> CancelType]
BY DEF CancelType

LEMMA FinishShape ==
    ASSUME TypeOK, Shape, NEW i \in Slots, run[i].pc \in {"loop", "round"}, NEW k \in Kinds,
           Finish(i, k), yield' \subseteq yield
    PROVE  TypeOK' /\ Shape'
<1> USE DEF calls
<1>1. run[i].turn \in Messages
  BY DEF Shape
<1>2. /\ run' \in [Slots -> RunType]
      /\ \A j \in Slots : /\ run'[j].turn = run[j].turn
                          /\ j # i => run'[j].pc = run[j].pc /\ run'[j].kind = run[j].kind
      /\ run'[i].pc = "settle" /\ run'[i].kind = k
  <2>1. run \in [Slots -> RunType]
    BY DEF TypeOK
  <2>2. run' \in [Slots -> RunType]
    BY <2>1, RunFields DEF Finish
  <2>3. \A j \in Slots :
          run'[j] = IF j = i
                    THEN [pc |-> "settle", turn |-> run[i].turn, token |-> "none",
                          left |-> 0, kind |-> k]
                    ELSE IF run[j].turn = run[i].turn /\ run[j].token = "held"
                    THEN [run[j] EXCEPT !.token = "stray"]
                    ELSE run[j]
    BY DEF Finish
  <2> QED
    BY <2>1, <2>2, <2>3 DEF RunType
<1>3. TypeOK'
  BY <1>2 DEF Finish, TypeOK
<1>4. Shape'
  BY <1>1, <1>2 DEF Finish, Shape, SessOf, Processing
<1> QED
  BY <1>3, <1>4

LEMMA ExecuteShape ==
    ASSUME TypeOK, Shape, NEW i \in Slots, Execute(i)
    PROVE  TypeOK' /\ Shape'
<1> USE TurnAssumption DEF sched, calls, engine
<1>0. run[i].pc # "free" /\ run[i].turn \in Messages /\ SessionOf[run[i].turn] \in Sessions
  BY DEF Execute, Begin, StartRound, FinishBetweenRounds, FinishInRound, FinishAfterRound,
         Continue, Settle, Report, Shape
<1>1. CASE Begin(i)
  <2>1. TypeOK'
    BY <1>0, <1>1, RunFields DEF Begin, TypeOK
  <2>2. Shape'
    BY <1>0, <1>1 DEF Begin, TypeOK, RunType, Shape, SessOf, Processing
  <2> QED
    BY <2>1, <2>2
<1>2. CASE StartRound(i)
  <2>1. TypeOK'
    BY <1>0, <1>2, RunFields DEF StartRound, TypeOK
  <2>2. Shape'
    BY <1>0, <1>2 DEF StartRound, TypeOK, RunType, Shape, SessOf, Processing
  <2> QED
    BY <2>1, <2>2
<1>3. CASE FinishBetweenRounds(i)
  BY <1>3, FinishShape DEF FinishBetweenRounds, Kinds
<1>4. CASE FinishInRound(i)
  BY <1>4, FinishShape DEF FinishInRound, Kinds
<1>5. CASE FinishAfterRound(i)
  BY <1>5, FinishShape DEF FinishAfterRound, Kinds
<1>6. CASE Continue(i)
  <2>1. TypeOK'
    BY <1>6, RunFields DEF Continue, TypeOK
  <2>2. Shape'
    BY <1>0, <1>6 DEF Continue, TypeOK, RunType, Shape, SessOf, Processing
  <2> QED
    BY <2>1, <2>2
<1>7. CASE Settle(i)
  <2>1. TypeOK'
    BY <1>7, RunFields DEF Settle, TypeOK
  <2>2. Shape'
    BY <1>0, <1>7 DEF Settle, TypeOK, RunType, Shape, SessOf, Processing
  <2> QED
    BY <2>1, <2>2
<1>8. CASE Report(i)
  <2> DEFINE o == [s |-> SessionOf[run[i].turn], turn |-> run[i].turn, kind |-> run[i].kind,
                   by |-> "task"]
  <2>1. o \in OutcomeType
    BY <1>0, <1>8 DEF Report, Shape, OutcomeType
  <2>2. TrySend(o)
    BY <1>8 DEF Report
  <2> HIDE DEF o
  <2>3. channel' \in Seq(OutcomeType)
    BY <2>1, <2>2 DEF TrySend, TypeOK
  <2>4. stranded' \in [Sessions -> BOOLEAN]
    BY <1>8 DEF Report, Recheck, TypeOK
  <2>5. TypeOK'
    BY <1>8, <2>3, <2>4, RunFields DEF Report, TypeOK
  <2>6. Shape'
    BY <1>0, <1>8 DEF Report, TypeOK, RunType, Free, Shape, SessOf, Processing
  <2> QED
    BY <2>5, <2>6
<1> QED
  BY <1>1, <1>2, <1>3, <1>4, <1>5, <1>6, <1>7, <1>8 DEF Execute
-----------------------------------------------------------------------------
CancelRequest(c) == AskToCancel(c) \/ AskFromSession(c) \/ CancelStep(c)

LEMMA CancelShape ==
    ASSUME TypeOK, Shape, NEW c \in Cancels, CancelRequest(c)
    PROVE  TypeOK' /\ Shape'
<1> USE TurnAssumption DEF sched, calls, engine
<1>1. CASE AskToCancel(c)
  <2>1. PICK i \in Slots :
          /\ run[i].pc # "free"
          /\ cancel' = [cancel EXCEPT ![c] =
                [pc |-> "idle", s |-> SessionOf[run[i].turn], turn |-> run[i].turn, key |-> None]]
    BY <1>1 DEF AskToCancel
  <2>2. run[i].turn \in Messages /\ SessionOf[run[i].turn] \in Sessions
    BY <2>1 DEF Shape
  <2>3. TypeOK'
    BY <1>1, <2>1, <2>2 DEF AskToCancel, TypeOK, CancelType
  <2>4. Shape'
    BY <1>1, <2>1, <2>2 DEF AskToCancel, TypeOK, CancelType, Shape, SessOf, Processing
  <2> QED
    BY <2>3, <2>4
<1>2. CASE AskFromSession(c)
  <2>1. PICK s \in Sessions, q \in Sessions :
          LET mine == active[s] # None /\ ReplyTo[active[s].msg] = q IN
          /\ suppressed' = IF mine THEN suppressed \cup {<<s, active[s].turn>>} ELSE suppressed
          /\ cancel' = [cancel EXCEPT ![c] =
                [pc |-> "find", s |-> s, turn |-> None, key |-> IF mine THEN active[s].turn ELSE None]]
    BY <1>2 DEF AskFromSession
  <2>2. active[s] # None => active[s].turn \in Messages
    BY DEF TypeOK
  <2>3. suppressed' \subseteq Sessions \X Messages
    BY <2>1, <2>2 DEF TypeOK
  <2>4. PICK k \in Messages \cup {None} :
          cancel' = [cancel EXCEPT ![c] = [pc |-> "find", s |-> s, turn |-> None, key |-> k]]
    BY <2>1, <2>2
  <2>5. TypeOK'
    BY <1>2, <2>3, <2>4 DEF AskFromSession, TypeOK, CancelType
  <2>6. Shape'
    BY <1>2, <2>4 DEF AskFromSession, TypeOK, CancelType, Shape, SessOf, Processing
  <2> QED
    BY <2>5, <2>6
<1>3. CASE FindActive(c)
  <2>1. TypeOK'
    BY <1>3, CancelFields DEF FindActive, Processing, TypeOK
  <2>2. Shape'
    BY <1>3 DEF FindActive, TypeOK, CancelType, Shape, SessOf, Processing
  <2> QED
    BY <2>1, <2>2
<1>4. CASE FindNothing(c)
  <2>1. TypeOK'
    BY <1>4 DEF FindNothing, DropKey, GiveUp, Unused, TypeOK, CancelType
  <2>2. Shape'
    BY <1>4 DEF FindNothing, DropKey, GiveUp, Unused, TypeOK, CancelType, Shape, SessOf, Processing
  <2> QED
    BY <2>1, <2>2
<1>5. CASE SetIdle(c)
  <2>1. TypeOK'
    BY <1>5, CancelFields DEF SetIdle, Shape, TypeOK
  <2>2. Shape'
    BY <1>5 DEF SetIdle, TypeOK, CancelType, Shape, SessOf, Processing
  <2> QED
    BY <2>1, <2>2
<1>6. CASE SetIdleUnsaved(c)
  <2>1. stranded' \in [Sessions -> BOOLEAN]
    BY <1>6 DEF SetIdleUnsaved, Recheck, TypeOK
  <2>2. TypeOK'
    BY <1>6, <2>1 DEF SetIdleUnsaved, DropKey, GiveUp, Unused, Shape, TypeOK, CancelType
  <2>3. Shape'
    BY <1>6 DEF SetIdleUnsaved, DropKey, GiveUp, Unused, TypeOK, CancelType, Shape, SessOf, Processing
  <2> QED
    BY <2>2, <2>3
<1>7. CASE Notify(c)
  <2> DEFINE o == [s |-> cancel[c].s, turn |-> cancel[c].turn, kind |-> "cancelled",
                   by |-> "cancel"]
  <2>1. o \in OutcomeType
    BY <1>7 DEF Notify, Shape, OutcomeType, Kinds
  <2>2. TrySend(o)
    BY <1>7 DEF Notify
  <2> HIDE DEF o
  <2>3. channel' \in Seq(OutcomeType)
    BY <2>1, <2>2 DEF TrySend, TypeOK
  <2>4. stranded' \in [Sessions -> BOOLEAN]
    BY <1>7 DEF Notify, Recheck, TypeOK
  <2>5. TypeOK'
    BY <1>7, <2>3, <2>4, CancelFields DEF Notify, TypeOK
  <2>6. Shape'
    BY <1>7 DEF Notify, TypeOK, CancelType, Shape, SessOf, Processing
  <2> QED
    BY <2>5, <2>6
<1>8. CASE Stop(c)
  <2>1. /\ run' \in [Slots -> RunType]
        /\ \A j \in Slots : /\ run'[j].turn = run[j].turn /\ run'[j].pc = run[j].pc
                            /\ run'[j].kind = run[j].kind
    <3>1. run \in [Slots -> RunType]
      BY DEF TypeOK
    <3>2. run' \in [Slots -> RunType]
      BY <1>8, <3>1, RunFields DEF Stop
    <3> QED
      BY <1>8, <3>1, <3>2 DEF Stop, RunType
  <2>2. TypeOK'
    BY <1>8, <2>1 DEF Stop, Unused, TypeOK, CancelType
  <2>3. Shape'
    BY <1>8, <2>1 DEF Stop, Unused, TypeOK, CancelType, Shape, SessOf, Processing
  <2> QED
    BY <2>2, <2>3
<1> QED
  BY <1>1, <1>2, <1>3, <1>4, <1>5, <1>6, <1>7, <1>8 DEF CancelRequest, CancelStep
-----------------------------------------------------------------------------
LEMMA StepShape == TypeOK /\ Shape /\ [Next]_vars => TypeOK' /\ Shape'
<1> SUFFICES ASSUME TypeOK, Shape, [Next]_vars
             PROVE  TypeOK' /\ Shape'
  OBVIOUS
<1>1. CASE UNCHANGED vars
  BY <1>1 DEF vars, sched, calls, engine, TypeOK, Shape, SessOf, Processing
<1>2. CASE Next
  BY <1>1, <1>2, SubmitShape, DispatchShape, StartShape, HandlerShape, ExecuteShape, CancelShape
     DEF Next, DispatchStep, CancelRequest, Finished
<1> QED
  BY <1>1, <1>2

\* However submits, dispatches, tasks and cancels overlap, every variable keeps
\* its type; and whatever concerns a message stays in the message's session.
THEOREM TurnTypeCorrect == Spec => [](TypeOK /\ Shape)
<1>1. Init => TypeOK /\ Shape
  BY InitialShape
<1>2. (TypeOK /\ Shape) /\ [Next]_vars => (TypeOK /\ Shape)'
  BY StepShape
<1> QED
  BY <1>1, <1>2, PTL DEF Spec
-----------------------------------------------------------------------------
\* A step that changes neither which turns are executing, nor which calls are
\* about to mark a session or have marked it, nor a session's state.
Quiet ==
    /\ UNCHANGED <<state, wedged, disturbed>>
    /\ \A i \in Slots : /\ Live(i)' <=> Live(i)
                        /\ Live(i) => run'[i].turn = run[i].turn
    /\ \A p \in Procs : \A l \in {"mark", "save"} :
          /\ pc'[p] = l <=> pc[p] = l
          /\ pc[p] = l => msg'[p] = msg[p] /\ SessOf(p)' = SessOf(p)

\* A call returns that was not between checking a session and spawning a task.
LEMMA ReturnQuiet ==
    ASSUME TypeOK, Shape, NEW p \in Procs, pc[p] \notin {"mark", "save"}, Return(p),
           UNCHANGED <<state, wedged, disturbed, run>>
    PROVE  Quiet
BY TurnAssumption DEF Quiet, Live, TypeOK, Shape, Return, Procs, SessOf, Starting

LEMMA SubmitQuiet ==
    ASSUME TypeOK, Shape, NEW m \in Messages, SubmitStep(m)
    PROVE  Quiet
<1> USE DEF engine
<1>0. m \in Procs
  BY DEF Procs
<1>1. CASE Submit(m)
  <2>1. PICK x \in {"sawProcessing", "sawIdle", "sawError"} : pc' = [pc EXCEPT ![m] = x]
    BY <1>1 DEF Submit
  <2> QED
    BY <1>0, <1>1, <2>1 DEF Submit, Quiet, Live, TypeOK, SessOf
<1>2. CASE Reject(m)
  BY <1>0, <1>2, ReturnQuiet DEF Reject
<1>3. CASE QueueUp(m)
  BY <1>0, <1>3, ReturnQuiet DEF QueueUp
<1>4. CASE QueueUpAndDispatch(m)
  BY <1>0, <1>4 DEF QueueUpAndDispatch, Quiet, Live, TypeOK, SessOf
<1>5. CASE StartAtOnce(m)
  <2>1. pc[m] \in {"sawIdle", "sawError"}
    BY <1>5 DEF StartAtOnce
  <2> QED
    BY <1>0, <1>5, <2>1 DEF StartAtOnce, Quiet, Live, TypeOK, SessOf
<1> QED
  BY <1>1, <1>2, <1>3, <1>4, <1>5 DEF SubmitStep

LEMMA DispatchQuiet ==
    ASSUME TypeOK, Shape, NEW p \in Procs,
           NothingToStart(p) \/ Dequeue(p) \/ Refuse(p) \/ Resolve(p) \/ FailResolve(p)
    PROVE  Quiet
<1> USE DEF engine
<1>1. CASE NothingToStart(p)
  BY <1>1, ReturnQuiet DEF NothingToStart
<1>2. CASE Dequeue(p)
  BY <1>2 DEF Dequeue, Quiet, Live, TypeOK, SessOf
<1>3. CASE Refuse(p)
  BY <1>3, ReturnQuiet DEF Refuse, FailStart
<1>4. CASE Resolve(p)
  BY <1>4, ReturnQuiet DEF Resolve
<1>5. CASE FailResolve(p)
  BY <1>5, ReturnQuiet DEF FailResolve, FailStart
<1> QED
  BY <1>1, <1>2, <1>3, <1>4, <1>5

LEMMA HandlerQuiet ==
    ASSUME TypeOK, Shape, HandlerStep
    PROVE  Quiet
<1> USE DEF engine
<1>0. Handler \in Procs /\ Handler \notin Messages
  BY TurnAssumption DEF Procs
<1>1. CASE Receive
  <2>1. /\ UNCHANGED <<state, wedged, disturbed, run, msg>>
        /\ pc[Handler] = "recv"
        /\ \/ pc' = [pc EXCEPT ![Handler] = "act"]
           \/ \E r \in Messages : /\ pc[r] = "unsent"
                                  /\ pc' = [pc EXCEPT ![Handler] = "reply", ![r] = "called"]
    BY <1>1, TurnAssumption DEF Receive, Forward
  <2>2. /\ pc'[Handler] \notin {"mark", "save"}
        /\ \A p \in Procs : \A l \in {"mark", "save"} : pc'[p] = l <=> pc[p] = l
    BY <1>0, <2>1 DEF TypeOK, Procs
  <2> QED
    BY <2>1, <2>2 DEF Quiet, Live, SessOf
<1>2. CASE Forwarded
  BY <1>0, <1>2 DEF Forwarded, Quiet, Live, TypeOK, SessOf
<1>3. CASE DispatchNext
  BY <1>0, <1>3 DEF DispatchNext, Quiet, Live, TypeOK, SessOf
<1>4. CASE ClearAfterFailure
  BY <1>0, <1>4, ReturnQuiet DEF ClearAfterFailure
<1> QED
  BY <1>1, <1>2, <1>3, <1>4 DEF HandlerStep

LEMMA FinishQuiet ==
    ASSUME TypeOK, NEW i \in Slots, run[i].pc \in {"loop", "round"}, NEW k \in Kinds, Finish(i, k)
    PROVE  Quiet
<1>1. \A j \in Slots : /\ run'[j].turn = run[j].turn
                      /\ j # i => run'[j].pc = run[j].pc
                      /\ run'[i].pc = "settle"
  <2>1. run \in [Slots -> RunType]
    BY DEF TypeOK
  <2>2. \A j \in Slots :
          run'[j] = IF j = i
                    THEN [pc |-> "settle", turn |-> run[i].turn, token |-> "none",
                          left |-> 0, kind |-> k]
                    ELSE IF run[j].turn = run[i].turn /\ run[j].token = "held"
                    THEN [run[j] EXCEPT !.token = "stray"]
                    ELSE run[j]
    BY DEF Finish
  <2>3. run' \in [Slots -> RunType]
    BY <2>1, RunFields DEF Finish
  <2> QED
    BY <2>1, <2>2, <2>3 DEF RunType
<1> QED
  BY <1>1 DEF Finish, calls, Quiet, Live, SessOf

LEMMA ExecuteQuiet ==
    ASSUME TypeOK, Shape, NEW i \in Slots, Execute(i), ~Begin(i), ~Settle(i)
    PROVE  Quiet
<1> USE DEF sched, calls
<1>1. CASE StartRound(i)
  BY <1>1 DEF StartRound, Quiet, Live, TypeOK, SessOf
<1>2. CASE FinishBetweenRounds(i) \/ FinishInRound(i) \/ FinishAfterRound(i)
  BY <1>2, FinishQuiet DEF Kinds, FinishBetweenRounds, FinishInRound, FinishAfterRound
<1>3. CASE Continue(i)
  BY <1>3 DEF Continue, Quiet, Live, TypeOK, RunType, SessOf
<1>4. CASE Report(i)
  BY <1>4 DEF Report, Free, Quiet, Live, TypeOK, SessOf
<1> QED
  BY <1>1, <1>2, <1>3, <1>4 DEF Execute

LEMMA CancelQuiet ==
    ASSUME TypeOK, NEW c \in Cancels, CancelRequest(c), ~SetIdle(c), ~SetIdleUnsaved(c)
    PROVE  Quiet
<1> USE DEF sched, calls, engine
<1>1. CASE Stop(c)
  <2>1. \A j \in Slots : run'[j].turn = run[j].turn /\ run'[j].pc = run[j].pc
    <3>1. run \in [Slots -> RunType]
      BY DEF TypeOK
    <3> QED
      BY <1>1, <3>1 DEF Stop, RunType
  <2> QED
    BY <1>1, <2>1 DEF Stop, Quiet, Live, SessOf
<1>2. CASE AskToCancel(c) \/ AskFromSession(c) \/ FindActive(c) \/ FindNothing(c) \/ Notify(c)
  <2>1. UNCHANGED <<state, wedged, disturbed, run, pc, msg, handling>>
    BY <1>2 DEF AskToCancel, AskFromSession, FindActive, FindNothing, Notify
  <2> QED
    BY <2>1 DEF Quiet, Live, SessOf
<1> QED
  BY <1>1, <1>2 DEF CancelRequest, CancelStep
-----------------------------------------------------------------------------
\* The steps that are not quiet.
Loud ==
    \/ \E p \in Procs : Admit(p) \/ FailBeforeMark(p) \/ Mark(p) \/ FailAfterMark(p) \/ Spawn(p)
    \/ \E i \in Slots : Begin(i) \/ Settle(i)
    \/ \E c \in Cancels : SetIdle(c) \/ SetIdleUnsaved(c)

LEMMA QuietOrLoud == TypeOK /\ Shape /\ [Next]_vars => Quiet \/ Loud
<1> SUFFICES ASSUME TypeOK, Shape, [Next]_vars, ~Loud
             PROVE  Quiet
  OBVIOUS
<1>1. CASE UNCHANGED vars
  BY <1>1 DEF vars, calls, engine, Quiet, Live, SessOf
<1>2. ASSUME NEW p \in Procs, DispatchStep(p)
      PROVE  Quiet
  BY <1>2, DispatchQuiet DEF DispatchStep, Start, Loud
<1>3. ASSUME NEW i \in Slots, Execute(i)
      PROVE  Quiet
  BY <1>3, ExecuteQuiet DEF Loud
<1>4. ASSUME NEW c \in Cancels, CancelRequest(c)
      PROVE  Quiet
  BY <1>4, CancelQuiet DEF Loud
<1>5. CASE Next
  BY <1>1, <1>2, <1>3, <1>4, <1>5, SubmitQuiet, HandlerQuiet DEF Next, CancelRequest, Finished
<1> QED
  BY <1>1, <1>5
-----------------------------------------------------------------------------
\* Somebody will set the session s to something else.
Owned(s) ==
    \/ \E i \in LiveIn(s) : run[i].turn = state[s]
    \/ \E p \in Saving(s) : msg[p] = state[s]
    \/ state[s] \in wedged

\* An owner goes on owning while the session's state stays as it is.
LEMMA OwnerKept ==
    ASSUME NEW s \in Sessions, Owned(s), state'[s] = state[s], wedged \subseteq wedged',
           \A i \in LiveIn(s) : Live(i)' /\ run'[i].turn = run[i].turn,
           \A p \in Saving(s) : pc'[p] = "save" /\ msg'[p] = msg[p] /\ SessOf(p)' = SessOf(p)
    PROVE  Owned(s)'
<1>1. CASE \E i \in LiveIn(s) : run[i].turn = state[s]
  BY <1>1 DEF Owned, LiveIn
<1>2. CASE \E p \in Saving(s) : msg[p] = state[s]
  BY <1>2 DEF Owned, Saving, At
<1>3. CASE state[s] \in wedged
  BY <1>3 DEF Owned
<1> QED
  BY <1>1, <1>2, <1>3 DEF Owned

LEMMA OwnerStep == TypeOK /\ Shape /\ ProcessingHasOwner /\ [Next]_vars => ProcessingHasOwner'
<1> SUFFICES ASSUME TypeOK, Shape, ProcessingHasOwner, [Next]_vars,
                    NEW s \in Sessions, Processing(s)'
             PROVE  Owned(s)'
  BY DEF ProcessingHasOwner, Owned
<1> USE DEF sched, calls, engine
<1>0. Processing(s) => Owned(s)
  BY DEF ProcessingHasOwner, Owned
<1>1. CASE Quiet
  BY <1>0, <1>1, OwnerKept DEF Quiet, Processing, LiveIn, Saving, At
<1>2. ASSUME NEW p \in Procs, Admit(p)
      PROVE  Owned(s)'
  <2>1. /\ state' = state /\ wedged' = wedged /\ run' = run
        /\ \A r \in Saving(s) : pc'[r] = "save" /\ msg'[r] = msg[r] /\ SessOf(r)' = SessOf(r)
    BY <1>2 DEF Admit, TypeOK, Saving, At, SessOf
  <2> QED
    BY <1>0, <2>1, OwnerKept DEF Processing, LiveIn, Live
<1>3. ASSUME NEW p \in Procs, FailBeforeMark(p)
      PROVE  Owned(s)'
  <2>1. /\ state' = state /\ wedged' = wedged /\ run' = run
        /\ pc[p] = "mark" /\ Return(p)
    BY <1>3 DEF FailBeforeMark, FailStart
  <2>2. \A r \in Saving(s) : pc'[r] = "save" /\ msg'[r] = msg[r] /\ SessOf(r)' = SessOf(r)
    BY <2>1, TurnAssumption DEF Return, TypeOK, Shape, Saving, At, SessOf, Procs, Starting
  <2> QED
    BY <1>0, <2>1, <2>2, OwnerKept DEF Processing, LiveIn, Live
<1>4. ASSUME NEW p \in Procs, Mark(p)
      PROVE  Owned(s)'
  <2>1. /\ SessOf(p) \in Sessions /\ msg[p] \in Messages /\ SessionOf[msg[p]] = SessOf(p)
    BY <1>4, CallerSession DEF Mark, Starting
  <2>2. /\ state' = [state EXCEPT ![SessOf(p)] = msg[p]]
        /\ wedged' = wedged \ {msg[p]}
        /\ pc' = [pc EXCEPT ![p] = "save"]
        /\ UNCHANGED <<run, msg, handling>>
    BY <1>4 DEF Mark
  <2>3. CASE s = SessOf(p)
    <3>1. p \in Saving(s)' /\ msg'[p] = state'[s]
      BY <2>1, <2>2, <2>3 DEF TypeOK, Saving, At, SessOf
    <3> QED
      BY <3>1 DEF Owned
  <2>4. CASE s # SessOf(p)
    <3>1. state'[s] = state[s]
      BY <2>2, <2>4 DEF TypeOK
    <3>2. Owned(s) /\ SessionOf[state[s]] = s
      BY <1>0, <3>1 DEF Processing, Shape
    <3>3. state[s] # msg[p]
      BY <2>1, <2>4, <3>2
    <3>4. /\ \A i \in LiveIn(s) : i \in LiveIn(s)' /\ run'[i].turn = run[i].turn
          /\ \A r \in Saving(s) : r \in Saving(s)' /\ msg'[r] = msg[r]
      BY <2>2 DEF LiveIn, Live, Saving, At, SessOf, TypeOK
    <3> QED
      BY <2>2, <3>1, <3>2, <3>3, <3>4 DEF Owned
  <2> QED
    BY <2>3, <2>4
<1>5. ASSUME NEW p \in Procs, FailAfterMark(p)
      PROVE  Owned(s)'
  <2>1. /\ state' = state /\ run' = run
        /\ pc[p] = "save" /\ Return(p) /\ wedged' = wedged \cup {msg[p]}
    BY <1>5 DEF FailAfterMark, FailStart
  <2>2. \A r \in Saving(s) :
           r # p => pc'[r] = "save" /\ msg'[r] = msg[r] /\ SessOf(r)' = SessOf(r)
    BY <2>1, TurnAssumption DEF Return, TypeOK, Shape, Saving, At, SessOf, Procs, Starting
  <2>3. CASE p \in Saving(s) /\ msg[p] = state[s]
    BY <2>1, <2>3 DEF Owned
  <2>4. CASE ~(p \in Saving(s) /\ msg[p] = state[s])
    BY <1>0, <2>1, <2>2, <2>4 DEF Owned, Processing, LiveIn, Live, Saving, At
  <2> QED
    BY <2>3, <2>4
<1>6. ASSUME NEW p \in Procs, Spawn(p)
      PROVE  Owned(s)'
  <2>1. PICK i \in Slots :
          /\ run[i].pc = "free"
          /\ run' = [run EXCEPT ![i] = [pc |-> "begin", turn |-> msg[p], token |-> "none",
                                        left |-> MaxRounds, kind |-> "none"]]
    BY <1>6 DEF Spawn
  <2>2. /\ SessOf(p) \in Sessions /\ msg[p] \in Messages /\ SessionOf[msg[p]] = SessOf(p)
    BY <1>6, CallerSession DEF Spawn, Starting
  <2>3. /\ pc' = [pc EXCEPT ![p] = "resolve"]
        /\ UNCHANGED <<state, wedged, msg, handling>>
    BY <1>6 DEF Spawn
  <2>4. /\ \A j \in LiveIn(s) : j \in LiveIn(s)' /\ run'[j].turn = run[j].turn
        /\ \A r \in Saving(s) : r # p => r \in Saving(s)' /\ msg'[r] = msg[r]
        /\ p \in Saving(s) => i \in LiveIn(s)' /\ run'[i].turn = msg[p]
    BY <2>1, <2>2, <2>3 DEF LiveIn, Live, Saving, At, SessOf, TypeOK
  <2> QED
    BY <1>0, <2>3, <2>4 DEF Owned, Processing
<1>7. ASSUME NEW i \in Slots, Begin(i)
      PROVE  Owned(s)'
  <2>1. /\ run[i].pc = "begin" /\ run[i].turn \in Messages
        /\ state' = [state EXCEPT ![SessionOf[run[i].turn]] = run[i].turn]
        /\ run' = [run EXCEPT ![i].pc = "loop"]
        /\ UNCHANGED <<pc, msg, handling, wedged>>
    BY <1>7 DEF Begin, Shape
  <2>2. \A j \in Slots : run'[j].turn = run[j].turn /\ (Live(j) => Live(j)')
    BY <2>1 DEF TypeOK, RunType, Live
  <2>3. CASE s = SessionOf[run[i].turn]
    <3>1. i \in LiveIn(s)' /\ run'[i].turn = state'[s]
      BY <2>1, <2>2, <2>3 DEF LiveIn, Live, TypeOK
    <3> QED
      BY <3>1 DEF Owned
  <2>4. CASE s # SessionOf[run[i].turn]
    <3>1. state'[s] = state[s]
      BY <2>1, <2>4 DEF TypeOK
    <3> QED
      BY <1>0, <2>1, <2>2, <3>1, OwnerKept DEF Processing, LiveIn, Saving, At, SessOf
  <2> QED
    BY <2>3, <2>4
<1>8. ASSUME NEW i \in Slots, Settle(i)
      PROVE  Owned(s)'
  <2>1. PICK x \in {"idle", "error"} :
          /\ state' = [state EXCEPT ![SessionOf[run[i].turn]] = x]
          /\ run' = [run EXCEPT ![i].pc = "report"]
          /\ UNCHANGED <<pc, msg, handling, wedged>>
    BY <1>8 DEF Settle
  <2>2. s # SessionOf[run[i].turn] /\ state'[s] = state[s]
    BY <2>1, TurnAssumption DEF TypeOK, Processing
  <2>3. \A j \in Slots : run'[j].turn = run[j].turn /\ (Live(j) /\ j # i => Live(j)')
    BY <2>1 DEF TypeOK, RunType, Live
  <2> QED
    BY <1>0, <2>1, <2>2, <2>3, OwnerKept DEF Processing, LiveIn, Saving, At, SessOf
<1>9. ASSUME NEW c \in Cancels, SetIdle(c) \/ SetIdleUnsaved(c)
      PROVE  Owned(s)'
  <2>1. /\ state' = [state EXCEPT ![cancel[c].s] = "idle"]
        /\ UNCHANGED <<pc, msg, handling, run, wedged>>
    BY <1>9 DEF SetIdle, SetIdleUnsaved
  <2>2. state'[s] = state[s]
    BY <2>1, TurnAssumption DEF TypeOK, Processing
  <2> QED
    BY <1>0, <2>1, <2>2, OwnerKept DEF Processing, LiveIn, Live, Saving, At, SessOf
<1> QED
  BY <1>1, <1>2, <1>3, <1>4, <1>5, <1>6, <1>7, <1>8, <1>9, QuietOrLoud DEF Loud

\* A session that is Processing always has a task or a call that will set it
\* to something else, unless a start failed between marking and spawning.
THEOREM ProcessingOwned == Spec => []ProcessingHasOwner
<1>1. Init => ProcessingHasOwner
  BY TurnAssumption DEF Init, ProcessingHasOwner, Processing
<1>2. TypeOK /\ Shape /\ ProcessingHasOwner /\ [Next]_vars => ProcessingHasOwner'
  BY OwnerStep
<1> QED
  BY <1>1, <1>2, TurnTypeCorrect, PTL DEF Spec
-----------------------------------------------------------------------------
\* One turn at a time in a session, and while it executes, or a call is about to
\* spawn its task, the session says so: that is what keeps Admit away.
OneTurnIn(s) ==
    /\ \A i, j \in LiveIn(s) : i = j
    /\ \A p, q \in Marking(s) \cup Saving(s) : p = q
    /\ LiveIn(s) # {} => Marking(s) \cup Saving(s) = {}
    /\ LiveIn(s) \cup Saving(s) # {} => Processing(s)

OneTurnInv == \A s \in Sessions \ disturbed : OneTurnIn(s)

\* Nothing begins to execute or to be started, and the session stays Processing.
LEMMA OneTurnKept ==
    ASSUME NEW s \in Sessions, OneTurnIn(s), Processing(s) => Processing(s)',
           LiveIn(s)' \subseteq LiveIn(s), Marking(s)' \subseteq Marking(s),
           Saving(s)' \subseteq Saving(s)
    PROVE  OneTurnIn(s)'
BY DEF OneTurnIn

LEMMA OneTurnStep == TypeOK /\ Shape /\ OneTurnInv /\ [Next]_vars => OneTurnInv'
<1> SUFFICES ASSUME TypeOK, Shape, OneTurnInv, [Next]_vars,
                    NEW s \in Sessions, s \notin disturbed'
             PROVE  OneTurnIn(s)'
  BY DEF OneTurnInv
<1> USE DEF sched, calls, engine
<1>0. s \notin disturbed => OneTurnIn(s)
  BY DEF OneTurnInv
<1>1. CASE Quiet
  <2>1. s \notin disturbed /\ (Processing(s) => Processing(s)')
    BY <1>1 DEF Quiet, Processing
  <2>2. /\ LiveIn(s)' \subseteq LiveIn(s)
        /\ Marking(s)' \subseteq Marking(s) /\ Saving(s)' \subseteq Saving(s)
    BY <1>1 DEF Quiet, LiveIn, Marking, Saving, At
  <2> QED
    BY <1>0, <2>1, <2>2, OneTurnKept
<1>2. ASSUME NEW p \in Procs, Admit(p)
      PROVE  OneTurnIn(s)'
  <2>1. /\ UNCHANGED <<state, run, handling>> /\ pc' = [pc EXCEPT ![p] = "mark"]
        /\ ~Processing(SessOf(p))
        /\ disturbed' = IF Marking(SessOf(p)) # {} THEN disturbed \cup {SessOf(p)} ELSE disturbed
    BY <1>2 DEF Admit
  <2>2. OneTurnIn(s) /\ (Processing(s) <=> Processing(s)')
    BY <1>0, <2>1 DEF Processing
  <2>3. LiveIn(s)' = LiveIn(s) /\ Saving(s)' \subseteq Saving(s)
    BY <2>1 DEF LiveIn, Live, Saving, At, SessOf, TypeOK
  <2>4. CASE s = SessOf(p)
    <3>1. LiveIn(s) = {} /\ Saving(s) = {} /\ Marking(s) = {}
      BY <2>1, <2>2, <2>4 DEF OneTurnIn
    <3>2. Marking(s)' \subseteq {p}
      BY <2>1, <3>1 DEF Marking, At, SessOf, TypeOK
    <3> QED
      BY <2>3, <3>1, <3>2 DEF OneTurnIn
  <2>5. CASE s # SessOf(p)
    <3>1. Marking(s)' \subseteq Marking(s)
      BY <2>1, <2>5 DEF Marking, At, SessOf, TypeOK
    <3> QED
      BY <2>2, <2>3, <3>1, OneTurnKept
  <2> QED
    BY <2>4, <2>5
<1>3. ASSUME NEW p \in Procs, FailBeforeMark(p) \/ FailAfterMark(p)
      PROVE  OneTurnIn(s)'
  <2>1. /\ UNCHANGED <<state, run, disturbed>>
        /\ pc[p] \in {"mark", "save"} /\ Return(p)
    BY <1>3 DEF FailBeforeMark, FailAfterMark, FailStart
  <2>2. \A r \in Procs : \A l \in {"mark", "save"} :
           pc'[r] = l => pc[r] = l /\ SessOf(r)' = SessOf(r)
    BY <2>1, TurnAssumption DEF Return, TypeOK, Shape, SessOf, Procs, Starting
  <2>3. Marking(s)' \subseteq Marking(s) /\ Saving(s)' \subseteq Saving(s)
    BY <2>2 DEF Marking, Saving, At
  <2>4. LiveIn(s)' = LiveIn(s) /\ (Processing(s) => Processing(s)') /\ s \notin disturbed
    BY <2>1 DEF LiveIn, Live, Processing
  <2> QED
    BY <1>0, <2>3, <2>4, OneTurnKept
<1>4. ASSUME NEW p \in Procs, Mark(p)
      PROVE  OneTurnIn(s)'
  <2>1. SessOf(p) \in Sessions /\ msg[p] \in Messages
    BY <1>4, CallerSession DEF Mark, Starting
  <2>2. /\ state' = [state EXCEPT ![SessOf(p)] = msg[p]]
        /\ pc[p] = "mark" /\ pc' = [pc EXCEPT ![p] = "save"]
        /\ UNCHANGED <<run, handling, disturbed>>
    BY <1>4 DEF Mark
  <2>3. OneTurnIn(s) /\ LiveIn(s)' = LiveIn(s)
    BY <1>0, <2>2 DEF LiveIn, Live
  <2>4. Processing(s) => Processing(s)'
    BY <2>1, <2>2 DEF Processing, TypeOK
  <2>5. Marking(s)' \subseteq Marking(s)
    BY <2>2 DEF Marking, At, SessOf, TypeOK
  <2>6. CASE s = SessOf(p)
    <3>1. p \in Marking(s)
      BY <2>2, <2>6 DEF Marking, At
    <3>2. Processing(s)'
      BY <2>1, <2>2, <2>6 DEF Processing, TypeOK
    <3>3. Marking(s)' \cup Saving(s)' \subseteq Marking(s) \cup Saving(s)
      BY <2>2, <2>5, <3>1 DEF Saving, At, SessOf, TypeOK
    <3> QED
      BY <2>3, <3>2, <3>3 DEF OneTurnIn
  <2>7. CASE s # SessOf(p)
    <3>1. Saving(s)' \subseteq Saving(s)
      BY <2>2, <2>7 DEF Saving, At, SessOf, TypeOK
    <3> QED
      BY <2>3, <2>4, <2>5, <3>1, OneTurnKept
  <2> QED
    BY <2>6, <2>7
<1>5. ASSUME NEW p \in Procs, Spawn(p)
      PROVE  OneTurnIn(s)'
  <2>1. PICK i \in Slots :
          /\ run[i].pc = "free"
          /\ run' = [run EXCEPT ![i] = [pc |-> "begin", turn |-> msg[p], token |-> "none",
                                        left |-> MaxRounds, kind |-> "none"]]
    BY <1>5 DEF Spawn
  <2>2. SessOf(p) \in Sessions /\ SessionOf[msg[p]] = SessOf(p)
    BY <1>5, CallerSession DEF Spawn, Starting
  <2>3. /\ pc[p] = "save" /\ pc' = [pc EXCEPT ![p] = "resolve"]
        /\ UNCHANGED <<state, handling, disturbed>>
    BY <1>5 DEF Spawn
  <2>4. OneTurnIn(s) /\ (Processing(s) <=> Processing(s)')
    BY <1>0, <2>3 DEF Processing
  <2>5. /\ Marking(s)' \subseteq Marking(s) /\ Saving(s)' \subseteq Saving(s) \ {p}
    BY <2>3 DEF Marking, Saving, At, SessOf, TypeOK
  <2>6. CASE s = SessOf(p)
    <3>1. p \in Saving(s)
      BY <2>3, <2>6 DEF Saving, At
    <3>2. LiveIn(s) = {} /\ Processing(s) /\ Marking(s)' \cup Saving(s)' = {}
      BY <2>4, <2>5, <3>1, <2>3 DEF OneTurnIn, Marking, At
    <3>3. LiveIn(s)' \subseteq {i}
      BY <2>1, <3>2 DEF LiveIn, Live, TypeOK
    <3> QED
      BY <2>4, <3>2, <3>3 DEF OneTurnIn
  <2>7. CASE s # SessOf(p)
    <3>1. LiveIn(s)' \subseteq LiveIn(s)
      BY <2>1, <2>2, <2>7 DEF LiveIn, Live, TypeOK
    <3> QED
      BY <2>4, <2>5, <3>1, OneTurnKept
  <2> QED
    BY <2>6, <2>7
<1>6. ASSUME NEW i \in Slots, Begin(i)
      PROVE  OneTurnIn(s)'
  <2>1. /\ run[i].pc = "begin" /\ run[i].turn \in Messages
        /\ state' = [state EXCEPT ![SessionOf[run[i].turn]] = run[i].turn]
        /\ run' = [run EXCEPT ![i].pc = "loop"]
        /\ UNCHANGED <<pc, handling, disturbed>>
    BY <1>6 DEF Begin, Shape
  <2>2. LiveIn(s)' \subseteq LiveIn(s)
    BY <2>1 DEF TypeOK, RunType, LiveIn, Live
  <2>3. Processing(s) => Processing(s)'
    BY <2>1 DEF Processing, TypeOK
  <2>4. Marking(s)' = Marking(s) /\ Saving(s)' = Saving(s)
    BY <2>1 DEF Marking, Saving, At, SessOf
  <2> QED
    BY <1>0, <2>1, <2>2, <2>3, <2>4, OneTurnKept
<1>7. ASSUME NEW i \in Slots, Settle(i)
      PROVE  OneTurnIn(s)'
  <2>1. PICK x \in {"idle", "error"} :
          /\ run[i].pc = "settle"
          /\ state' = [state EXCEPT ![SessionOf[run[i].turn]] = x]
          /\ run' = [run EXCEPT ![i].pc = "report"]
          /\ UNCHANGED <<pc, handling, disturbed>>
    BY <1>7 DEF Settle
  <2>2. LiveIn(s)' \subseteq LiveIn(s) \ {i}
    BY <2>1 DEF TypeOK, RunType, LiveIn, Live
  <2>3. Marking(s)' = Marking(s) /\ Saving(s)' = Saving(s) /\ OneTurnIn(s)
    BY <1>0, <2>1 DEF Marking, Saving, At, SessOf
  <2>4. CASE s = SessionOf[run[i].turn]
    <3>1. i \in LiveIn(s)
      BY <2>1, <2>4 DEF LiveIn, Live
    <3>2. LiveIn(s)' = {} /\ Marking(s)' \cup Saving(s)' = {}
      BY <2>2, <2>3, <3>1 DEF OneTurnIn
    <3> QED
      BY <3>2 DEF OneTurnIn
  <2>5. CASE s # SessionOf[run[i].turn]
    <3>1. Processing(s) => Processing(s)'
      BY <2>1, <2>5 DEF Processing, TypeOK
    <3> QED
      BY <2>2, <2>3, <3>1, OneTurnKept
  <2> QED
    BY <2>4, <2>5
<1>8. ASSUME NEW c \in Cancels, SetIdle(c) \/ SetIdleUnsaved(c)
      PROVE  OneTurnIn(s)'
  <2>1. /\ state' = [state EXCEPT ![cancel[c].s] = "idle"]
        /\ disturbed' = disturbed \cup {cancel[c].s}
        /\ UNCHANGED <<pc, handling, run>>
    BY <1>8 DEF SetIdle, SetIdleUnsaved
  <2>2. s \notin disturbed /\ (Processing(s) => Processing(s)')
    BY <2>1 DEF TypeOK, Processing
  <2>3. LiveIn(s)' = LiveIn(s) /\ Marking(s)' = Marking(s) /\ Saving(s)' = Saving(s)
    BY <2>1 DEF LiveIn, Live, Marking, Saving, At, SessOf
  <2> QED
    BY <1>0, <2>2, <2>3, OneTurnKept
<1> QED
  BY <1>1, <1>2, <1>3, <1>4, <1>5, <1>6, <1>7, <1>8, QuietOrLoud DEF Loud

\* As long as no two starts have overlapped and no turn was cancelled in a
\* session, it executes one turn at a time and nothing is about to start a second.
THEOREM OneTurnHolds == Spec => []OneTurnUnlessDisturbed
<1>1. Init => OneTurnInv
  BY TurnAssumption DEF Init, OneTurnInv, OneTurnIn, LiveIn, Live, Free, Marking, Saving, At
<1>2. TypeOK /\ Shape /\ OneTurnInv /\ [Next]_vars => OneTurnInv'
  BY OneTurnStep
<1>3. OneTurnInv => OneTurnUnlessDisturbed
  BY DEF OneTurnInv, OneTurnIn, OneTurnUnlessDisturbed
<1> QED
  BY <1>1, <1>2, <1>3, TurnTypeCorrect, PTL DEF Spec
-----------------------------------------------------------------------------
\* Only StartRound adds a token, and only Finish, which removes the token, takes a
\* task out of its rounds.
LEMMA TokensStep == TypeOK /\ Shape /\ TokensHaveExecution /\ [Next]_vars => TokensHaveExecution'
<1> SUFFICES ASSUME TypeOK, Shape, TokensHaveExecution, [Next]_vars, NEW t \in tokens'
             PROVE  \E j \in Slots : run'[j].turn = t /\ run'[j].pc \in {"loop", "round"}
  BY DEF TokensHaveExecution
<1> USE DEF sched, calls, engine
<1>0. run \in [Slots -> RunType]
  BY DEF TypeOK
<1>1. t \in tokens => \E j \in Slots : run[j].turn = t /\ run[j].pc \in {"loop", "round"}
  BY DEF TokensHaveExecution
<1>2. CASE UNCHANGED <<run, tokens>>
  BY <1>1, <1>2
<1>3. ASSUME NEW p \in Procs, Spawn(p)
      PROVE  \E j \in Slots : run'[j].turn = t /\ run'[j].pc \in {"loop", "round"}
  BY <1>0, <1>1, <1>3 DEF Spawn
<1>4. ASSUME NEW i \in Slots, StartRound(i)
      PROVE  \E j \in Slots : run'[j].turn = t /\ run'[j].pc \in {"loop", "round"}
  BY <1>0, <1>1, <1>4 DEF StartRound
<1>5. ASSUME NEW i \in Slots, NEW k \in Kinds, run[i].pc \in {"loop", "round"}, Finish(i, k)
      PROVE  \E j \in Slots : run'[j].turn = t /\ run'[j].pc \in {"loop", "round"}
  <2>1. t \in tokens /\ t # run[i].turn
    BY <1>5 DEF Finish
  <2>2. PICK j \in Slots : run[j].turn = t /\ run[j].pc \in {"loop", "round"}
    BY <1>1, <2>1
  <2>3. run'[j] = run[j]
    BY <1>5, <2>1, <2>2 DEF Finish
  <2> QED
    BY <2>2, <2>3
<1>6. ASSUME NEW i \in Slots, Begin(i) \/ Continue(i)
      PROVE  \E j \in Slots : run'[j].turn = t /\ run'[j].pc \in {"loop", "round"}
  BY <1>0, <1>1, <1>6 DEF Begin, Continue, RunType
<1>7. ASSUME NEW i \in Slots, Settle(i) \/ Report(i)
      PROVE  \E j \in Slots : run'[j].turn = t /\ run'[j].pc \in {"loop", "round"}
  <2>1. /\ tokens' = tokens /\ run[i].pc \notin {"loop", "round"}
        /\ \A j \in Slots \ {i} : run'[j] = run[j]
    BY <1>0, <1>7 DEF Settle, Report
  <2> QED
    BY <1>1, <2>1
<1>8. ASSUME NEW c \in Cancels, Stop(c)
      PROVE  \E j \in Slots : run'[j].turn = t /\ run'[j].pc \in {"loop", "round"}
  <2>1. t \in tokens /\ \A j \in Slots : run'[j].turn = run[j].turn /\ run'[j].pc = run[j].pc
    BY <1>0, <1>8 DEF Stop, RunType
  <2> QED
    BY <1>1, <2>1
<1>9. ASSUME NEW m \in Messages, SubmitStep(m)
      PROVE  UNCHANGED <<run, tokens>>
  BY <1>9 DEF SubmitStep, Submit, Reject, QueueUp, QueueUpAndDispatch, StartAtOnce
<1>10. ASSUME NEW p \in Procs, DispatchStep(p), ~Spawn(p)
       PROVE  UNCHANGED <<run, tokens>>
  BY <1>10 DEF DispatchStep, NothingToStart, Dequeue, Start, Admit, Refuse, FailBeforeMark, Mark,
               FailAfterMark, Resolve, FailResolve, FailStart
<1>11. ASSUME HandlerStep
       PROVE  UNCHANGED <<run, tokens>>
  BY <1>11 DEF HandlerStep, Receive, Forwarded, DispatchNext, ClearAfterFailure
<1>12. ASSUME NEW i \in Slots, Execute(i)
       PROVE  \E j \in Slots : run'[j].turn = t /\ run'[j].pc \in {"loop", "round"}
  <2>1. CASE FinishBetweenRounds(i) \/ FinishInRound(i) \/ FinishAfterRound(i)
    BY <1>5, <2>1 DEF FinishBetweenRounds, FinishInRound, FinishAfterRound, Kinds
  <2> QED
    BY <1>4, <1>6, <1>7, <1>12, <2>1 DEF Execute
<1>13. ASSUME NEW c \in Cancels, CancelRequest(c), ~Stop(c)
       PROVE  UNCHANGED <<run, tokens>>
  BY <1>13 DEF CancelRequest, AskToCancel, AskFromSession, CancelStep, FindActive, FindNothing,
               SetIdle, SetIdleUnsaved, Notify
<1> QED
  BY <1>2, <1>3, <1>8, <1>9, <1>10, <1>11, <1>12, <1>13 DEF Next, CancelRequest, Finished, vars

\* A cancellation token exists only while its turn is executing rounds.
THEOREM TokensBounded == Spec => []TokensHaveExecution
<1>1. Init => TokensHaveExecution
  BY DEF Init, TokensHaveExecution
<1>2. TypeOK /\ Shape /\ TokensHaveExecution /\ [Next]_vars => TokensHaveExecution'
  BY TokensStep
<1> QED
  BY <1>1, <1>2, TurnTypeCorrect, PTL DEF Spec
-----------------------------------------------------------------------------
\* The stages of a call at which it will still look at its session's queue.
Waking == {"reply", "act", "next", "start", "mark", "save", "resolve"}

Watched(s) == queue[s] # <<>> => Wakeup(s) \/ stranded[s] \/ state[s] \in wedged

\* What keeps the queue of s watched: its wake-ups stay.
RunsKept(s) ==
    \A i \in Slots : run[i].pc # "free" /\ SessionOf[run[i].turn] = s =>
        run'[i].pc # "free" /\ run'[i].turn = run[i].turn
ChannelKept(s) ==
    \A k \in DOMAIN channel : channel[k].s = s => \E l \in DOMAIN channel' : channel'[l].s = s
CallsKept(s) ==
    \A p \in Procs : pc[p] \in Waking /\ SessOf(p) = s =>
        \E q \in Procs : pc'[q] \in Waking /\ SessOf(q)' = s
CancelsKept(s) ==
    \A c \in Cancels : cancel[c].pc = "notify" /\ cancel[c].s = s => cancel'[c] = cancel[c]

LEMMA WakeupStays ==
    ASSUME NEW s \in Sessions, RunsKept(s), ChannelKept(s), CallsKept(s), CancelsKept(s)
    PROVE  Wakeup(s) => Wakeup(s)'
<1>1. CASE \E i \in Slots : run[i].pc # "free" /\ SessionOf[run[i].turn] = s
  BY <1>1 DEF RunsKept, Wakeup
<1>2. CASE \E k \in DOMAIN channel : channel[k].s = s
  BY <1>2 DEF ChannelKept, Wakeup
<1>3. CASE \E p \in Procs : pc[p] \in Waking /\ SessOf(p) = s
  BY <1>3 DEF CallsKept, Wakeup, Waking
<1>4. CASE \E c \in Cancels : cancel[c].pc = "notify" /\ cancel[c].s = s
  BY <1>4 DEF CancelsKept, Wakeup
<1> QED
  BY <1>1, <1>2, <1>3, <1>4 DEF Wakeup, Waking

\* An outcome is added behind the others, if it fits.
LEMMA SendKeepsChannel ==
    ASSUME TypeOK, NEW o, TrySend(o), NEW s \in Sessions
    PROVE  ChannelKept(s)
<1>1. CASE channel' = channel
  BY <1>1 DEF ChannelKept
<1>2. CASE channel' = Append(channel, o)
  <2>1. channel \in Seq(OutcomeType)
    BY DEF TypeOK
  <2>2. \A k \in DOMAIN channel : k \in DOMAIN channel' /\ channel'[k] = channel[k]
    BY <1>2, <2>1
  <2> QED
    BY <2>2 DEF ChannelKept
<1> QED
  BY <1>1, <1>2 DEF TrySend

\* A call that goes on, or returns, leaves the others where they are.
LEMMA CallMoves ==
    ASSUME TypeOK, NEW p \in Procs, NEW l, pc' = [pc EXCEPT ![p] = l], UNCHANGED handling,
           NEW s \in Sessions, l \in Waking \/ pc[p] \notin Waking
    PROVE  CallsKept(s)
BY DEF CallsKept, TypeOK, SessOf

LEMMA CallReturns ==
    ASSUME TypeOK, NEW p \in Procs, Return(p), NEW s \in Sessions,
           pc[p] \notin Waking \/ SessOf(p) # s
    PROVE  CallsKept(s)
BY DEF CallsKept, TypeOK, SessOf, Return

\* Whoever re-examines the queue of s has recorded what it found.
LEMMA Rechecked ==
    ASSUME TypeOK, NEW s \in Sessions, Recheck(s)
    PROVE  Watched(s)'
BY DEF TypeOK, Recheck, Watched

LEMMA RecheckedElsewhere ==
    ASSUME TypeOK, NEW r \in Sessions, NEW s \in Sessions, Recheck(r), r # s
    PROVE  stranded'[s] = stranded[s]
BY DEF TypeOK, Recheck

\* A session that is Processing in earnest has a wake-up.
LEMMA OwnerWakes ==
    ASSUME TypeOK, ProcessingHasOwner, NEW s \in Sessions, Processing(s), state[s] \notin wedged
    PROVE  \/ \E i \in Slots : run[i].pc # "free" /\ SessionOf[run[i].turn] = s
           \/ \E p \in Procs : pc[p] = "save" /\ SessOf(p) = s
<1>1. LiveIn(s) # {} \/ Saving(s) # {}
  BY DEF ProcessingHasOwner
<1> QED
  BY <1>1 DEF LiveIn, Live, Saving, At

\* The queue of s stays watched if it does not become longer and what watches it stays.
LEMMA WatchStays ==
    ASSUME NEW s \in Sessions, Watched(s), queue'[s] # <<>> => queue[s] # <<>>,
           stranded[s] => stranded'[s] \/ queue'[s] = <<>>,
           state[s] \in wedged => state'[s] \in wedged' \/ Wakeup(s)',
           Wakeup(s) => Wakeup(s)'
    PROVE  Watched(s)'
BY DEF Watched
-----------------------------------------------------------------------------
\* Step by step, for the queue of one session.
LEMMA SubmitWatched ==
    ASSUME TypeOK, Shape, NEW s \in Sessions, Watched(s), NEW m \in Messages, SubmitStep(m)
    PROVE  Watched(s)'
<1> USE DEF sched, calls, engine
<1>0. m \in Procs /\ m # Handler /\ SessOf(m) = SessionOf[m] /\ SessionOf[m] \in Sessions
  BY TurnAssumption DEF Procs, SessOf
<1>1. UNCHANGED <<state, wedged, run, channel, cancel>>
  BY DEF SubmitStep, Submit, Reject, QueueUp, QueueUpAndDispatch, StartAtOnce
<1>2. RunsKept(s) /\ ChannelKept(s) /\ CancelsKept(s)
  BY <1>1 DEF RunsKept, ChannelKept, CancelsKept
<1>3. pc[m] \notin Waking
  BY DEF SubmitStep, Submit, Reject, QueueUp, QueueUpAndDispatch, StartAtOnce, Waking
<1>4. CallsKept(s)
  <2>1. CASE Reject(m) \/ QueueUp(m)
    BY <1>0, <1>3, <2>1, CallReturns DEF Reject, QueueUp
  <2>2. CASE Submit(m) \/ QueueUpAndDispatch(m) \/ StartAtOnce(m)
    <3>1. UNCHANGED handling /\ \E l : pc' = [pc EXCEPT ![m] = l]
      BY <2>2 DEF Submit, QueueUpAndDispatch, StartAtOnce
    <3> QED
      BY <1>0, <1>3, <3>1, CallMoves
  <2> QED
    BY <2>1, <2>2 DEF SubmitStep
<1>5. Wakeup(s) => Wakeup(s)'
  BY <1>2, <1>4, WakeupStays
<1>6. CASE Submit(m) \/ Reject(m)
  <2>1. UNCHANGED <<queue, stranded>>
    BY <1>6 DEF Submit, Reject
  <2> QED
    BY <1>1, <1>5, <2>1, WatchStays
<1>7. CASE QueueUp(m)
  <2>1. CASE s = SessionOf[m]
    BY <1>7, <2>1, Rechecked DEF QueueUp
  <2>2. CASE s # SessionOf[m]
    <3>1. queue'[s] = queue[s] /\ stranded'[s] = stranded[s]
      BY <1>0, <1>7, <2>2, RecheckedElsewhere DEF QueueUp, Enqueue, TypeOK
    <3> QED
      BY <1>1, <1>5, <3>1, WatchStays
  <2> QED
    BY <2>1, <2>2
<1>8. CASE QueueUpAndDispatch(m)
  <2>1. CASE s = SessionOf[m]
    <3>1. pc'[m] = "next" /\ SessOf(m)' = s
      BY <1>0, <1>8, <2>1 DEF QueueUpAndDispatch, TypeOK, SessOf
    <3> QED
      BY <1>0, <3>1 DEF Watched, Wakeup
  <2>2. CASE s # SessionOf[m]
    <3>1. queue'[s] = queue[s] /\ stranded'[s] = stranded[s]
      BY <1>0, <1>8, <2>2 DEF QueueUpAndDispatch, Enqueue, TypeOK
    <3> QED
      BY <1>1, <1>5, <3>1, WatchStays
  <2> QED
    BY <2>1, <2>2
<1>9. CASE StartAtOnce(m)
  <2>1. CASE s = SessionOf[m]
    <3>1. pc'[m] = "start" /\ SessOf(m)' = s
      BY <1>0, <1>9, <2>1 DEF StartAtOnce, TypeOK, SessOf
    <3> QED
      BY <1>0, <3>1 DEF Watched, Wakeup
  <2>2. CASE s # SessionOf[m]
    <3>1. queue'[s] = queue[s] /\ stranded'[s] = stranded[s]
      BY <1>0, <1>9, <2>2 DEF StartAtOnce, ClearQueue, QueueEmptied, TypeOK
    <3> QED
      BY <1>1, <1>5, <3>1, WatchStays
  <2> QED
    BY <2>1, <2>2
<1> QED
  BY <1>6, <1>7, <1>8, <1>9 DEF SubmitStep

\* A call that returns without recheck does so because the queue is empty or
\* the session is Processing, and then the owner is a wake-up.
LEMMA ReturnWatched ==
    ASSUME TypeOK, Shape, ProcessingHasOwner, NEW s \in Sessions, Watched(s),
           NEW p \in Procs, pc[p] \in {"next", "start", "resolve"}, Return(p),
           Processing(SessOf(p)) \/ (queue[SessOf(p)] = <<>> /\ UNCHANGED queue),
           UNCHANGED <<state, wedged, run, channel, cancel, stranded>>,
           SessOf(p) # s => UNCHANGED queue
    PROVE  Watched(s)'
<1>2. RunsKept(s) /\ ChannelKept(s) /\ CancelsKept(s)
  BY DEF RunsKept, ChannelKept, CancelsKept
<1>3. CASE SessOf(p) # s
  <2>1. CallsKept(s)
    BY <1>3, CallReturns
  <2> QED
    BY <1>2, <1>3, <2>1, WakeupStays, WatchStays
<1>4. CASE SessOf(p) = s /\ Processing(s)
  <2>1. CASE state[s] \in wedged
    BY <2>1 DEF Watched
  <2>2. CASE \E i \in Slots : run[i].pc # "free" /\ SessionOf[run[i].turn] = s
    BY <2>2 DEF Watched, Wakeup
  <2>3. ASSUME NEW q \in Procs, pc[q] = "save", SessOf(q) = s
        PROVE  Watched(s)'
    <3>1. pc'[q] = "save" /\ SessOf(q)' = s
      BY <2>3 DEF Return, TypeOK, SessOf
    <3> QED
      BY <3>1 DEF Watched, Wakeup
  <2> QED
    BY <1>4, <2>1, <2>2, <2>3, OwnerWakes
<1>5. CASE SessOf(p) = s /\ queue[s] = <<>> /\ UNCHANGED queue
  BY <1>5 DEF Watched
<1> QED
  BY <1>3, <1>4, <1>5

\* A start that fails, with somebody re-examining the queue.
LEMMA FailureWatched ==
    ASSUME TypeOK, Shape, NEW s \in Sessions, Watched(s), NEW p \in Procs, SessOf(p) \in Sessions,
           FailStart(p), Recheck(SessOf(p)), state[s] \in wedged => state[s] \in wedged'
    PROVE  Watched(s)'
<1> USE DEF sched, engine
<1>1. CASE SessOf(p) = s
  BY <1>1, Rechecked
<1>2. CASE SessOf(p) # s
  <2>1. UNCHANGED <<state, run, channel, cancel>> /\ Return(p)
    BY DEF FailStart
  <2>2. RunsKept(s) /\ ChannelKept(s) /\ CancelsKept(s) /\ CallsKept(s)
    BY <1>2, <2>1, CallReturns DEF RunsKept, ChannelKept, CancelsKept
  <2>3. queue'[s] = queue[s] /\ stranded'[s] = stranded[s]
    BY <1>2, RecheckedElsewhere DEF FailStart, TypeOK
  <2> QED
    BY <2>1, <2>2, <2>3, WakeupStays, WatchStays
<1> QED
  BY <1>1, <1>2

LEMMA DispatchWatched ==
    ASSUME TypeOK, Shape, ProcessingHasOwner, NEW s \in Sessions, Watched(s),
           NEW p \in Procs, DispatchStep(p)
    PROVE  Watched(s)'
<1> USE DEF sched, calls, engine
<1>0. /\ pc[p] \in {"next"} \cup Starting /\ SessOf(p) \in Sessions
      /\ pc[p] \in Starting => msg[p] \in Messages /\ SessionOf[msg[p]] = SessOf(p)
  <2>1. pc[p] \in {"next"} \cup Starting
    BY DEF DispatchStep, NothingToStart, Dequeue, Start, Admit, Refuse, FailBeforeMark, Mark,
           FailAfterMark, Spawn, Resolve, FailResolve, Starting
  <2> QED
    BY <2>1, CallerSession
<1>1. CASE NothingToStart(p)
  BY <1>1, ReturnWatched DEF NothingToStart
<1>2. CASE Dequeue(p)
  <2>1. /\ UNCHANGED <<state, wedged, run, channel, cancel, handling>>
        /\ pc' = [pc EXCEPT ![p] = "start"]
    BY <1>2 DEF Dequeue
  <2>2. CASE s = SessOf(p)
    <3>1. pc'[p] = "start" /\ SessOf(p)' = s
      BY <2>1, <2>2 DEF TypeOK, SessOf
    <3> QED
      BY <3>1 DEF Watched, Wakeup
  <2>3. CASE s # SessOf(p)
    <3>1. queue'[s] = queue[s] /\ stranded'[s] = stranded[s]
      BY <1>0, <1>2, <2>3 DEF Dequeue, QueueEmptied, TypeOK
    <3>2. RunsKept(s) /\ ChannelKept(s) /\ CancelsKept(s) /\ CallsKept(s)
      BY <2>1, CallMoves DEF RunsKept, ChannelKept, CancelsKept, Waking
    <3> QED
      BY <2>1, <3>1, <3>2, WakeupStays, WatchStays
  <2> QED
    BY <2>2, <2>3
<1>3. CASE Admit(p)
  <2>1. /\ UNCHANGED <<state, queue, stranded, wedged, run, channel, cancel, handling>>
        /\ pc' = [pc EXCEPT ![p] = "mark"]
    BY <1>3 DEF Admit
  <2>2. RunsKept(s) /\ ChannelKept(s) /\ CancelsKept(s) /\ CallsKept(s)
    BY <2>1, CallMoves DEF RunsKept, ChannelKept, CancelsKept, Waking
  <2> QED
    BY <2>1, <2>2, WakeupStays, WatchStays
<1>4. CASE Refuse(p)
  <2>1. /\ UNCHANGED <<state, stranded, wedged, run, channel, cancel>>
        /\ Return(p) /\ Processing(SessOf(p)) /\ pc[p] = "start"
    BY <1>4 DEF Refuse, FailStart
  <2>2. CASE s # SessOf(p)
    <3>1. queue'[s] = queue[s]
      BY <1>4, <2>2 DEF Refuse, FailStart, TypeOK
    <3>2. RunsKept(s) /\ ChannelKept(s) /\ CancelsKept(s) /\ CallsKept(s)
      BY <2>1, <2>2, CallReturns DEF RunsKept, ChannelKept, CancelsKept
    <3> QED
      BY <2>1, <3>1, <3>2, WakeupStays, WatchStays
  <2>3. CASE s = SessOf(p)
    BY <2>1, <2>3, ReturnWatched
  <2> QED
    BY <2>2, <2>3
<1>5. CASE FailBeforeMark(p)
  BY <1>0, <1>5, FailureWatched DEF FailBeforeMark
<1>6. CASE Mark(p)
  <2>1. /\ UNCHANGED <<queue, stranded, run, channel, cancel, handling>>
        /\ pc' = [pc EXCEPT ![p] = "save"] /\ pc[p] = "mark"
        /\ state' = [state EXCEPT ![SessOf(p)] = msg[p]]
        /\ wedged' = wedged \ {msg[p]}
    BY <1>6 DEF Mark
  <2>2. CASE s = SessOf(p)
    <3>1. pc'[p] = "save" /\ SessOf(p)' = s
      BY <2>1, <2>2 DEF TypeOK, SessOf
    <3> QED
      BY <3>1 DEF Watched, Wakeup
  <2>3. CASE s # SessOf(p)
    <3>1. state'[s] = state[s]
      BY <2>1, <2>3 DEF TypeOK
    <3>2. state[s] \in wedged => state[s] # msg[p]
      BY <1>0, <2>1, <2>3 DEF Shape, TypeOK, Processing, Starting
    <3>3. RunsKept(s) /\ ChannelKept(s) /\ CancelsKept(s) /\ CallsKept(s)
      BY <2>1, CallMoves DEF RunsKept, ChannelKept, CancelsKept, Waking
    <3> QED
      BY <2>1, <3>1, <3>2, <3>3, WakeupStays, WatchStays
  <2> QED
    BY <2>2, <2>3
<1>7. CASE FailAfterMark(p)
  BY <1>0, <1>7, FailureWatched DEF FailAfterMark
<1>8. CASE Spawn(p)
  <2>1. PICK i \in Slots :
          /\ run[i].pc = "free"
          /\ run' = [run EXCEPT ![i] = [pc |-> "begin", turn |-> msg[p], token |-> "none",
                                        left |-> MaxRounds, kind |-> "none"]]
    BY <1>8 DEF Spawn
  <2>2. /\ UNCHANGED <<state, queue, stranded, wedged, channel, cancel, handling>>
        /\ pc' = [pc EXCEPT ![p] = "resolve"]
    BY <1>8 DEF Spawn
  <2>3. RunsKept(s)
    BY <2>1 DEF RunsKept, TypeOK
  <2>4. ChannelKept(s) /\ CancelsKept(s) /\ CallsKept(s)
    BY <2>2, CallMoves DEF ChannelKept, CancelsKept, Waking
  <2> QED
    BY <2>2, <2>3, <2>4, WakeupStays, WatchStays
<1>9. CASE Resolve(p)
  BY <1>9, ReturnWatched DEF Resolve
<1>10. CASE FailResolve(p)
  BY <1>0, <1>10, FailureWatched DEF FailResolve
<1> QED
  BY <1>1, <1>2, <1>3, <1>4, <1>5, <1>6, <1>7, <1>8, <1>9, <1>10 DEF DispatchStep, Start

LEMMA HandlerWatched ==
    ASSUME TypeOK, Shape, NEW s \in Sessions, Watched(s), HandlerStep
    PROVE  Watched(s)'
<1> USE DEF sched, calls, engine
<1>0. /\ Handler \in Procs /\ Handler \notin Messages
      /\ SessOf(Handler) = handling.s
      /\ UNCHANGED <<state, wedged, run, cancel>>
  BY TurnAssumption DEF Procs, SessOf, HandlerStep, Receive, Forwarded, DispatchNext, ClearAfterFailure
<1>1. RunsKept(s) /\ CancelsKept(s)
  BY <1>0 DEF RunsKept, CancelsKept
<1>2. CASE Receive
  <2> DEFINE o == Head(channel)
  <2>1. /\ UNCHANGED <<queue, stranded>>
        /\ pc[Handler] = "recv" /\ channel # <<>> /\ channel' = Tail(channel)
        /\ handling'.s = o.s
        /\ \/ pc' = [pc EXCEPT ![Handler] = "act"]
           \/ \E r \in Messages : /\ pc[r] = "unsent"
                                  /\ pc' = [pc EXCEPT ![Handler] = "reply", ![r] = "called"]
    BY <1>2, TurnAssumption DEF Receive, Forward
  <2>2. /\ pc'[Handler] \in Waking /\ SessOf(Handler)' = o.s
        /\ \A p \in Procs \ {Handler} : pc[p] \in Waking => pc'[p] = pc[p] /\ SessOf(p)' = SessOf(p)
    BY <1>0, <2>1 DEF TypeOK, Procs, SessOf, Waking
  <2>3. CallsKept(s)
    BY <2>1, <2>2 DEF CallsKept, Waking
  <2>4. CASE s = o.s
    BY <1>0, <2>2, <2>4 DEF Watched, Wakeup, Waking
  <2>5. CASE s # o.s
    <3>1. channel \in Seq(OutcomeType)
      BY DEF TypeOK
    <3>2. ASSUME NEW k \in 1..Len(channel), channel[k].s = s
          PROVE  k - 1 \in 1..Len(Tail(channel)) /\ Tail(channel)[k - 1] = channel[k]
      <4>1. k # 1
        BY <2>5, <3>2
      <4> QED
        BY <2>1, <3>1, <4>1
    <3>3. DOMAIN channel = 1..Len(channel) /\ DOMAIN channel' = 1..Len(Tail(channel))
      BY <2>1, <3>1
    <3>4. ChannelKept(s)
      <4> SUFFICES ASSUME NEW k \in 1..Len(channel), channel[k].s = s
                   PROVE  \E l \in DOMAIN channel' : channel'[l].s = s
        BY <3>3 DEF ChannelKept
      <4> QED
        BY <2>1, <3>2, <3>3
    <3> QED
      BY <1>0, <1>1, <2>1, <2>3, <3>4, WakeupStays, WatchStays
  <2> QED
    BY <2>4, <2>5
<1>3. CASE Forwarded
  <2>1. /\ UNCHANGED <<queue, stranded, channel>> /\ handling'.s = handling.s
        /\ pc' = [pc EXCEPT ![Handler] = "act"]
    BY <1>3 DEF Forwarded, TypeOK
  <2>2. CallsKept(s)
    BY <1>0, <2>1 DEF CallsKept, TypeOK, SessOf, Waking
  <2>3. ChannelKept(s)
    BY <2>1 DEF ChannelKept
  <2> QED
    BY <1>0, <1>1, <2>1, <2>2, <2>3, WakeupStays, WatchStays
<1>4. CASE DispatchNext
  <2>1. UNCHANGED <<queue, stranded, channel, handling>> /\ pc' = [pc EXCEPT ![Handler] = "next"]
    BY <1>4 DEF DispatchNext
  <2>2. CallsKept(s) /\ ChannelKept(s)
    BY <1>0, <2>1, CallMoves DEF ChannelKept, Waking
  <2> QED
    BY <1>0, <1>1, <2>1, <2>2, WakeupStays, WatchStays
<1>5. CASE ClearAfterFailure
  <2>1. handling.s \in Sessions /\ UNCHANGED channel /\ Return(Handler)
    BY <1>5 DEF ClearAfterFailure, Shape
  <2>2. CASE s = handling.s
    BY <1>5, <2>1, <2>2 DEF ClearAfterFailure, ClearQueue, Watched, TypeOK
  <2>3. CASE s # handling.s
    <3>1. queue'[s] = queue[s] /\ stranded'[s] = stranded[s]
      BY <1>5, <2>1, <2>3 DEF ClearAfterFailure, ClearQueue, QueueEmptied, TypeOK
    <3>2. CallsKept(s) /\ ChannelKept(s)
      BY <1>0, <2>1, <2>3, CallReturns DEF ChannelKept
    <3> QED
      BY <1>0, <1>1, <3>1, <3>2, WakeupStays, WatchStays
  <2> QED
    BY <2>2, <2>3
<1> QED
  BY <1>2, <1>3, <1>4, <1>5 DEF HandlerStep

LEMMA ExecuteWatched ==
    ASSUME TypeOK, Shape, NEW s \in Sessions, Watched(s), NEW i \in Slots, Execute(i)
    PROVE  Watched(s)'
<1> USE DEF sched, calls, engine
<1>0. /\ run[i].pc # "free" /\ run[i].turn \in Messages /\ run \in [Slots -> RunType]
      /\ SessionOf[run[i].turn] \in Sessions
  BY TurnAssumption DEF Execute, Begin, StartRound, FinishBetweenRounds, FinishInRound, FinishAfterRound,
     Continue, Settle, Report, Shape, TypeOK
<1>1. /\ UNCHANGED <<queue, wedged, pc, msg, popped, handling, cancel>>
  BY DEF Execute, Begin, StartRound, FinishBetweenRounds, FinishInRound, FinishAfterRound, Finish,
         Continue, Settle, Report
<1>2. CallsKept(s) /\ CancelsKept(s)
  BY <1>1 DEF CallsKept, CancelsKept, SessOf
<1>3. CASE Report(i)
  <2>1. CASE s = SessionOf[run[i].turn]
    BY <1>3, <2>1, Rechecked DEF Report
  <2>2. CASE s # SessionOf[run[i].turn]
    <3>1. RunsKept(s) /\ ChannelKept(s)
      BY <1>0, <1>3, <2>2, SendKeepsChannel DEF Report, RunsKept
    <3>2. stranded'[s] = stranded[s] /\ UNCHANGED state
      BY <1>0, <1>3, <2>2, RecheckedElsewhere DEF Report
    <3> QED
      BY <1>1, <1>2, <3>1, <3>2, WakeupStays, WatchStays
  <2> QED
    BY <2>1, <2>2
<1>4. CASE ~Report(i)
  <2>1. UNCHANGED <<channel, stranded>>
    BY <1>4 DEF Execute, Begin, StartRound, FinishBetweenRounds, FinishInRound, FinishAfterRound, Finish,
                Continue, Settle
  <2>2. \A j \in Slots : run[j].pc # "free" => run'[j].pc # "free" /\ run'[j].turn = run[j].turn
    <3>1. ASSUME NEW k \in Kinds, Finish(i, k)
          PROVE  \A j \in Slots : run[j].pc # "free" => run'[j].pc # "free" /\ run'[j].turn = run[j].turn
      BY <1>0, <3>1 DEF Finish, RunType
    <3>2. CASE FinishBetweenRounds(i) \/ FinishInRound(i) \/ FinishAfterRound(i)
      BY <3>1, <3>2 DEF FinishBetweenRounds, FinishInRound, FinishAfterRound, Kinds
    <3>3. CASE StartRound(i)
      BY <1>0, <3>3 DEF StartRound
    <3>4. CASE Begin(i) \/ Continue(i) \/ Settle(i)
      BY <1>0, <3>4 DEF Begin, Continue, Settle, RunType
    <3> QED
      BY <1>4, <3>2, <3>3, <3>4 DEF Execute
  <2>3. RunsKept(s) /\ ChannelKept(s)
    BY <2>1, <2>2 DEF RunsKept, ChannelKept
  <2>4. state'[s] = state[s] \/ s = SessionOf[run[i].turn]
    BY <1>4 DEF Execute, Begin, StartRound, FinishBetweenRounds, FinishInRound, FinishAfterRound, Finish,
                Continue, Settle, TypeOK
  <2>5. s = SessionOf[run[i].turn] => Wakeup(s)'
    BY <1>0, <2>2 DEF Wakeup
  <2> QED
    BY <1>1, <1>2, <2>1, <2>3, <2>4, <2>5, WakeupStays, WatchStays
<1> QED
  BY <1>3, <1>4

LEMMA CancelWatched ==
    ASSUME TypeOK, Shape, NEW s \in Sessions, Watched(s), NEW c \in Cancels, CancelRequest(c)
    PROVE  Watched(s)'
<1> USE DEF sched, calls, engine
<1>0. cancel \in [Cancels -> CancelType]
  BY DEF TypeOK
<1>1. UNCHANGED <<queue, wedged, pc, msg, popped, handling>>
  BY DEF CancelRequest, AskToCancel, AskFromSession, CancelStep, FindActive, FindNothing,
         SetIdle, SetIdleUnsaved, Notify, Stop
<1>2. CallsKept(s)
  BY <1>1 DEF CallsKept, SessOf
<1>3. CASE AskToCancel(c) \/ AskFromSession(c) \/ FindActive(c) \/ FindNothing(c) \/ Stop(c)
  <2>1. UNCHANGED <<state, channel, stranded>>
    BY <1>3 DEF AskToCancel, AskFromSession, FindActive, FindNothing, Stop
  <2>2. \A j \in Slots : run'[j].pc = run[j].pc /\ run'[j].turn = run[j].turn
    <3>1. CASE Stop(c)
      BY <3>1 DEF Stop, TypeOK, RunType
    <3> QED
      BY <1>3, <3>1 DEF AskToCancel, AskFromSession, FindActive, FindNothing
  <2>3. cancel[c].pc # "notify" /\ \A d \in Cancels \ {c} : cancel'[d] = cancel[d]
    BY <1>0, <1>3 DEF AskToCancel, AskFromSession, FindActive, FindNothing, Stop, GiveUp
  <2>4. RunsKept(s) /\ ChannelKept(s) /\ CancelsKept(s)
    BY <2>1, <2>2, <2>3 DEF RunsKept, ChannelKept, CancelsKept
  <2> QED
    BY <1>1, <1>2, <2>1, <2>4, WakeupStays, WatchStays
<1>4. CASE SetIdle(c)
  <2>1. /\ UNCHANGED <<channel, stranded, run>>
        /\ cancel' = [cancel EXCEPT ![c].pc = "notify"]
        /\ state' = [state EXCEPT ![cancel[c].s] = "idle"]
    BY <1>4 DEF SetIdle
  <2>2. /\ cancel'[c].pc = "notify" /\ cancel'[c].s = cancel[c].s
        /\ \A d \in Cancels \ {c} : cancel'[d] = cancel[d]
    BY <1>0, <2>1 DEF CancelType
  <2>3. CASE s = cancel[c].s
    BY <2>2, <2>3 DEF Watched, Wakeup
  <2>4. CASE s # cancel[c].s
    <3>1. state'[s] = state[s]
      BY <2>1, <2>4 DEF TypeOK
    <3>2. RunsKept(s) /\ ChannelKept(s) /\ CancelsKept(s)
      BY <2>1, <2>2, <2>4 DEF RunsKept, ChannelKept, CancelsKept
    <3> QED
      BY <1>1, <1>2, <2>1, <3>1, <3>2, WakeupStays, WatchStays
  <2> QED
    BY <2>3, <2>4
<1>5. CASE SetIdleUnsaved(c) \/ Notify(c)
  <2>1. /\ cancel[c].s \in Sessions /\ Recheck(cancel[c].s) /\ UNCHANGED run
        /\ \A d \in Cancels \ {c} : cancel'[d] = cancel[d]
    BY <1>0, <1>5 DEF SetIdleUnsaved, Notify, Shape, GiveUp
  <2>2. CASE s = cancel[c].s
    BY <2>1, <2>2, Rechecked
  <2>3. CASE s # cancel[c].s
    <3>1. state'[s] = state[s]
      BY <1>5, <2>3 DEF SetIdleUnsaved, Notify, TypeOK
    <3>2. stranded'[s] = stranded[s]
      BY <2>1, <2>3, RecheckedElsewhere
    <3>3. ChannelKept(s)
      <4>1. CASE Notify(c)
        BY <4>1, SendKeepsChannel DEF Notify
      <4>2. CASE SetIdleUnsaved(c)
        BY <4>2 DEF SetIdleUnsaved, ChannelKept
      <4> QED
        BY <1>5, <4>1, <4>2
    <3>4. RunsKept(s) /\ CancelsKept(s)
      BY <2>1, <2>3 DEF RunsKept, CancelsKept
    <3> QED
      BY <1>1, <1>2, <3>1, <3>2, <3>3, <3>4, WakeupStays, WatchStays
  <2> QED
    BY <2>2, <2>3
<1> QED
  BY <1>3, <1>4, <1>5 DEF CancelRequest, CancelStep

LEMMA WatchStep ==
    TypeOK /\ Shape /\ ProcessingHasOwner /\ QueueHasWakeup /\ [Next]_vars => QueueHasWakeup'
<1> SUFFICES ASSUME TypeOK, Shape, ProcessingHasOwner, QueueHasWakeup, [Next]_vars,
                    NEW s \in Sessions
             PROVE  Watched(s)'
  BY DEF QueueHasWakeup, Watched
<1>0. Watched(s)
  BY DEF QueueHasWakeup, Watched
<1>1. CASE UNCHANGED vars
  BY <1>0, <1>1 DEF vars, sched, calls, engine, Watched, Wakeup, SessOf
<1>2. CASE Next
  BY <1>0, <1>1, <1>2, SubmitWatched, DispatchWatched, HandlerWatched, ExecuteWatched, CancelWatched
     DEF Next, CancelRequest, Finished
<1> QED
  BY <1>1, <1>2

\* A message in a queue has something that will look at the queue again, or is
\* one of the losses the history records, or its session is stuck in a failed start.
THEOREM QueueWatched == Spec => []QueueHasWakeup
<1>1. Init => QueueHasWakeup
  BY DEF Init, QueueHasWakeup
<1>2. TypeOK /\ Shape /\ ProcessingHasOwner /\ QueueHasWakeup /\ [Next]_vars => QueueHasWakeup'
  BY WatchStep
<1> QED
  BY <1>1, <1>2, TurnTypeCorrect, ProcessingOwned, PTL DEF Spec
-----------------------------------------------------------------------------
\* A message is in one place at a time, and once answered it is in none.
OnePlace(m) ==
    /\ ~(InQueue(m) /\ Recorded(m)) /\ ~(Held(m) /\ (InQueue(m) \/ Recorded(m)))
    /\ \A p, q \in Procs : msg[p] = m /\ msg[q] = m => p = q
    /\ pc[m] \in Before => ~InQueue(m) /\ ~Recorded(m) /\ ~Held(m)
    /\ replies[m] <= 1
    /\ pc[m] \in Before \/ InQueue(m) \/ Recorded(m) \/ Held(m) => replies[m] = 0

ListsFit ==
    \A s \in Sessions : /\ IsInjective(queue[s])
                        /\ active[s] # None => SessionOf[active[s].msg] = s

PlacesInv == (\A m \in Messages : OnePlace(m)) /\ ListsFit

\* A step that brings a message nowhere it was not already.
NoNewPlace(m) ==
    /\ pc'[m] \in Before => pc[m] \in Before
    /\ InQueue(m)' => InQueue(m)
    /\ Recorded(m)' => Recorded(m)
    /\ \A p \in Procs : msg'[p] = m => msg[p] = m
    /\ replies'[m] = replies[m]

LEMMA PlaceStays ==
    ASSUME NEW m \in Messages, OnePlace(m), NoNewPlace(m)
    PROVE  OnePlace(m)'
<1>1. Held(m)' => Held(m)
  BY DEF NoNewPlace, Held
<1>2. \A p, q \in Procs : msg'[p] = m /\ msg'[q] = m => p = q
  BY DEF NoNewPlace, OnePlace
<1> QED
  BY <1>1, <1>2 DEF NoNewPlace, OnePlace

\* A step that concerns no message's place.
LEMMA PlacesStay ==
    ASSUME PlacesInv, \A m \in Messages : NoNewPlace(m), ListsFit'
    PROVE  PlacesInv'
BY PlaceStays DEF PlacesInv

\* A step that moves one message to a place it is then alone in.
LEMMA PlacesMove ==
    ASSUME PlacesInv, NEW m \in Messages, \A n \in Messages : n # m => NoNewPlace(n),
           OnePlace(m)', ListsFit'
    PROVE  PlacesInv'
BY PlaceStays DEF PlacesInv

\* A step that leaves the queues and active_turns alone.
LEMMA ListsStay ==
    ASSUME ListsFit, UNCHANGED <<queue, active>>
    PROVE  /\ ListsFit'
           /\ \A m \in Messages : (InQueue(m)' <=> InQueue(m)) /\ (Recorded(m)' <=> Recorded(m))
BY DEF ListsFit, InQueue, Recorded

\* A call that returns holds nothing any more, and is past its beginning.
LEMMA ReturnPlaces ==
    ASSUME TypeOK, NEW p \in Procs, Return(p)
    PROVE  /\ \A m \in Messages : pc'[m] \in Before => pc[m] \in Before
           /\ \A m \in Messages : \A q \in Procs : msg'[q] = m => msg[q] = m
           /\ msg'[p] = None
           /\ \A q \in Procs : q # p => msg'[q] = msg[q]
           /\ p \in Messages => pc'[p] = "done"
BY TurnAssumption DEF TypeOK, Return, Before, Procs

\* A message that joins its session's queue.
LEMMA QueueGains ==
    ASSUME TypeOK, ListsFit, NEW m \in Messages, NEW r, ~InQueue(m),
           queue' = [queue EXCEPT ![SessionOf[m]] = r], UNCHANGED active,
           ToSet(r) = ToSet(queue[SessionOf[m]]) \cup {m},
           IsInjective(queue[SessionOf[m]]) /\ m \notin ToSet(queue[SessionOf[m]]) => IsInjective(r)
    PROVE  /\ ListsFit' /\ InQueue(m)'
           /\ \A n \in Messages : n # m => (InQueue(n)' <=> InQueue(n))
           /\ \A n \in Messages : Recorded(n)' <=> Recorded(n)
<1>1. SessionOf[m] \in Sessions
  BY TurnAssumption
<1>2. /\ queue'[SessionOf[m]] = r
      /\ \A s \in Sessions : s # SessionOf[m] => queue'[s] = queue[s]
  BY <1>1 DEF TypeOK
<1>3. IsInjective(r)
  BY <1>1 DEF ListsFit, InQueue
<1>4. ListsFit'
  BY <1>2, <1>3 DEF ListsFit
<1>5. \A n \in Messages : Recorded(n)' <=> Recorded(n)
  BY DEF Recorded
<1>6. \A n \in Messages : SessionOf[n] \in Sessions
  BY TurnAssumption
<1>7. InQueue(m)' /\ \A n \in Messages : n # m => (InQueue(n)' <=> InQueue(n))
  BY <1>2, <1>6 DEF InQueue
<1> QED
  BY <1>4, <1>5, <1>7

\* A queue that is emptied, or whose first message leaves it.
LEMMA QueueLoses ==
    ASSUME TypeOK, ListsFit, NEW s \in Sessions, NEW r,
           queue' = [queue EXCEPT ![s] = r], UNCHANGED active,
           ToSet(r) \subseteq ToSet(queue[s]), IsInjective(r)
    PROVE  /\ ListsFit'
           /\ \A n \in Messages : InQueue(n)' => InQueue(n)
           /\ \A n \in Messages : SessionOf[n] = s => (InQueue(n)' <=> n \in ToSet(r))
           /\ \A n \in Messages : SessionOf[n] # s => (InQueue(n)' <=> InQueue(n))
           /\ \A n \in Messages : Recorded(n)' <=> Recorded(n)
<1>1. queue'[s] = r /\ \A t \in Sessions : t # s => queue'[t] = queue[t]
  BY DEF TypeOK
<1>2. ListsFit'
  BY <1>1 DEF ListsFit
<1>3. \A n \in Messages : SessionOf[n] \in Sessions
  BY TurnAssumption
<1> QED
  BY <1>1, <1>2, <1>3 DEF InQueue, Recorded

LEMMA SubmitPlaces ==
    ASSUME TypeOK, Shape, PlacesInv, NEW m \in Messages, SubmitStep(m)
    PROVE  PlacesInv'
<1>0. m \in Procs /\ m # Handler /\ SessionOf[m] \in Sessions /\ OnePlace(m) /\ ListsFit
      /\ queue[SessionOf[m]] \in Seq(Messages)
  BY TurnAssumption DEF Procs, PlacesInv, TypeOK
<1>1. CASE Submit(m)
  <2>1. PICK x \in Before : pc' = [pc EXCEPT ![m] = x]
    BY <1>1 DEF Submit, Before
  <2>2. pc[m] \in Before /\ UNCHANGED <<queue, active, msg, replies>>
    BY <1>1 DEF Submit, Before, sched
  <2>3. \A n \in Messages : pc'[n] \in Before => pc[n] \in Before
    BY <1>0, <2>1, <2>2 DEF TypeOK, Procs
  <2> QED
    BY <1>0, <2>2, <2>3, ListsStay, PlacesStay DEF NoNewPlace
<1>2. CASE Reject(m)
  <2>1. Return(m) /\ UNCHANGED <<queue, active, replies>>
    BY <1>2 DEF Reject, sched
  <2> QED
    BY <1>0, <2>1, ReturnPlaces, ListsStay, PlacesStay DEF NoNewPlace
<1>3. CASE QueueUp(m) \/ QueueUpAndDispatch(m)
  <2> DEFINE r == Insert(queue[SessionOf[m]], m)
  <2>1. /\ queue' = [queue EXCEPT ![SessionOf[m]] = r]
        /\ UNCHANGED <<active, replies>> /\ pc[m] \in Before
    BY <1>0, <1>3 DEF QueueUp, QueueUpAndDispatch, Enqueue, TypeOK, sched, Before
  <2>2. /\ ToSet(r) = ToSet(queue[SessionOf[m]]) \cup {m}
        /\ IsInjective(queue[SessionOf[m]]) /\ m \notin ToSet(queue[SessionOf[m]]) => IsInjective(r)
    BY <1>0, InsertElements
  <2>3. ~InQueue(m) /\ ~Recorded(m) /\ ~Held(m) /\ replies[m] = 0
    BY <1>0, <2>1 DEF OnePlace
  <2> HIDE DEF r
  <2>4. /\ ListsFit' /\ InQueue(m)'
        /\ \A n \in Messages : n # m => (InQueue(n)' => InQueue(n))
        /\ \A n \in Messages : Recorded(n)' <=> Recorded(n)
    BY <1>0, <2>1, <2>2, <2>3, QueueGains
  <2>5. /\ pc'[m] \notin Before
        /\ \A n \in Messages : pc'[n] \in Before => pc[n] \in Before
        /\ \A n \in Messages : \A q \in Procs : msg'[q] = n => msg[q] = n
    <3>1. CASE Return(m)
      BY <1>0, <3>1, ReturnPlaces DEF Before
    <3>2. CASE pc' = [pc EXCEPT ![m] = "next"] /\ msg' = msg
      BY <1>0, <3>2 DEF TypeOK, Procs, Before
    <3> QED
      BY <1>3, <3>1, <3>2 DEF QueueUp, QueueUpAndDispatch
  <2>6. \A n \in Messages : n # m => NoNewPlace(n)
    BY <2>1, <2>4, <2>5 DEF NoNewPlace
  <2>7. ~Held(m)'
    BY <1>0, <2>3, <2>5 DEF Held
  <2>8. OnePlace(m)'
    <3>1. \A p \in Procs : msg'[p] # m
      BY <2>7 DEF Held
    <3> QED
      BY <2>1, <2>3, <2>4, <2>5, <2>7, <3>1 DEF OnePlace
  <2> QED
    BY <2>4, <2>6, <2>8, PlacesMove
<1>4. CASE StartAtOnce(m)
  <2>1. /\ pc' = [pc EXCEPT ![m] = "start"] /\ msg' = [msg EXCEPT ![m] = m]
        /\ UNCHANGED <<active, replies>> /\ pc[m] \in Before
    BY <1>4 DEF StartAtOnce, sched, Before
  <2>2. /\ ListsFit'
        /\ \A n \in Messages : InQueue(n)' => InQueue(n)
        /\ \A n \in Messages : Recorded(n)' <=> Recorded(n)
    <3>1. CASE queue' = queue
      BY <1>0, <2>1, <3>1, ListsStay
    <3>2. CASE queue' = [queue EXCEPT ![SessionOf[m]] = <<>>]
      BY <1>0, <2>1, <3>2, EmptyElements, QueueLoses
    <3> QED
      BY <1>4, <3>1, <3>2 DEF StartAtOnce, ClearQueue
  <2>3. ~InQueue(m) /\ ~Recorded(m) /\ ~Held(m) /\ replies[m] = 0
    BY <1>0, <2>1 DEF OnePlace
  <2>4. /\ pc'[m] \notin Before
        /\ \A n \in Messages : pc'[n] \in Before => pc[n] \in Before
        /\ \A p \in Procs : p # m => msg'[p] = msg[p]
        /\ msg'[m] = m
    BY <1>0, <2>1 DEF TypeOK, Procs, Before
  <2>5. \A n \in Messages : n # m => NoNewPlace(n)
    BY <2>1, <2>2, <2>4 DEF NoNewPlace
  <2>6. \A p \in Procs : msg'[p] = m => p = m
    BY <2>3, <2>4 DEF Held
  <2>7. OnePlace(m)'
    BY <2>1, <2>2, <2>3, <2>4, <2>6 DEF OnePlace
  <2> QED
    BY <2>2, <2>5, <2>7, PlacesMove
<1> QED
  BY <1>1, <1>2, <1>3, <1>4 DEF SubmitStep

\* A start that fails: a message taken from the queue is put back, another one
\* is lost.
LEMMA FailurePlaces ==
    ASSUME TypeOK, Shape, PlacesInv, NEW p \in Procs, pc[p] \in Starting, FailStart(p)
    PROVE  PlacesInv'
<1>0. msg[p] \in Messages /\ SessionOf[msg[p]] = SessOf(p) /\ SessOf(p) \in Sessions
  BY CallerSession
<1> PICK m \in Messages : m = msg[p]
  BY <1>0
<1> PICK s \in Sessions : s = SessOf(p)
  BY <1>0
<1> DEFINE r == <<m>> \o queue[s]
<1>1. SessionOf[m] = s /\ queue[s] \in Seq(Messages)
  BY <1>0 DEF TypeOK
<1>2. /\ Return(p) /\ UNCHANGED <<active, replies>>
      /\ \/ p \in popped /\ queue' = [queue EXCEPT ![s] = r]
         \/ queue' = queue
  BY <1>1 DEF FailStart, sched, TypeOK
<1>3. OnePlace(m) /\ ListsFit
  BY <1>1 DEF PlacesInv
<1>4. Held(m) /\ ~InQueue(m) /\ ~Recorded(m) /\ replies[m] = 0 /\ pc[m] \notin Before
  <2>1. Held(m)
    BY DEF Held
  <2> QED
    BY <1>3, <2>1 DEF OnePlace
<1>5. CASE queue' = queue
  BY <1>2, <1>3, <1>5, ReturnPlaces, ListsStay, PlacesStay DEF NoNewPlace
<1>6. CASE queue' = [queue EXCEPT ![s] = r]
  <2>1. /\ ToSet(r) = ToSet(queue[s]) \cup {m}
        /\ IsInjective(queue[s]) /\ m \notin ToSet(queue[s]) => IsInjective(r)
    BY <1>1, ConsElements
  <2>2. \A q \in Procs : msg'[q] # m
    <3>1. \A q \in Procs : msg[q] = m => q = p
      BY <1>3 DEF OnePlace
    <3>2. m # None
      BY TurnAssumption
    <3> QED
      BY <1>2, <3>1, <3>2, ReturnPlaces
  <2> HIDE DEF r
  <2>3. /\ ListsFit' /\ InQueue(m)'
        /\ \A n \in Messages : n # m => (InQueue(n)' => InQueue(n))
        /\ \A n \in Messages : Recorded(n)' <=> Recorded(n)
    BY <1>1, <1>2, <1>3, <1>4, <1>6, <2>1, QueueGains
  <2>4. /\ \A n \in Messages : pc'[n] \in Before => pc[n] \in Before
        /\ \A n \in Messages : \A q \in Procs : msg'[q] = n => msg[q] = n
    BY <1>2, ReturnPlaces
  <2>5. \A n \in Messages : n # m => NoNewPlace(n)
    BY <1>2, <2>3, <2>4 DEF NoNewPlace
  <2>6. OnePlace(m)'
    BY <1>1, <1>2, <1>4, <2>2, <2>3, <2>4 DEF OnePlace, Held
  <2> QED
    BY <1>1, <2>3, <2>5, <2>6, PlacesMove
<1> QED
  BY <1>2, <1>5, <1>6

LEMMA DispatchPlaces ==
    ASSUME TypeOK, Shape, PlacesInv, NEW p \in Procs, DispatchStep(p)
    PROVE  PlacesInv'
<1>0. ListsFit
  BY DEF PlacesInv
<1>1. CASE NothingToStart(p)
  <2>1. Return(p) /\ UNCHANGED <<queue, active, replies>>
    BY <1>1 DEF NothingToStart, sched
  <2> QED
    BY <1>0, <2>1, ReturnPlaces, ListsStay, PlacesStay DEF NoNewPlace
<1>2. CASE Dequeue(p)
  <2>1. SessOf(p) \in Sessions
    BY <1>2, CallerSession DEF Dequeue
  <2> PICK s \in Sessions : s = SessOf(p)
    BY <2>1
  <2> PICK q : q = queue[s]
    OBVIOUS
  <2> PICK m : m = Head(q)
    OBVIOUS
  <2> DEFINE r == Tail(q)
  <2>2. /\ q \in Seq(Messages) /\ q # <<>> /\ IsInjective(q)
        /\ queue' = [queue EXCEPT ![s] = r]
        /\ msg' = [msg EXCEPT ![p] = m]
        /\ pc' = [pc EXCEPT ![p] = "start"]
        /\ UNCHANGED <<active, replies>>
    BY <1>0, <1>2, <2>1 DEF Dequeue, TypeOK, ListsFit, sched
  <2>3. m \in Messages /\ m \in ToSet(q) /\ ToSet(r) = ToSet(q) \ {m} /\ IsInjective(r)
    BY <2>2, TailElements
  <2>4. SessionOf[m] = s
    BY <2>1, <2>3 DEF Shape
  <2>5. InQueue(m) /\ OnePlace(m)
    BY <2>3, <2>4 DEF InQueue, PlacesInv
  <2>6. ~Recorded(m) /\ ~Held(m) /\ replies[m] = 0 /\ pc[m] \notin Before
    BY <2>5 DEF OnePlace
  <2> HIDE DEF r
  <2>7. /\ ListsFit'
        /\ \A n \in Messages : InQueue(n)' => InQueue(n)
        /\ \A n \in Messages : SessionOf[n] = s => (InQueue(n)' <=> n \in ToSet(r))
        /\ \A n \in Messages : Recorded(n)' <=> Recorded(n)
    BY <1>0, <2>1, <2>2, <2>3, QueueLoses
  <2>8. ~InQueue(m)'
    BY <2>3, <2>4, <2>7
  <2>9. /\ \A n \in Messages : pc'[n] \in Before => pc[n] \in Before
        /\ \A c \in Procs : c # p => msg'[c] = msg[c]
        /\ msg'[p] = m
    BY <2>2 DEF TypeOK, Procs, Before
  <2>10. \A n \in Messages : n # m => NoNewPlace(n)
    BY <2>2, <2>7, <2>9 DEF NoNewPlace
  <2>11. \A c \in Procs : msg'[c] = m => c = p
    BY <2>6, <2>9 DEF Held
  <2>12. pc'[m] \notin Before
    BY <2>3, <2>6, <2>9
  <2>13. OnePlace(m)'
    BY <2>2, <2>3, <2>6, <2>7, <2>8, <2>11, <2>12 DEF OnePlace
  <2> QED
    BY <2>3, <2>7, <2>10, <2>13, PlacesMove
<1>3. CASE Admit(p) \/ Mark(p) \/ Spawn(p)
  <2>1. PICK x \in {"mark", "save", "resolve"} : pc' = [pc EXCEPT ![p] = x]
    BY <1>3 DEF Admit, Mark, Spawn
  <2>2. UNCHANGED <<queue, active, msg, replies>>
    BY <1>3 DEF Admit, Mark, Spawn, sched
  <2>3. \A n \in Messages : pc'[n] \in Before => pc[n] \in Before
    BY <2>1 DEF TypeOK, Procs, Before
  <2> QED
    BY <1>0, <2>2, <2>3, ListsStay, PlacesStay DEF NoNewPlace
<1>4. CASE Refuse(p) \/ FailBeforeMark(p) \/ FailAfterMark(p) \/ FailResolve(p)
  BY <1>4, FailurePlaces DEF Refuse, FailBeforeMark, FailAfterMark, FailResolve, Starting
<1>5. CASE Resolve(p)
  <2> PICK s : s = SessOf(p)
    OBVIOUS
  <2> PICK m : m = msg[p]
    OBVIOUS
  <2>1. m \in Messages /\ SessionOf[m] = s /\ s \in Sessions /\ OnePlace(m)
    BY <1>5, CallerSession DEF Resolve, Starting, PlacesInv
  <2>2. /\ Return(p) /\ UNCHANGED <<queue, replies>>
        /\ active' = [active EXCEPT ![s] = [turn |-> state[s], msg |-> m]]
    BY <1>5 DEF Resolve
  <2>3. Held(m)
    BY DEF Held
  <2>4. ~InQueue(m) /\ ~Recorded(m) /\ replies[m] = 0 /\ pc[m] \notin Before
    BY <2>1, <2>3 DEF OnePlace
  <2>5. \A q \in Procs : msg[q] = m => q = p
    BY <2>1 DEF OnePlace
  <2>6. /\ active'[s] = [turn |-> state[s], msg |-> m]
        /\ \A t \in Sessions : t # s => active'[t] = active[t]
    BY <2>1, <2>2 DEF TypeOK
  <2>7. ListsFit'
    BY <1>0, <2>1, <2>2, <2>6 DEF ListsFit
  <2>8. \A n \in Messages : /\ InQueue(n)' => InQueue(n)
                            /\ n # m => (Recorded(n)' => Recorded(n))
    <3>1. \A n \in Messages : SessionOf[n] \in Sessions
      BY TurnAssumption
    <3>2. \A n \in Messages : n # m => (Recorded(n)' => Recorded(n))
      BY <2>6, <3>1 DEF Recorded
    <3> QED
      BY <2>2, <3>2 DEF InQueue
  <2>9. /\ \A n \in Messages : pc'[n] \in Before => pc[n] \in Before
        /\ \A n \in Messages : \A q \in Procs : msg'[q] = n => msg[q] = n
        /\ \A q \in Procs : msg'[q] # m
    <3>1. m # None
      BY <2>1, TurnAssumption
    <3> QED
      BY <2>2, <2>5, <3>1, ReturnPlaces
  <2>10. \A n \in Messages : n # m => NoNewPlace(n)
    BY <2>2, <2>8, <2>9 DEF NoNewPlace
  <2>11. OnePlace(m)'
    BY <2>1, <2>2, <2>4, <2>8, <2>9 DEF OnePlace, Held
  <2> QED
    BY <2>1, <2>7, <2>10, <2>11, PlacesMove
<1> QED
  BY <1>1, <1>2, <1>3, <1>4, <1>5 DEF DispatchStep, Start

LEMMA HandlerPlaces ==
    ASSUME TypeOK, Shape, PlacesInv, HandlerStep
    PROVE  PlacesInv'
<1>0. Handler \in Procs /\ Handler \notin Messages /\ ListsFit
  BY TurnAssumption DEF Procs, PlacesInv
<1>1. CASE Receive
  <2> PICK o : o = Head(channel)
    OBVIOUS
  <2> PICK a : a = active[o.s]
    OBVIOUS
  <2>1. o \in OutcomeType
    BY <1>1 DEF Receive, TypeOK
  <2>2. o.s \in Sessions
    BY <2>1 DEF OutcomeType
  <2>3. UNCHANGED <<queue, msg>> /\ active' = [active EXCEPT ![o.s] = None]
    BY <1>1 DEF Receive
  <2>4. \/ /\ Forwards(o)
           /\ \E r \in Replies : Forward(a, r)
        \/ pc' = [pc EXCEPT ![Handler] = "act"] /\ UNCHANGED replies
    BY <1>1 DEF Receive
  <2>5. active'[o.s] = None /\ \A t \in Sessions : t # o.s => active'[t] = active[t]
    BY <2>2, <2>3 DEF TypeOK
  <2>6. ListsFit'
    BY <1>0, <2>3, <2>5 DEF ListsFit
  <2>7. \A n \in Messages : (InQueue(n)' <=> InQueue(n)) /\ (Recorded(n)' => Recorded(n))
    <3>1. \A n \in Messages : SessionOf[n] \in Sessions
      BY TurnAssumption
    <3>2. \A n \in Messages : Recorded(n)' => Recorded(n)
      BY <2>5, <3>1 DEF Recorded
    <3> QED
      BY <2>3, <3>2 DEF InQueue
  <2>8. CASE pc' = [pc EXCEPT ![Handler] = "act"] /\ UNCHANGED replies
    <3>1. \A n \in Messages : pc'[n] = pc[n]
      BY <1>0, <2>8 DEF TypeOK, Procs
    <3> QED
      BY <2>3, <2>6, <2>7, <2>8, <3>1, PlacesStay DEF NoNewPlace
  <2>9. ASSUME Forwards(o), NEW r \in Replies, Forward(a, r)
        PROVE  PlacesInv'
    <3> PICK m : m = a.msg
      OBVIOUS
    <3>1. a # None /\ m \in Messages /\ SessionOf[m] = o.s
      BY <1>0, <2>2, <2>9 DEF Forwards, TypeOK, ListsFit
    <3>2. Recorded(m) /\ OnePlace(m)
      BY <3>1 DEF Recorded, PlacesInv
    <3>3. /\ ~InQueue(m) /\ ~Held(m) /\ replies[m] = 0 /\ pc[m] \notin Before
          /\ \A p \in Procs : msg[p] # m
      BY <3>2 DEF OnePlace, Held
    <3>4. ~Recorded(m)'
      BY <2>5, <3>1 DEF Recorded
    <3>5. /\ pc[r] = "unsent" /\ r \in Messages
          /\ pc' = [pc EXCEPT ![Handler] = "reply", ![r] = "called"]
          /\ replies' = [replies EXCEPT ![m] = @ + 1]
      BY <2>9, TurnAssumption DEF Forward
    <3>6. \A n \in Messages : pc'[n] \in Before => pc[n] \in Before
      BY <1>0, <3>5 DEF TypeOK, Procs, Before
    <3>7. replies'[m] = 1 /\ \A n \in Messages : n # m => replies'[n] = replies[n]
      BY <3>1, <3>3, <3>5 DEF TypeOK
    <3>8. \A n \in Messages : n # m => NoNewPlace(n)
      BY <2>3, <2>7, <3>6, <3>7 DEF NoNewPlace
    <3>9. OnePlace(m)'
      BY <2>3, <2>7, <3>1, <3>3, <3>4, <3>6, <3>7 DEF OnePlace, Held
    <3> QED
      BY <2>6, <3>1, <3>8, <3>9, PlacesMove
  <2> QED
    BY <2>4, <2>8, <2>9
<1>2. CASE Forwarded \/ DispatchNext
  <2>1. PICK x \in {"act", "next"} : pc' = [pc EXCEPT ![Handler] = x]
    BY <1>2 DEF Forwarded, DispatchNext
  <2>2. UNCHANGED <<queue, active, msg, replies>>
    BY <1>2 DEF Forwarded, DispatchNext, sched
  <2>3. \A n \in Messages : pc'[n] = pc[n]
    BY <1>0, <2>1 DEF TypeOK, Procs
  <2> QED
    BY <1>0, <2>2, <2>3, ListsStay, PlacesStay DEF NoNewPlace
<1>3. CASE ClearAfterFailure
  <2>1. /\ handling.s \in Sessions /\ Return(Handler) /\ UNCHANGED <<active, replies>>
        /\ queue' = [queue EXCEPT ![handling.s] = <<>>]
    BY <1>3 DEF ClearAfterFailure, ClearQueue, Shape, sched
  <2>2. ListsFit' /\ \A n \in Messages : (InQueue(n)' => InQueue(n)) /\ (Recorded(n)' <=> Recorded(n))
    BY <1>0, <2>1, EmptyElements, QueueLoses
  <2> QED
    BY <1>0, <2>1, <2>2, ReturnPlaces, PlacesStay DEF NoNewPlace
<1> QED
  BY <1>1, <1>2, <1>3 DEF HandlerStep

LEMMA PlacesStep == TypeOK /\ Shape /\ PlacesInv /\ [Next]_vars => PlacesInv'
<1> SUFFICES ASSUME TypeOK, Shape, PlacesInv, [Next]_vars
             PROVE  PlacesInv'
  OBVIOUS
<1>1. CASE UNCHANGED <<pc, msg, queue, active, replies>>
  BY <1>1, ListsStay, PlacesStay DEF PlacesInv, NoNewPlace
<1>2. ASSUME NEW i \in Slots, Execute(i)
      PROVE  UNCHANGED <<pc, msg, queue, active, replies>>
  BY <1>2 DEF Execute, Begin, StartRound, FinishBetweenRounds, FinishInRound, FinishAfterRound,
              Finish, Continue, Settle, Report, calls, sched
<1>3. ASSUME NEW c \in Cancels, CancelRequest(c)
      PROVE  UNCHANGED <<pc, msg, queue, active, replies>>
  BY <1>3 DEF CancelRequest, AskToCancel, AskFromSession, CancelStep, FindActive, FindNothing,
              SetIdle, SetIdleUnsaved, Notify, Stop, calls, sched
<1>4. UNCHANGED vars => UNCHANGED <<pc, msg, queue, active, replies>>
  BY DEF vars, calls, sched
<1> QED
  BY <1>1, <1>2, <1>3, <1>4, SubmitPlaces, DispatchPlaces, HandlerPlaces
     DEF Next, CancelRequest, Finished

LEMMA InitialPlaces == Init => PlacesInv
<1> SUFFICES ASSUME Init PROVE PlacesInv
  OBVIOUS
<1>1. \A m \in Messages : ~InQueue(m) /\ ~Recorded(m) /\ ~Held(m) /\ replies[m] = 0
  <2>1. \A m \in Messages : SessionOf[m] \in Sessions /\ m # None
    BY TurnAssumption
  <2> QED
    BY <2>1, EmptyElements DEF Init, InQueue, Recorded, Held
<1>2. \A m \in Messages : OnePlace(m)
  BY <1>1 DEF OnePlace, Held
<1> QED
  BY <1>2, EmptyElements DEF Init, PlacesInv, ListsFit

\* However often a message is executed, put back and executed again, and whatever
\* the outcomes of other turns remove from active_turns, the session that waits
\* for its answer is answered at most once: a message is in one place at a time,
\* and its answer takes it out of the last.
THEOREM AnsweredOnce == Spec => []AnsweredAtMostOnce
<1>1. Init => PlacesInv
  BY InitialPlaces
<1>2. TypeOK /\ Shape /\ PlacesInv /\ [Next]_vars => PlacesInv'
  BY PlacesStep
<1>3. PlacesInv => AnsweredAtMostOnce
  BY DEF PlacesInv, OnePlace, AnsweredAtMostOnce
<1> QED
  BY <1>1, <1>2, <1>3, TurnTypeCorrect, PTL DEF Spec
-----------------------------------------------------------------------------
(* Each message goes the way of MessageLife *)

\* A call that is not starting a message has none.
HandsEmpty == \A p \in Procs : pc[p] \notin Starting => msg[p] = None

LEMMA HandsStep == TypeOK /\ HandsEmpty /\ [Next]_vars => HandsEmpty'
<1> SUFFICES ASSUME TypeOK, HandsEmpty, [Next]_vars PROVE HandsEmpty'
  OBVIOUS
<1> USE DEF HandsEmpty, Starting
<1>1. ASSUME NEW p \in Procs, Return(p) PROVE HandsEmpty'
  BY <1>1 DEF Return, TypeOK
<1>2. CASE UNCHANGED <<pc, msg>>
  BY <1>2
<1>3. ASSUME NEW m \in Messages, SubmitStep(m) PROVE HandsEmpty'
  <2>1. m \in Procs
    BY DEF Procs
  <2>2. CASE Submit(m) \/ QueueUpAndDispatch(m) \/ StartAtOnce(m)
    BY <2>1, <2>2 DEF Submit, QueueUpAndDispatch, StartAtOnce, TypeOK
  <2> QED
    BY <1>1, <1>3, <2>1, <2>2 DEF SubmitStep, Reject, QueueUp
<1>4. ASSUME NEW p \in Procs, DispatchStep(p) PROVE HandsEmpty'
  <2>1. CASE Dequeue(p) \/ Admit(p) \/ Mark(p) \/ Spawn(p)
    BY <2>1 DEF Dequeue, Admit, Mark, Spawn, TypeOK
  <2> QED
    BY <1>1, <1>4, <2>1 DEF DispatchStep, NothingToStart, Start, Refuse, FailBeforeMark,
                            FailAfterMark, FailResolve, FailStart, Resolve
<1>5. CASE HandlerStep
  <2>1. Handler \in Procs
    BY DEF Procs
  <2>2. CASE Receive
    <3>1. UNCHANGED msg
      BY <2>2 DEF Receive
    <3>2. \/ \E r \in Messages : /\ pc[r] = "unsent"
                                 /\ pc' = [pc EXCEPT ![Handler] = "reply", ![r] = "called"]
          \/ pc' = [pc EXCEPT ![Handler] = "act"]
      BY <2>2, TurnAssumption DEF Receive, Forward
    <3>3. pc[Handler] = "recv"
      BY <2>2 DEF Receive
    <3>4. \A p \in Procs : pc[p] \in Starting => pc'[p] = pc[p]
      BY <2>1, <3>2, <3>3, TurnAssumption DEF TypeOK, Procs
    <3> QED
      BY <3>1, <3>4
  <2>3. CASE Forwarded \/ DispatchNext
    BY <2>1, <2>3 DEF Forwarded, DispatchNext, TypeOK
  <2> QED
    BY <1>1, <1>5, <2>1, <2>2, <2>3 DEF HandlerStep, ClearAfterFailure
<1>6. ASSUME NEW i \in Slots, Execute(i) PROVE UNCHANGED <<pc, msg>>
  BY <1>6 DEF Execute, Begin, StartRound, FinishBetweenRounds, FinishInRound, FinishAfterRound,
              Finish, Continue, Settle, Report, calls
<1>7. ASSUME NEW c \in Cancels, CancelRequest(c) PROVE UNCHANGED <<pc, msg>>
  BY <1>7 DEF CancelRequest, AskToCancel, AskFromSession, CancelStep, FindActive, FindNothing,
              SetIdle, SetIdleUnsaved, Notify, Stop, calls
<1> QED
  BY <1>2, <1>3, <1>4, <1>5, <1>6, <1>7 DEF Next, CancelRequest, Finished, vars, calls

\* What a message's place says, before and after a step.
LEMMA PlaceIs ==
    ASSUME NEW m \in Messages, OnePlace(m)
    PROVE  /\ Place(m) = "caller" <=> pc[m] \in Before
           /\ Place(m) = "starting" <=> Held(m)
           /\ Place(m) = "queued" <=> InQueue(m)
           /\ Place(m) = "recorded" <=> Recorded(m)
BY DEF OnePlace, Place

LEMMA PlaceWillBe ==
    ASSUME NEW m \in Messages, OnePlace(m)'
    PROVE  /\ pc'[m] \in Before => Place(m)' = "caller"
           /\ Held(m)' => Place(m)' = "starting"
           /\ InQueue(m)' => Place(m)' = "queued"
           /\ Recorded(m)' => Place(m)' = "recorded"
           /\ pc'[m] \notin Before /\ ~Held(m)' /\ ~InQueue(m)' /\ ~Recorded(m)' => Place(m)' = "over"
BY DEF OnePlace, Place

\* A step that does not concern m.
Stays(m) ==
    /\ pc'[m] \in Before <=> pc[m] \in Before
    /\ \A p \in Procs : msg'[p] = m <=> msg[p] = m
    /\ InQueue(m)' <=> InQueue(m)
    /\ Recorded(m)' <=> Recorded(m)

LEMMA StaysThere ==
    ASSUME NEW m \in Messages, Stays(m)
    PROVE  Place(m)' = Place(m)
<1>1. Held(m)' <=> Held(m)
  BY DEF Stays, Held
<1> QED
  BY <1>1 DEF Stays, Place

LifeStep == Life!LifeNext \/ ((\A m \in Messages : Place(m)' = Place(m)) /\ UNCHANGED replies)

LEMMA NobodyMoves ==
    ASSUME \A m \in Messages : Stays(m), UNCHANGED replies
    PROVE  LifeStep
BY StaysThere DEF LifeStep

\* One message moves, and takes the others of its session from some places.
LEMMA OneMoves ==
    ASSUME NEW m \in Messages, NEW to, NEW ended, Place(m)' = to,
           \A n \in Messages : n # m =>
              Place(n)' = IF SessionOf[n] = SessionOf[m] /\ Place(n) \in ended THEN "over" ELSE Place(n)
    PROVE  Life!Move(m, to, ended)
BY DEF Life!Move

LEMMA OnlyOneMoves ==
    ASSUME NEW m \in Messages, NEW to, Place(m)' = to, \A n \in Messages : n # m => Stays(n)
    PROVE  Life!Move(m, to, {})
<1>1. \A n \in Messages : n # m => Place(n)' = Place(n)
  BY StaysThere
<1> QED
  BY <1>1, OneMoves

\* What is left of a call that returns.
LEMMA ReturnHands ==
    ASSUME TypeOK, HandsEmpty, NEW p \in Procs, Return(p)
    PROVE  /\ \A n \in Messages : n # p => pc'[n] = pc[n]
           /\ \A n \in Messages : n # msg[p] => \A q \in Procs : msg'[q] = n <=> msg[q] = n
BY TurnAssumption DEF TypeOK, Return, Procs

LEMMA SubmitLife ==
    ASSUME TypeOK, Shape, PlacesInv, PlacesInv', HandsEmpty, NEW m \in Messages, SubmitStep(m)
    PROVE  LifeStep
<1>0. /\ m \in Procs /\ m # Handler /\ SessionOf[m] \in Sessions /\ ListsFit
      /\ queue[SessionOf[m]] \in Seq(Messages) /\ m # None
      /\ \A n \in Messages : OnePlace(n) /\ OnePlace(n)' /\ n \in Procs
  BY TurnAssumption DEF Procs, PlacesInv, TypeOK
<1>1. /\ pc[m] \in Before /\ msg[m] = None
      /\ Place(m) = "caller" /\ ~InQueue(m) /\ ~Recorded(m) /\ ~Held(m)
  <2>1. pc[m] \in Before /\ pc[m] \notin Starting
    BY DEF SubmitStep, Submit, Reject, QueueUp, QueueUpAndDispatch, StartAtOnce, Before, Starting
  <2> QED
    BY <1>0, <2>1, PlaceIs DEF OnePlace, HandsEmpty
<1>2. CASE Submit(m)
  <2>1. PICK x \in Before : pc' = [pc EXCEPT ![m] = x]
    BY <1>2 DEF Submit, Before
  <2>2. UNCHANGED <<queue, active, msg, replies>>
    BY <1>2 DEF Submit, sched
  <2>3. \A n \in Messages : pc'[n] \in Before <=> pc[n] \in Before
    BY <1>0, <1>1, <2>1 DEF TypeOK, Procs
  <2> QED
    BY <1>0, <2>2, <2>3, ListsStay, NobodyMoves DEF Stays
<1>3. CASE Reject(m)
  <2>1. Return(m) /\ UNCHANGED <<queue, active, replies>>
    BY <1>3 DEF Reject, sched
  <2>2. /\ \A n \in Messages : n # m => pc'[n] = pc[n]
        /\ \A n \in Messages : \A q \in Procs : msg'[q] = n <=> msg[q] = n
        /\ pc'[m] \notin Before
    BY <1>0, <1>1, <2>1, ReturnHands, ReturnPlaces, TurnAssumption DEF Before
  <2>3. \A n \in Messages : n # m => Stays(n)
    BY <1>0, <2>1, <2>2, ListsStay DEF Stays
  <2>4. Place(m)' = "over"
    <3>1. ~Held(m)' /\ ~InQueue(m)' /\ ~Recorded(m)'
      BY <1>0, <1>1, <2>1, <2>2, ListsStay DEF Held
    <3> QED
      BY <1>0, <2>2, <3>1, PlaceWillBe
  <2>5. Life!TurnAway(m)
    BY <1>1, <2>1, <2>3, <2>4, OnlyOneMoves DEF Life!TurnAway
  <2> QED
    BY <1>1, <2>4, <2>5 DEF LifeStep, Life!LifeNext
<1>4. CASE QueueUp(m) \/ QueueUpAndDispatch(m)
  <2> DEFINE r == Insert(queue[SessionOf[m]], m)
  <2>1. queue' = [queue EXCEPT ![SessionOf[m]] = r] /\ UNCHANGED <<active, replies>>
    BY <1>0, <1>4 DEF QueueUp, QueueUpAndDispatch, Enqueue, TypeOK, sched
  <2>2. /\ ToSet(r) = ToSet(queue[SessionOf[m]]) \cup {m}
        /\ IsInjective(queue[SessionOf[m]]) /\ m \notin ToSet(queue[SessionOf[m]]) => IsInjective(r)
    BY <1>0, InsertElements
  <2> HIDE DEF r
  <2>3. /\ InQueue(m)'
        /\ \A n \in Messages : n # m => (InQueue(n)' <=> InQueue(n))
        /\ \A n \in Messages : Recorded(n)' <=> Recorded(n)
    BY <1>0, <1>1, <2>1, <2>2, QueueGains
  <2>4. /\ \A n \in Messages : n # m => pc'[n] = pc[n]
        /\ \A n \in Messages : \A q \in Procs : msg'[q] = n <=> msg[q] = n
    <3>1. CASE Return(m)
      BY <1>0, <1>1, <3>1, ReturnHands, TurnAssumption
    <3>2. CASE pc' = [pc EXCEPT ![m] = "next"] /\ msg' = msg
      BY <1>0, <3>2 DEF TypeOK, Procs
    <3> QED
      BY <1>4, <3>1, <3>2 DEF QueueUp, QueueUpAndDispatch
  <2>5. \A n \in Messages : n # m => Stays(n)
    BY <2>3, <2>4 DEF Stays
  <2>6. Place(m)' = "queued"
    BY <1>0, <2>3, PlaceWillBe
  <2>7. Life!QueueUp(m)
    BY <1>1, <2>1, <2>5, <2>6, OnlyOneMoves DEF Life!QueueUp
  <2> QED
    BY <1>1, <2>6, <2>7 DEF LifeStep, Life!LifeNext
<1>5. CASE StartAtOnce(m)
  <2>1. /\ pc' = [pc EXCEPT ![m] = "start"] /\ msg' = [msg EXCEPT ![m] = m]
        /\ UNCHANGED <<active, replies>>
    BY <1>5 DEF StartAtOnce, sched
  <2>2. /\ \A n \in Messages : n # m => pc'[n] = pc[n]
        /\ \A n \in Messages : n # m => \A q \in Procs : msg'[q] = n <=> msg[q] = n
        /\ msg'[m] = m
    BY <1>0, <1>1, <2>1, TurnAssumption DEF TypeOK, Procs
  <2>3. Held(m)' /\ Place(m)' = "starting"
    <3>1. Held(m)'
      BY <1>0, <2>2 DEF Held
    <3> QED
      BY <1>0, <3>1, PlaceWillBe
  <2>4. CASE queue' = queue
    <3>1. \A n \in Messages : n # m => Stays(n)
      BY <1>0, <2>1, <2>2, <2>4, ListsStay DEF Stays
    <3>2. Life!StartAtOnce(m)
      BY <1>1, <2>1, <2>3, <3>1, OnlyOneMoves DEF Life!StartAtOnce
    <3> QED
      BY <1>1, <2>3, <3>2 DEF LifeStep, Life!LifeNext
  <2>5. CASE queue' = [queue EXCEPT ![SessionOf[m]] = <<>>]
    <3>1. /\ \A n \in Messages : SessionOf[n] = SessionOf[m] => ~InQueue(n)'
          /\ \A n \in Messages : SessionOf[n] # SessionOf[m] => (InQueue(n)' <=> InQueue(n))
          /\ \A n \in Messages : Recorded(n)' <=> Recorded(n)
      BY <1>0, <2>1, <2>5, EmptyElements, QueueLoses
    <3>2. ASSUME NEW n \in Messages, n # m
          PROVE  Place(n)' = IF SessionOf[n] = SessionOf[m] /\ Place(n) \in {"queued"} THEN "over"
                             ELSE Place(n)
      <4>1. (Held(n)' <=> Held(n)) /\ (Place(n) = "queued" <=> InQueue(n))
        BY <1>0, <2>2, <3>2, PlaceIs DEF Held
      <4>2. CASE SessionOf[n] = SessionOf[m] /\ InQueue(n)
        <5>1. pc[n] \notin Before /\ ~Held(n) /\ ~Recorded(n)
          BY <1>0, <4>2 DEF OnePlace
        <5> QED
          BY <2>2, <3>1, <3>2, <4>1, <4>2, <5>1 DEF Place
      <4>3. CASE ~(SessionOf[n] = SessionOf[m] /\ InQueue(n))
        <5>1. InQueue(n)' <=> InQueue(n)
          BY <3>1, <4>3
        <5>2. Stays(n)
          BY <2>2, <3>1, <3>2, <5>1 DEF Stays
        <5> QED
          BY <4>1, <4>3, <5>2, StaysThere
      <4> QED
        BY <4>2, <4>3
    <3>3. Life!Move(m, "starting", {"queued"})
      BY <2>3, <3>2, OneMoves
    <3>4. Life!StartAtOnce(m)
      BY <1>1, <2>1, <3>3 DEF Life!StartAtOnce
    <3> QED
      BY <1>1, <2>3, <3>4 DEF LifeStep, Life!LifeNext
  <2> QED
    BY <1>5, <2>4, <2>5 DEF StartAtOnce, ClearQueue
<1> QED
  BY <1>2, <1>3, <1>4, <1>5 DEF SubmitStep

\* A start that fails: the message goes back, or nowhere.
LEMMA FailureLife ==
    ASSUME TypeOK, Shape, PlacesInv, PlacesInv', HandsEmpty, NEW p \in Procs,
           pc[p] \in Starting, FailStart(p)
    PROVE  LifeStep
<1>0. msg[p] \in Messages /\ SessionOf[msg[p]] = SessOf(p) /\ SessOf(p) \in Sessions
  BY CallerSession
<1> PICK m \in Messages : m = msg[p]
  BY <1>0
<1> DEFINE s == SessionOf[m]
           r == <<m>> \o queue[s]
<1>1. /\ s \in Sessions /\ queue[s] \in Seq(Messages) /\ m # None /\ ListsFit /\ s = SessOf(p)
      /\ OnePlace(m) /\ OnePlace(m)'
  BY <1>0, TurnAssumption DEF TypeOK, PlacesInv
<1>2. /\ Return(p) /\ UNCHANGED <<active, replies>>
      /\ \/ p \in popped /\ queue' = [queue EXCEPT ![s] = r]
         \/ queue' = queue
  BY <1>1 DEF FailStart, sched, TypeOK
<1>3. Held(m) /\ ~InQueue(m) /\ ~Recorded(m) /\ pc[m] \notin Before /\ Place(m) = "starting"
  <2>1. Held(m)
    BY DEF Held
  <2> QED
    BY <1>1, <2>1, PlaceIs DEF OnePlace
<1>4. pc[p] \notin Before /\ pc'[p] \notin Before
  BY <1>2 DEF Starting, Before, Return, TypeOK
<1>5. /\ \A n \in Messages : pc'[n] \in Before <=> pc[n] \in Before
      /\ \A n \in Messages : n # m => \A q \in Procs : msg'[q] = n <=> msg[q] = n
  BY <1>2, <1>4, ReturnHands
<1>6. ~Held(m)'
  BY <1>1, <1>2, ReturnPlaces DEF Held, OnePlace
<1> HIDE DEF s, r
<1>7. CASE queue' = queue
  <2>1. \A n \in Messages : n # m => Stays(n)
    BY <1>1, <1>2, <1>5, <1>7, ListsStay DEF Stays
  <2>2. Place(m)' = "over"
    <3>1. ~InQueue(m)' /\ ~Recorded(m)'
      BY <1>1, <1>2, <1>3, <1>7, ListsStay
    <3> QED
      BY <1>1, <1>3, <1>5, <1>6, <3>1, PlaceWillBe
  <2>3. Life!FailStart(m)
    BY <1>2, <1>3, <2>1, <2>2, OnlyOneMoves DEF Life!FailStart
  <2> QED
    BY <1>3, <2>2, <2>3 DEF LifeStep, Life!LifeNext
<1>8. CASE queue' = [queue EXCEPT ![s] = r]
  <2>1. /\ ToSet(r) = ToSet(queue[s]) \cup {m}
        /\ IsInjective(queue[s]) /\ m \notin ToSet(queue[s]) => IsInjective(r)
    BY <1>1, ConsElements DEF r
  <2>2. /\ InQueue(m)'
        /\ \A n \in Messages : n # m => (InQueue(n)' <=> InQueue(n))
        /\ \A n \in Messages : Recorded(n)' <=> Recorded(n)
    BY <1>1, <1>2, <1>3, <1>8, <2>1, QueueGains DEF s
  <2>3. \A n \in Messages : n # m => Stays(n)
    BY <1>5, <2>2 DEF Stays
  <2>4. Place(m)' = "queued"
    BY <1>1, <2>2, PlaceWillBe
  <2>5. Life!FailStart(m)
    BY <1>2, <1>3, <2>3, <2>4, OnlyOneMoves DEF Life!FailStart
  <2> QED
    BY <1>3, <2>4, <2>5 DEF LifeStep, Life!LifeNext
<1> QED
  BY <1>2, <1>7, <1>8

LEMMA DispatchLife ==
    ASSUME TypeOK, Shape, PlacesInv, PlacesInv', HandsEmpty, NEW p \in Procs, DispatchStep(p)
    PROVE  LifeStep
<1>0. ListsFit /\ \A n \in Messages : OnePlace(n) /\ OnePlace(n)' /\ SessionOf[n] \in Sessions
  BY TurnAssumption DEF PlacesInv
<1>1. CASE NothingToStart(p)
  <2>1. /\ Return(p) /\ UNCHANGED <<queue, active, replies>>
        /\ pc[p] = "next" /\ msg[p] = None
    BY <1>1 DEF NothingToStart, sched, HandsEmpty, Starting
  <2>2. pc[p] \notin Before /\ pc'[p] \notin Before
    BY <2>1 DEF Before, Return, TypeOK
  <2>3. \A n \in Messages : /\ pc'[n] \in Before <=> pc[n] \in Before
                            /\ \A q \in Procs : msg'[q] = n <=> msg[q] = n
    BY <2>1, <2>2, ReturnHands, TurnAssumption
  <2> QED
    BY <1>0, <2>1, <2>3, ListsStay, NobodyMoves DEF Stays
<1>2. CASE Dequeue(p)
  <2>1. SessOf(p) \in Sessions
    BY <1>2, CallerSession DEF Dequeue
  <2> PICK s \in Sessions : s = SessOf(p)
    BY <2>1
  <2> PICK q : q = queue[s]
    OBVIOUS
  <2> PICK m : m = Head(q)
    OBVIOUS
  <2> DEFINE r == Tail(q)
  <2>2. /\ q \in Seq(Messages) /\ q # <<>> /\ IsInjective(q)
        /\ queue' = [queue EXCEPT ![s] = r]
        /\ msg' = [msg EXCEPT ![p] = m]
        /\ pc' = [pc EXCEPT ![p] = "start"]
        /\ UNCHANGED <<active, replies>>
        /\ pc[p] = "next" /\ msg[p] = None
    BY <1>0, <1>2, <2>1 DEF Dequeue, TypeOK, ListsFit, sched, HandsEmpty, Starting
  <2>3. m \in Messages /\ m \in ToSet(q) /\ ToSet(r) = ToSet(q) \ {m} /\ IsInjective(r)
    BY <2>2, TailElements
  <2>4. SessionOf[m] = s
    BY <2>1, <2>3 DEF Shape
  <2>5. Place(m) = "queued"
    BY <1>0, <2>3, <2>4, PlaceIs DEF InQueue
  <2> HIDE DEF r
  <2>6. /\ \A n \in Messages : SessionOf[n] = s => (InQueue(n)' <=> n \in ToSet(r))
        /\ \A n \in Messages : SessionOf[n] # s => (InQueue(n)' <=> InQueue(n))
        /\ \A n \in Messages : Recorded(n)' <=> Recorded(n)
    BY <1>0, <2>1, <2>2, <2>3, QueueLoses
  <2>7. \A n \in Messages : n # m => (InQueue(n)' <=> InQueue(n))
    BY <2>3, <2>6 DEF InQueue
  <2>8. /\ \A n \in Messages : pc'[n] \in Before <=> pc[n] \in Before
        /\ \A n \in Messages : n # m => \A c \in Procs : msg'[c] = n <=> msg[c] = n
        /\ msg'[p] = m
    BY <2>2, TurnAssumption DEF TypeOK, Procs, Before
  <2>9. \A n \in Messages : n # m => Stays(n)
    BY <2>6, <2>7, <2>8 DEF Stays
  <2>10. Place(m)' = "starting"
    <3>1. Held(m)'
      BY <2>8 DEF Held
    <3> QED
      BY <1>0, <2>3, <3>1, PlaceWillBe
  <2>11. Life!Dequeue(m)
    BY <2>2, <2>3, <2>5, <2>9, <2>10, OnlyOneMoves DEF Life!Dequeue
  <2> QED
    BY <2>3, <2>5, <2>10, <2>11 DEF LifeStep, Life!LifeNext
<1>3. CASE Admit(p) \/ Mark(p) \/ Spawn(p)
  <2>1. PICK x \in {"mark", "save", "resolve"} : pc' = [pc EXCEPT ![p] = x]
    BY <1>3 DEF Admit, Mark, Spawn
  <2>2. UNCHANGED <<queue, active, msg, replies>> /\ pc[p] \in Starting
    BY <1>3 DEF Admit, Mark, Spawn, sched, Starting
  <2>3. \A n \in Messages : pc'[n] \in Before <=> pc[n] \in Before
    BY <2>1, <2>2 DEF TypeOK, Procs, Before, Starting
  <2> QED
    BY <1>0, <2>2, <2>3, ListsStay, NobodyMoves DEF Stays
<1>4. CASE Refuse(p) \/ FailBeforeMark(p) \/ FailAfterMark(p) \/ FailResolve(p)
  BY <1>4, FailureLife DEF Refuse, FailBeforeMark, FailAfterMark, FailResolve, Starting
<1>5. CASE Resolve(p)
  <2> PICK s : s = SessOf(p)
    OBVIOUS
  <2> PICK m : m = msg[p]
    OBVIOUS
  <2>1. m \in Messages /\ SessionOf[m] = s /\ s \in Sessions /\ m # None
    BY <1>5, CallerSession, TurnAssumption DEF Resolve, Starting
  <2>2. /\ Return(p) /\ UNCHANGED <<queue, replies>>
        /\ active' = [active EXCEPT ![s] = [turn |-> state[s], msg |-> m]]
        /\ pc[p] = "resolve"
    BY <1>5 DEF Resolve
  <2>3. Place(m) = "starting"
    BY <1>0, <2>1, PlaceIs DEF Held
  <2>4. /\ active'[s] = [turn |-> state[s], msg |-> m]
        /\ \A t \in Sessions : t # s => active'[t] = active[t]
    BY <2>1, <2>2 DEF TypeOK
  <2>5. pc[p] \notin Before /\ pc'[p] \notin Before
    BY <2>2 DEF Before, Return, TypeOK
  <2>6. /\ \A n \in Messages : pc'[n] \in Before <=> pc[n] \in Before
        /\ \A n \in Messages : n # m => \A q \in Procs : msg'[q] = n <=> msg[q] = n
    BY <2>2, <2>5, ReturnHands
  <2>7. Place(m)' = "recorded"
    <3>1. [turn |-> state[s], msg |-> m] \in [turn : Messages, msg : Messages]
      BY <1>5, <2>1 DEF Resolve, Processing
    <3>2. Recorded(m)'
      BY <2>1, <2>4, <3>1, TurnAssumption DEF Recorded
    <3> QED
      BY <1>0, <2>1, <3>2, PlaceWillBe
  <2>8. ASSUME NEW n \in Messages, n # m
        PROVE  Place(n)' = IF SessionOf[n] = SessionOf[m] /\ Place(n) \in {"recorded"} THEN "over"
                           ELSE Place(n)
    <3>1. (Held(n)' <=> Held(n)) /\ (InQueue(n)' <=> InQueue(n)) /\ (Place(n) = "recorded" <=> Recorded(n))
      BY <1>0, <2>2, <2>6, <2>8, PlaceIs DEF Held, InQueue
    <3>2. CASE SessionOf[n] = s
      <4>1. ~Recorded(n)'
        BY <2>4, <2>8, <3>2 DEF Recorded
      <4>2. CASE Recorded(n)
        <5>1. pc[n] \notin Before /\ ~Held(n) /\ ~InQueue(n)
          BY <1>0, <4>2 DEF OnePlace
        <5> QED
          BY <2>1, <2>6, <3>1, <3>2, <4>1, <4>2, <5>1 DEF Place
      <4>3. CASE ~Recorded(n)
        <5>1. Stays(n)
          BY <2>6, <2>8, <3>1, <4>1, <4>3 DEF Stays
        <5> QED
          BY <3>1, <4>3, <5>1, StaysThere
      <4> QED
        BY <4>2, <4>3
    <3>3. CASE SessionOf[n] # s
      <4>1. Recorded(n)' <=> Recorded(n)
        BY <1>0, <2>4, <3>3 DEF Recorded
      <4>2. Stays(n)
        BY <2>6, <2>8, <3>1, <4>1 DEF Stays
      <4> QED
        BY <2>1, <3>3, <4>2, StaysThere
    <3> QED
      BY <3>2, <3>3
  <2>9. Life!Move(m, "recorded", {"recorded"})
    BY <2>1, <2>7, <2>8, OneMoves
  <2>10. Life!Record(m)
    BY <2>2, <2>1, <2>3, <2>9 DEF Life!Record
  <2> QED
    BY <2>1, <2>3, <2>7, <2>10 DEF LifeStep, Life!LifeNext
<1> QED
  BY <1>1, <1>2, <1>3, <1>4, <1>5 DEF DispatchStep, Start

LEMMA HandlerLife ==
    ASSUME TypeOK, Shape, PlacesInv, PlacesInv', HandsEmpty, HandlerStep
    PROVE  LifeStep
<1>0. /\ Handler \in Procs /\ Handler \notin Messages /\ ListsFit
      /\ \A n \in Messages : OnePlace(n) /\ OnePlace(n)' /\ SessionOf[n] \in Sessions
  BY TurnAssumption DEF Procs, PlacesInv
<1>1. CASE Receive
  <2> PICK o : o = Head(channel)
    OBVIOUS
  <2> PICK a : a = active[o.s]
    OBVIOUS
  <2>1. o.s \in Sessions
    <3>1. o \in OutcomeType
      BY <1>1 DEF Receive, TypeOK
    <3> QED
      BY <3>1 DEF OutcomeType
  <2>2. /\ UNCHANGED <<queue, msg>> /\ active' = [active EXCEPT ![o.s] = None]
        /\ \/ Forwards(o) /\ \E r \in Replies : Forward(a, r)
           \/ pc' = [pc EXCEPT ![Handler] = "act"] /\ UNCHANGED replies
    BY <1>1 DEF Receive
  <2>3. active'[o.s] = None /\ \A t \in Sessions : t # o.s => active'[t] = active[t]
    BY <2>1, <2>2 DEF TypeOK
  <2>4. \A n \in Messages : pc'[n] \in Before <=> pc[n] \in Before
    <3>1. CASE pc' = [pc EXCEPT ![Handler] = "act"]
      BY <1>0, <3>1 DEF TypeOK, Procs
    <3>2. ASSUME NEW r \in Replies, Forward(a, r)
          PROVE  \A n \in Messages : pc'[n] \in Before <=> pc[n] \in Before
      <4>1. /\ pc[r] = "unsent" /\ r \in Messages
            /\ pc' = [pc EXCEPT ![Handler] = "reply", ![r] = "called"]
        BY <3>2, TurnAssumption DEF Forward
      <4> QED
        BY <1>0, <4>1 DEF TypeOK, Procs, Before
    <3> QED
      BY <2>2, <3>1, <3>2
  <2>5. CASE a = None
    <3>1. ~Forwards(o)
      BY <2>5 DEF Forwards
    <3>2. \A n \in Messages : Recorded(n)' <=> Recorded(n)
      BY <1>0, <2>3, <2>5 DEF Recorded
    <3>3. \A n \in Messages : Stays(n)
      BY <2>2, <2>4, <3>2 DEF Stays, InQueue
    <3> QED
      BY <2>2, <3>1, <3>3, NobodyMoves
  <2>6. CASE a # None
    <3> PICK m : m = a.msg
      OBVIOUS
    <3>1. m \in Messages /\ SessionOf[m] = o.s
      BY <1>0, <2>1, <2>6 DEF TypeOK, ListsFit
    <3>2. Recorded(m) /\ Place(m) = "recorded" /\ ~InQueue(m) /\ ~Held(m) /\ pc[m] \notin Before
      <4>1. Recorded(m)
        BY <2>6, <3>1 DEF Recorded
      <4> QED
        BY <1>0, <3>1, <4>1, PlaceIs DEF OnePlace
    <3>3. Place(m)' = "over"
      <4>1. ~Recorded(m)'
        BY <2>3, <3>1 DEF Recorded
      <4> QED
        BY <1>0, <2>2, <2>4, <3>1, <3>2, <4>1, PlaceWillBe DEF Held, InQueue
    <3>4. \A n \in Messages : n # m => Stays(n)
      <4>1. \A n \in Messages : n # m => (Recorded(n)' <=> Recorded(n))
        BY <1>0, <2>3, <2>6 DEF Recorded
      <4> QED
        BY <2>2, <2>4, <4>1 DEF Stays, InQueue
    <3>5. Life!Move(m, "over", {})
      BY <3>1, <3>3, <3>4, OnlyOneMoves
    <3>6. \/ UNCHANGED replies
          \/ /\ m \in {n \in Messages : ReplyTo[n] # None}
             /\ replies' = [replies EXCEPT ![m] = @ + 1]
      BY <2>2, <3>1 DEF Forwards, Forward
    <3>7. Life!End(m)
      BY <3>1, <3>2, <3>5, <3>6 DEF Life!End
    <3> QED
      BY <3>1, <3>2, <3>3, <3>7 DEF LifeStep, Life!LifeNext
  <2> QED
    BY <2>5, <2>6
<1>2. CASE Forwarded \/ DispatchNext
  <2>1. PICK x \in {"act", "next"} : pc' = [pc EXCEPT ![Handler] = x]
    BY <1>2 DEF Forwarded, DispatchNext
  <2>2. UNCHANGED <<queue, active, msg, replies>>
    BY <1>2 DEF Forwarded, DispatchNext, sched
  <2>3. \A n \in Messages : pc'[n] = pc[n]
    BY <1>0, <2>1 DEF TypeOK, Procs
  <2> QED
    BY <1>0, <2>2, <2>3, ListsStay, NobodyMoves DEF Stays
<1>3. CASE ClearAfterFailure
  <2> PICK s : s = handling.s
    OBVIOUS
  <2>1. /\ s \in Sessions /\ Return(Handler) /\ UNCHANGED <<active, replies>>
        /\ queue' = [queue EXCEPT ![s] = <<>>] /\ msg[Handler] = None
    BY <1>0, <1>3 DEF ClearAfterFailure, ClearQueue, Shape, sched, HandsEmpty, Starting
  <2>2. /\ \A n \in Messages : SessionOf[n] = s => ~InQueue(n)'
        /\ \A n \in Messages : SessionOf[n] # s => (InQueue(n)' <=> InQueue(n))
        /\ \A n \in Messages : Recorded(n)' <=> Recorded(n)
    BY <1>0, <2>1, EmptyElements, QueueLoses
  <2>3. \A n \in Messages : /\ pc'[n] = pc[n]
                            /\ \A q \in Procs : msg'[q] = n <=> msg[q] = n
    BY <1>0, <2>1, ReturnHands, TurnAssumption
  <2>4. CASE \A n \in Messages : SessionOf[n] = s => ~InQueue(n)
    <3>1. \A n \in Messages : Stays(n)
      BY <2>2, <2>3, <2>4 DEF Stays
    <3> QED
      BY <2>1, <3>1, NobodyMoves
  <2>5. ASSUME NEW m \in Messages, SessionOf[m] = s, InQueue(m) PROVE LifeStep
    <3>1. ASSUME NEW n \in Messages
          PROVE  Place(n)' = IF SessionOf[n] = SessionOf[m] /\ Place(n) \in {"queued"} THEN "over"
                             ELSE Place(n)
      <4>1. (Held(n)' <=> Held(n)) /\ (Place(n) = "queued" <=> InQueue(n))
        BY <1>0, <2>3, PlaceIs DEF Held
      <4>2. CASE SessionOf[n] = s /\ InQueue(n)
        <5>1. pc[n] \notin Before /\ ~Held(n) /\ ~Recorded(n)
          BY <1>0, <4>2 DEF OnePlace
        <5> QED
          BY <2>2, <2>3, <2>5, <4>1, <4>2, <5>1 DEF Place
      <4>3. CASE ~(SessionOf[n] = s /\ InQueue(n))
        <5>1. Stays(n)
          BY <2>2, <2>3, <4>3 DEF Stays
        <5> QED
          BY <2>5, <4>1, <4>3, <5>1, StaysThere
      <4> QED
        BY <4>2, <4>3
    <3>2. Place(m) = "queued"
      BY <1>0, <2>5, PlaceIs
    <3>3. Place(m)' = "over"
      BY <3>1, <3>2
    <3>4. Life!Move(m, "over", {"queued"})
      BY <3>1, <3>3, OneMoves
    <3>5. Life!Drop(m)
      BY <2>1, <3>2, <3>4 DEF Life!Drop
    <3> QED
      BY <3>2, <3>3, <3>5 DEF LifeStep, Life!LifeNext
  <2> QED
    BY <2>4, <2>5
<1> QED
  BY <1>1, <1>2, <1>3 DEF HandlerStep

\* The scheduler implements MessageLife: with its handler, overlapping calls and
\* failing starts, it takes each message the way that module describes, so that
\* none is in two places, comes back after its end, or is answered but as it ends.
THEOREM TurnsFollowLife == Spec => FollowsLife
<1>1. Init => PlacesInv /\ HandsEmpty /\ Life!LifeInit
  <2> SUFFICES ASSUME Init PROVE PlacesInv /\ HandsEmpty /\ Life!LifeInit
    OBVIOUS
  <2>1. PlacesInv
    BY InitialPlaces
  <2>2. HandsEmpty
    BY DEF Init, HandsEmpty, Starting
  <2>3. \A m \in Messages : Place(m) = "caller"
    BY TurnAssumption DEF Init, Place, Before, Procs
  <2> QED
    BY <2>1, <2>2, <2>3 DEF Init, Life!LifeInit
<1>2. TypeOK /\ Shape /\ PlacesInv /\ HandsEmpty /\ [Next]_vars => PlacesInv' /\ HandsEmpty'
  BY PlacesStep, HandsStep
<1>3. TypeOK /\ Shape /\ PlacesInv /\ HandsEmpty /\ PlacesInv' /\ [Next]_vars
        => [Life!LifeNext]_<<[m \in Messages |-> Place(m)], replies>>
  <2> SUFFICES ASSUME TypeOK, Shape, PlacesInv, HandsEmpty, PlacesInv', [Next]_vars
               PROVE  LifeStep
    BY DEF LifeStep
  <2>1. CASE UNCHANGED <<pc, msg, queue, active, replies>>
    BY <2>1, ListsStay, NobodyMoves DEF PlacesInv, Stays
  <2>2. ASSUME NEW i \in Slots, Execute(i)
        PROVE  UNCHANGED <<pc, msg, queue, active, replies>>
    BY <2>2 DEF Execute, Begin, StartRound, FinishBetweenRounds, FinishInRound, FinishAfterRound,
                Finish, Continue, Settle, Report, calls, sched
  <2>3. ASSUME NEW c \in Cancels, CancelRequest(c)
        PROVE  UNCHANGED <<pc, msg, queue, active, replies>>
    BY <2>3 DEF CancelRequest, AskToCancel, AskFromSession, CancelStep, FindActive, FindNothing,
                SetIdle, SetIdleUnsaved, Notify, Stop, calls, sched
  <2>4. UNCHANGED vars => UNCHANGED <<pc, msg, queue, active, replies>>
    BY DEF vars, calls, sched
  <2> QED
    BY <2>1, <2>2, <2>3, <2>4, SubmitLife, DispatchLife, HandlerLife
       DEF Next, CancelRequest, Finished
<1> QED
  BY <1>1, <1>2, <1>3, TurnTypeCorrect, PTL DEF Spec, FollowsLife, Life!LifeSpec
=============================================================================
