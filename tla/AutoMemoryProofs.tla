-------------------------- MODULE AutoMemoryProofs --------------------------
(* What holds of AutoMemory for any number of sessions, turns and workers. *)
EXTENDS AutoMemory, TLAPS

USE DEF Calls, To, Move, queueVars, wakeVars, workerVars, memoryVars, callVars, ghosts

LEMMA NoneIsNoSession == None \notin Sessions /\ None \notin Workers /\ None \notin Notifies
BY MemoryAssumption

LEMMA SessionOfCall == \A c \in Calls : SessionOf[c] \in Sessions
BY MemoryAssumption

\* Decision and NextAction only say one of three things.
LEMMA DecisionType == \A s, n : Decision(s, n) \in {"skip", "later", "now"}
BY DEF Decision

LEMMA NextActionType == \A s : NextAction(s) \in {"skip", "later", "now"}
BY DecisionType DEF NextAction

\* The Notify a worker is given is one that no other worker holds, or the workspace's.
LEMMA HeardType ==
    ASSUME WakeType, WorkerType
    PROVE  Heard \in Notifies
<1>1. \E n \in Notifies : \A w \in Workers : ear[w] # n
  BY FreshNotify DEF WorkerType
<1> QED
  BY <1>1 DEF Heard, WakeType

LEMMA UpToType ==
    ASSUME MemoryType, NEW s \in Sessions, NEW n \in Nat, n <= Len(history[s])
    PROVE  UpTo(s, n) \subseteq Turns
BY DEF MemoryType, UpTo

\* Consume keeps what a session remembers well formed, whatever the window says.
LEMMA ConsumeTyped ==
    ASSUME MemoryType, WindowType, NEW x \in Workers \cup Turns, NEW s \in Sessions,
           Consume(x, s)
    PROVE  MemoryType'
<1>1. window[x].upto \in Nat /\ window[x].turns \subseteq Turns
  BY DEF WindowType
<1>2. Len(history[s]) \in Nat
  BY DEF MemoryType
<1>3. Least(window[x].upto, Len(history[s])) \in Nat
  BY <1>1, <1>2 DEF Least
<1>4. CASE revision[s] = window[x].revision
  <2>1. /\ cursor' = [cursor EXCEPT ![s] = Least(window[x].upto, Len(history[s]))]
        /\ eligible' = [eligible EXCEPT ![s] = 0]
        /\ cooling' = [cooling EXCEPT ![s] = Cooldown]
        /\ seen' = seen \cup window[x].turns
        /\ history' = history /\ revision' = revision
    BY <1>4 DEF Consume
  <2> QED
    BY <1>1, <1>3, <2>1, MemoryAssumption DEF MemoryType
<1>5. CASE revision[s] # window[x].revision
  BY <1>5 DEF Consume, MemoryType
<1> QED
  BY <1>4, <1>5

\* What Spawn does: one worker that was free looks at the queue.
LEMMA SpawnedWorker ==
    ASSUME Spawn
    PROVE  \E v \in Workers :
             /\ at[v] = "free"
             /\ at' = [at EXCEPT ![v] = "look"]
             /\ raced' = (raced \/ \E u \in Workers : at[u] # "free")
             /\ Ring
BY DEF Spawn

\* A run ends, whatever comes next for its session.
LEMMA FinishTyped ==
    ASSUME TypeOK, NEW w \in Workers, at[w] \in {"after", "ask"}, NEW what, FinishRun(w, what)
    PROVE  TypeOK'
<1> USE MemoryAssumption
<1>a. QueueType /\ WakeType /\ WorkerType /\ MemoryType /\ CallType /\ WindowType /\ GhostType
  BY DEF TypeOK
<1>1. session[w] \in Sessions
  BY <1>a DEF WorkerType
<1>2. MemoryType' /\ CallType' /\ WindowType'
  BY <1>a DEF FinishRun, MemoryType, CallType, WindowType
<1>3. QueueType'
  BY <1>a, <1>1 DEF FinishRun, QueueType, Release
<1>4. WakeType'
  BY <1>a DEF FinishRun, Ring, WakeType
<1>5. WorkerType'
  BY <1>a DEF FinishRun, WorkerType
<1>6. GhostType'
  BY <1>a, <1>1 DEF FinishRun, GhostType
<1> QED
  BY <1>2, <1>3, <1>4, <1>5, <1>6 DEF TypeOK

LEMMA StepTyped ==
    ASSUME TypeOK, NEW c \in Calls, Step(c)
    PROVE  TypeOK'
<1> USE MemoryAssumption, SessionOfCall
<1>a. QueueType /\ WakeType /\ WorkerType /\ MemoryType /\ CallType /\ WindowType /\ GhostType
  BY DEF TypeOK
<1> USE <1>a
<1>1. CASE Withdraw(c)
  <2>1. MemoryType' /\ WindowType'
    BY <1>1 DEF Withdraw, MemoryType, WindowType
  <2>2. QueueType'
    BY <1>1 DEF Withdraw, QueueType
  <2>3. WakeType'
    BY <1>1 DEF Withdraw, WakeType, Ring
  <2>4. WorkerType'
    BY <1>1 DEF Withdraw, WorkerType, QueueType
  <2>5. CallType'
    BY <1>1 DEF Withdraw, CallType
  <2>6. GhostType'
    BY <1>1 DEF Withdraw, GhostType
  <2> QED
    BY <2>1, <2>2, <2>3, <2>4, <2>5, <2>6 DEF TypeOK
<1>2. CASE c \in Turns /\ StartTurn(c)
  <2>1. QueueType' /\ WakeType' /\ WorkerType' /\ WindowType' /\ GhostType'
    BY <1>2 DEF StartTurn, QueueType, WakeType, WorkerType, WindowType, GhostType
  <2>2. MemoryType'
    BY <1>2 DEF StartTurn, MemoryType
  <2>3. CallType'
    BY <1>2 DEF StartTurn, CallType
  <2> QED
    BY <2>1, <2>2, <2>3 DEF TypeOK
<1>3. CASE c \in Turns /\ EndTurn(c)
  <2>1. QueueType' /\ WakeType' /\ WorkerType' /\ MemoryType' /\ WindowType' /\ GhostType'
    BY <1>3 DEF EndTurn, QueueType, WakeType, WorkerType, MemoryType, WindowType, GhostType
  <2>2. CallType'
    BY <1>3 DEF EndTurn, CallType
  <2> QED
    BY <2>1, <2>2 DEF TypeOK
<1>4. CASE c \in Turns /\ FindWritten(c)
  <2>1. QueueType' /\ WakeType' /\ WorkerType' /\ MemoryType' /\ GhostType'
    BY <1>4 DEF FindWritten, QueueType, WakeType, WorkerType, MemoryType, GhostType
  <2>2. WindowType'
    <3> DEFINE s == SessionOf[c]
    <3>1. \/ window' = window
          \/ \E i \in DOMAIN history[s] : window' = [window EXCEPT ![c] =
               [upto |-> i, revision |-> revision[s], turns |-> UpTo(s, i)]]
      BY <1>4 DEF FindWritten
    <3>2. \A i \in DOMAIN history[s] : i \in Nat /\ UpTo(s, i) \subseteq Turns
      <4>1. history[s] \in Seq(Turns) /\ s \in Sessions
        BY DEF MemoryType
      <4> QED
        BY <4>1, UpToType
    <3>3. revision[s] \in Nat
      BY DEF MemoryType
    <3> QED
      BY <1>4, <3>1, <3>2, <3>3 DEF WindowType
  <2>3. CallType'
    BY <1>4 DEF FindWritten, CallType
  <2> QED
    BY <2>1, <2>2, <2>3 DEF TypeOK
<1>5. CASE c \in Turns /\ MarkConsumed(c)
  <2>1. QueueType' /\ WakeType' /\ WorkerType' /\ WindowType' /\ GhostType'
    BY <1>5 DEF MarkConsumed, QueueType, WakeType, WorkerType, WindowType, GhostType
  <2>2. MemoryType'
    BY <1>5, ConsumeTyped DEF MarkConsumed
  <2>3. CallType'
    BY <1>5 DEF MarkConsumed, CallType
  <2> QED
    BY <2>1, <2>2, <2>3 DEF TypeOK
<1>6. CASE c \in Turns /\ NoteEligible(c)
  <2>1. QueueType' /\ WakeType' /\ WorkerType' /\ WindowType' /\ GhostType'
    BY <1>6 DEF NoteEligible, QueueType, WakeType, WorkerType, WindowType, GhostType
  <2>2. MemoryType'
    BY <1>6 DEF NoteEligible, MemoryType
  <2>3. CallType'
    BY <1>6 DEF NoteEligible, CallType
  <2> QED
    BY <2>1, <2>2, <2>3 DEF TypeOK
<1>7. CASE c \in Turns /\ InsertKey(c)
  <2>1. WakeType' /\ WorkerType' /\ MemoryType' /\ WindowType'
    BY <1>7 DEF InsertKey, WakeType, WorkerType, MemoryType, WindowType
  <2>2. QueueType'
    BY <1>7 DEF InsertKey, QueueType
  <2>3. CallType'
    BY <1>7 DEF InsertKey, CallType
  <2>4. GhostType'
    BY <1>7 DEF InsertKey, GhostType
  <2> QED
    BY <2>1, <2>2, <2>3, <2>4 DEF TypeOK
<1>8. CASE c \in Turns /\ ListInRun(c)
  <2>1. MemoryType' /\ WindowType'
    BY <1>8 DEF ListInRun, MemoryType, WindowType
  <2>2. QueueType'
    BY <1>8 DEF ListInRun, QueueType
  <2>3. WakeType'
    BY <1>8 DEF ListInRun, WakeType, Spawn, Ring
  <2>4. WorkerType'
    <3>1. CASE running
      BY <1>8, <3>1 DEF ListInRun, WorkerType
    <3>2. CASE ~running
      BY <1>8, <3>2, SpawnedWorker DEF ListInRun, WorkerType
    <3> QED
      BY <3>1, <3>2
  <2>5. CallType'
    BY <1>8 DEF ListInRun, CallType
  <2>6. GhostType'
    BY <1>8 DEF ListInRun, GhostType, Spawn
  <2> QED
    BY <2>1, <2>2, <2>3, <2>4, <2>5, <2>6 DEF TypeOK
<1>9. CASE c \in Turns /\ FindNoRun(c)
  <2>1. QueueType' /\ WakeType' /\ WorkerType' /\ MemoryType' /\ WindowType' /\ GhostType'
    BY <1>9 DEF FindNoRun, QueueType, WakeType, WorkerType, MemoryType, WindowType, GhostType
  <2>2. CallType'
    BY <1>9 DEF FindNoRun, CallType
  <2> QED
    BY <2>1, <2>2 DEF TypeOK
<1>10. CASE c \in Turns /\ InsertRun(c)
  <2>1. MemoryType' /\ WindowType'
    BY <1>10 DEF InsertRun, MemoryType, WindowType
  <2>2. QueueType'
    BY <1>10 DEF InsertRun, QueueType
  <2>3. WakeType'
    BY <1>10 DEF InsertRun, WakeType, Spawn, Ring
  <2>4. WorkerType'
    BY <1>10 DEF InsertRun, WorkerType, Spawn
  <2>5. CallType'
    BY <1>10 DEF InsertRun, CallType
  <2>6. GhostType'
    BY <1>10 DEF InsertRun, GhostType, Spawn, QueueType
  <2> QED
    BY <2>1, <2>2, <2>3, <2>4, <2>5, <2>6 DEF TypeOK
<1>11. CASE c \in Rollbacks /\ Rollback(c)
  <2>1. QueueType' /\ WakeType' /\ WorkerType' /\ WindowType' /\ GhostType'
    BY <1>11 DEF Rollback, QueueType, WakeType, WorkerType, WindowType, GhostType
  <2>2. MemoryType'
    <3> DEFINE s == SessionOf[c]
    <3>1. PICK n \in 0 .. Len(history[s]) :
            /\ history' = [history EXCEPT ![s] = SubSeq(@, 1, n)]
            /\ cursor' = [cursor EXCEPT ![s] = Least(@, n)]
      BY <1>11 DEF Rollback
    <3>2. SubSeq(history[s], 1, n) \in Seq(Turns) /\ Least(cursor[s], n) \in Nat
      BY DEF MemoryType, Least
    <3> QED
      BY <1>11, <3>1, <3>2 DEF Rollback, MemoryType
  <2>3. CallType'
    BY <1>11 DEF Rollback, CallType
  <2> QED
    BY <2>1, <2>2, <2>3 DEF TypeOK
<1> QED
  BY <1>1, <1>2, <1>3, <1>4, <1>5, <1>6, <1>7, <1>8, <1>9, <1>10, <1>11 DEF Step

LEMMA WorkTyped ==
    ASSUME TypeOK, NEW w \in Workers, Work(w)
    PROVE  TypeOK'
<1> USE MemoryAssumption
<1>a. QueueType /\ WakeType /\ WorkerType /\ MemoryType /\ CallType /\ WindowType /\ GhostType
  BY DEF TypeOK
<1>b. Heard \in Notifies
  BY <1>a, HeardType
<1> USE <1>a, <1>b
<1>1. CASE Pick(w)
  <2>1. MemoryType' /\ CallType' /\ WindowType' /\ GhostType'
    BY <1>1 DEF Pick, MemoryType, CallType, WindowType, GhostType
  <2>2. QueueType'
    BY <1>1 DEF Pick, QueueType, Ready
  <2>3. WakeType'
    BY <1>1 DEF Pick, WakeType, Listen
  <2>4. WorkerType'
    BY <1>1 DEF Pick, WorkerType, Listen, QueueType, Ready
  <2> QED
    BY <2>1, <2>2, <2>3, <2>4 DEF TypeOK
<1>2. CASE Wait(w)
  <2>1. QueueType' /\ MemoryType' /\ CallType' /\ WindowType' /\ GhostType'
    BY <1>2 DEF Wait, QueueType, MemoryType, CallType, WindowType, GhostType
  <2>2. WakeType'
    BY <1>2 DEF Wait, WakeType, Listen
  <2>3. WorkerType'
    BY <1>2 DEF Wait, WorkerType, Listen
  <2> QED
    BY <2>1, <2>2, <2>3 DEF TypeOK
<1>3. CASE Wake(w)
  <2>1. QueueType' /\ MemoryType' /\ CallType' /\ WindowType' /\ GhostType'
    BY <1>3 DEF Wake, QueueType, MemoryType, CallType, WindowType, GhostType
  <2>2. WakeType'
    BY <1>3 DEF Wake, WakeType
  <2>3. WorkerType'
    BY <1>3 DEF Wake, WorkerType
  <2> QED
    BY <2>1, <2>2, <2>3 DEF TypeOK
<1>4. CASE Oversleep(w)
  <2>1. QueueType' /\ WakeType' /\ MemoryType' /\ CallType' /\ WindowType' /\ GhostType'
    BY <1>4 DEF Oversleep, QueueType, WakeType, MemoryType, CallType, WindowType, GhostType
  <2>2. WorkerType'
    BY <1>4 DEF Oversleep, WorkerType
  <2> QED
    BY <2>1, <2>2 DEF TypeOK
<1>5. CASE Stop(w)
  <2>1. MemoryType' /\ CallType' /\ WindowType' /\ GhostType'
    BY <1>5 DEF Stop, MemoryType, CallType, WindowType, GhostType
  <2>2. QueueType'
    BY <1>5 DEF Stop, QueueType
  <2>3. WakeType'
    BY <1>5 DEF Stop, WakeType, Listen
  <2>4. WorkerType'
    BY <1>5 DEF Stop, WorkerType, Listen
  <2> QED
    BY <2>1, <2>2, <2>3, <2>4 DEF TypeOK
<1>6. CASE StopUnlisted(w)
  <2>1. QueueType' /\ MemoryType' /\ CallType' /\ WindowType'
    BY <1>6 DEF StopUnlisted, QueueType, MemoryType, CallType, WindowType
  <2>2. WakeType'
    BY <1>6 DEF StopUnlisted, WakeType
  <2>3. WorkerType'
    BY <1>6 DEF StopUnlisted, WorkerType, Leave
  <2>4. GhostType'
    BY <1>6 DEF StopUnlisted, GhostType, Leave
  <2> QED
    BY <2>1, <2>2, <2>3, <2>4 DEF TypeOK
<1>7. CASE RemoveRun(w)
  <2>1. WakeType' /\ MemoryType' /\ CallType' /\ WindowType'
    BY <1>7 DEF RemoveRun, WakeType, MemoryType, CallType, WindowType
  <2>2. QueueType'
    BY <1>7 DEF RemoveRun, QueueType
  <2>3. WorkerType'
    BY <1>7 DEF RemoveRun, WorkerType
  <2>4. GhostType'
    BY <1>7 DEF RemoveRun, GhostType, QueueType
  <2> QED
    BY <2>1, <2>2, <2>3, <2>4 DEF TypeOK
<1>8. CASE RemoveNotifier(w)
  <2>1. QueueType' /\ MemoryType' /\ CallType' /\ WindowType'
    BY <1>8 DEF RemoveNotifier, QueueType, MemoryType, CallType, WindowType
  <2>2. WakeType'
    BY <1>8 DEF RemoveNotifier, WakeType
  <2>3. WorkerType'
    BY <1>8 DEF RemoveNotifier, WorkerType, Leave
  <2>4. GhostType'
    BY <1>8 DEF RemoveNotifier, GhostType, Leave
  <2> QED
    BY <2>1, <2>2, <2>3, <2>4 DEF TypeOK
<1>9. CASE BeginCycle(w)
  <2>1. QueueType' /\ WakeType' /\ MemoryType' /\ CallType' /\ GhostType'
    BY <1>9 DEF BeginCycle, QueueType, WakeType, MemoryType, CallType, GhostType
  <2>2. WorkerType'
    BY <1>9 DEF BeginCycle, WorkerType
  <2>3. WindowType'
    <3> DEFINE s == session[w]
    <3>1. s \in Sessions
      BY <1>9 DEF BeginCycle, WorkerType
    <3>2. Len(history[s]) \in Nat /\ revision[s] \in Nat
      BY <3>1 DEF MemoryType
    <3>3. UpTo(s, Len(history[s])) \subseteq Turns
      BY <3>1, <3>2, UpToType
    <3>4. \/ window' = window
          \/ window' = [window EXCEPT ![w] = [upto |-> Len(history[s]),
               revision |-> revision[s], turns |-> UpTo(s, Len(history[s]))]]
      BY <1>9 DEF BeginCycle
    <3>5. [upto |-> Len(history[s]), revision |-> revision[s],
           turns |-> UpTo(s, Len(history[s]))]
            \in [upto : Nat, revision : Nat, turns : SUBSET Turns]
      BY <3>2, <3>3
    <3>6. window' = window \/ \E r \in [upto : Nat, revision : Nat, turns : SUBSET Turns] :
                                 window' = [window EXCEPT ![w] = r]
      BY <3>4, <3>5
    <3> QED
      BY <3>6 DEF WindowType
  <2> QED
    BY <2>1, <2>2, <2>3 DEF TypeOK
<1>10. CASE Commit(w)
  <2>1. QueueType' /\ WakeType' /\ CallType' /\ WindowType' /\ GhostType'
    BY <1>10 DEF Commit, QueueType, WakeType, CallType, WindowType, GhostType
  <2>2. WorkerType'
    BY <1>10 DEF Commit, WorkerType
  <2>3. MemoryType'
    <3>1. session[w] \in Sessions
      BY <1>10 DEF Commit, WorkerType
    <3> QED
      BY <1>10, <3>1, ConsumeTyped DEF Commit
  <2> QED
    BY <2>1, <2>2, <2>3 DEF TypeOK
<1>11. CASE CycleFails(w)
  <2>1. QueueType' /\ WakeType' /\ MemoryType' /\ CallType' /\ WindowType'
    BY <1>11 DEF CycleFails, QueueType, WakeType, MemoryType, CallType, WindowType
  <2>2. WorkerType'
    BY <1>11 DEF CycleFails, WorkerType
  <2>3. GhostType'
    BY <1>11 DEF CycleFails, GhostType
  <2> QED
    BY <2>1, <2>2, <2>3 DEF TypeOK
<1>12. CASE Heed(w)
  BY <1>12, FinishTyped DEF Heed
<1>13. CASE Ask(w)
  <2>1. QueueType' /\ WakeType' /\ MemoryType' /\ CallType' /\ WindowType' /\ GhostType'
    BY <1>13 DEF Ask, QueueType, WakeType, MemoryType, CallType, WindowType, GhostType
  <2>2. WorkerType'
    BY <1>13 DEF Ask, WorkerType
  <2> QED
    BY <2>1, <2>2 DEF TypeOK
<1>14. CASE Finish(w)
  BY <1>14, FinishTyped DEF Finish
<1> QED
  BY <1>1, <1>2, <1>3, <1>4, <1>5, <1>6, <1>7, <1>8, <1>9, <1>10, <1>11, <1>12, <1>13,
     <1>14 DEF Work

LEMMA NextTyped ==
    ASSUME TypeOK, [Next]_vars
    PROVE  TypeOK'
<1> USE DEF QueueType, WakeType, WorkerType, MemoryType, CallType, WindowType, GhostType
<1>1. CASE \E c \in Calls : RemoveKey(c)
  <2> PICK c \in Calls : RemoveKey(c)
    BY <1>1
  <2>1. QueueType' /\ CallType' /\ GhostType'
    BY SessionOfCall DEF RemoveKey, TypeOK
  <2>2. WakeType' /\ WorkerType' /\ MemoryType' /\ WindowType'
    BY DEF RemoveKey, TypeOK
  <2> QED
    BY <2>1, <2>2 DEF TypeOK
<1>2. CASE \E c \in Calls : Step(c)
  BY <1>2, StepTyped
<1>3. CASE \E w \in Workers : Work(w)
  BY <1>3, WorkTyped
<1>4. CASE \E s \in Sessions : Cool(s)
  <2>1. MemoryType'
    BY <1>4 DEF Cool, TypeOK
  <2>2. QueueType' /\ WakeType' /\ WorkerType' /\ CallType' /\ WindowType' /\ GhostType'
    BY <1>4 DEF Cool, TypeOK
  <2> QED
    BY <2>1, <2>2 DEF TypeOK
<1>5. CASE UNCHANGED vars
  BY <1>5 DEF vars, TypeOK
<1> QED
  BY <1>1, <1>2, <1>3, <1>4, <1>5 DEF Next, Done

\* Type correctness: the active session has a token to cancel it by, and a
\* worker has a session exactly while it is at one of the steps of its run.
THEOREM MemoryTypeCorrect == Spec => []TypeOK
<1>1. Init => TypeOK
  <2> SUFFICES ASSUME Init PROVE TypeOK
    OBVIOUS
  <2>1. QueueType /\ WakeType
    BY DEF Init, QueueType, WakeType
  <2>3. CallType
    BY DEF Init, CallType
  <2>4. GhostType
    <3>1. 0 \in 0 .. MaxFailures
      BY MemoryAssumption
    <3> QED
      BY <3>1 DEF Init, GhostType
  <2>2. WorkerType /\ MemoryType /\ WindowType
    BY MemoryAssumption DEF Init, WorkerType, MemoryType, WindowType, NoWindow
  <2> QED
    BY <2>1, <2>2, <2>3, <2>4 DEF TypeOK
<1>2. TypeOK /\ [Next]_vars => TypeOK'
  BY NextTyped
<1> QED
  BY <1>1, <1>2, PTL DEF Spec

-----------------------------------------------------------------------------
(* The cursor *)

\* What x is about to commit for s is true as long as the revision is the same.
Fits(x, s) ==
    /\ window[x].revision <= revision[s]
    /\ window[x].revision = revision[s] =>
         /\ window[x].upto <= Len(history[s])
         /\ UpTo(s, window[x].upto) \subseteq window[x].turns

CursorKept ==
    \A s \in Sessions : cursor[s] <= Len(history[s]) /\ UpTo(s, cursor[s]) \subseteq seen

WindowsFit ==
    /\ \A w \in Workers : at[w] = "cycle" => Fits(w, session[w])
    /\ \A t \in Turns : stage[t] = "marking" => Fits(t, SessionOf[t])

CursorInv == CursorKept /\ WindowsFit

\* No session's past is changed and nobody begins to commit.
CursorFrame ==
    /\ UNCHANGED <<history, cursor, revision, seen, window>>
    /\ \A w \in Workers : at'[w] = "cycle" => at[w] = "cycle" /\ session'[w] = session[w]
    /\ \A t \in Turns : stage'[t] = "marking" => stage[t] = "marking"

LEMMA CursorFramed ==
    ASSUME CursorInv, CursorFrame
    PROVE  CursorInv'
BY DEF CursorInv, CursorKept, WindowsFit, Fits, UpTo, CursorFrame

\* Turns that are appended, or taken off the end, leave the others where they were.
LEMMA UpToKept ==
    ASSUME NEW s \in Sessions, NEW n \in Nat,
           \A i \in 1 .. n : history'[s][i] = history[s][i]
    PROVE  UpTo(s, n)' = UpTo(s, n)
BY DEF UpTo

\* A commit advances the cursor to what its window holds, or does nothing.
LEMMA ConsumeKeeps ==
    ASSUME TypeOK, CursorKept, NEW x \in Workers \cup Turns, NEW s \in Sessions,
           Fits(x, s), Consume(x, s)
    PROVE  CursorKept' /\ UNCHANGED <<history, revision>>
<1>1. CASE revision[s] = window[x].revision
  <2>1. window[x].upto \in Nat /\ Len(history[s]) \in Nat /\ cursor \in [Sessions -> Nat]
    BY DEF TypeOK, WindowType, MemoryType
  <2>2. Least(window[x].upto, Len(history[s])) = window[x].upto
    BY <1>1, <2>1 DEF Fits, Least
  <2>3. /\ cursor' = [cursor EXCEPT ![s] = window[x].upto]
        /\ seen' = seen \cup window[x].turns
        /\ history' = history /\ revision' = revision
    BY <1>1, <2>2 DEF Consume
  <2>4. UpTo(s, window[x].upto) \subseteq window[x].turns /\ window[x].upto <= Len(history[s])
    BY <1>1 DEF Fits
  <2>5. ASSUME NEW q \in Sessions
        PROVE  cursor'[q] <= Len(history[q]) /\ UpTo(q, cursor'[q]) \subseteq seen'
    <3>1. CASE q = s
      BY <2>1, <2>3, <2>4, <3>1
    <3>2. CASE q # s
      BY <2>1, <2>3, <3>2 DEF CursorKept
    <3> QED
      BY <3>1, <3>2
  <2> QED
    BY <2>3, <2>5 DEF CursorKept, UpTo
<1>2. CASE revision[s] # window[x].revision
  BY <1>2 DEF Consume, CursorKept, UpTo
<1> QED
  BY <1>1, <1>2

\* A new turn is put at the end.
LEMMA StartKeeps ==
    ASSUME TypeOK, CursorInv, NEW t \in Turns, StartTurn(t)
    PROVE  CursorInv'
<1> DEFINE s == SessionOf[t]
<1>1. s \in Sessions
  BY SessionOfCall
<1>2. history' = [history EXCEPT ![s] = Append(history[s], t)]
  BY DEF StartTurn
<1>3. history \in [Sessions -> Seq(Turns)]
  BY DEF TypeOK, MemoryType
<1>4. ASSUME NEW q \in Sessions
      PROVE  /\ Len(history[q]) \in Nat /\ Len(history'[q]) \in Nat
             /\ Len(history[q]) <= Len(history'[q])
             /\ \A i \in 1 .. Len(history[q]) : history'[q][i] = history[q][i]
  BY <1>1, <1>2, <1>3
<1>5. ASSUME NEW q \in Sessions, NEW n \in Nat, n <= Len(history[q])
      PROVE  UpTo(q, n)' = UpTo(q, n)
  BY <1>4, <1>5, UpToKept
<1>6. UNCHANGED <<cursor, seen, window, revision, at, session>>
  BY DEF StartTurn
<1>7. \A u \in Turns : stage'[u] = "marking" => stage[u] = "marking"
  BY DEF StartTurn, TypeOK, CallType
<1>8. CursorKept'
  <2> SUFFICES ASSUME NEW q \in Sessions
               PROVE  cursor'[q] <= Len(history'[q]) /\ UpTo(q, cursor[q])' \subseteq seen'
    BY <1>6 DEF CursorKept, UpTo
  <2>1. cursor[q] \in Nat /\ cursor[q] <= Len(history[q])
    BY DEF TypeOK, MemoryType, CursorInv, CursorKept
  <2> QED
    BY <1>4, <1>5, <1>6, <2>1 DEF CursorInv, CursorKept
<1>9. ASSUME NEW x \in Workers \cup Turns, NEW q \in Sessions, Fits(x, q)
      PROVE  Fits(x, q)'
  <2>1. window[x].upto \in Nat
    BY DEF TypeOK, WindowType
  <2> QED
    BY <1>4, <1>5, <1>6, <1>9, <2>1 DEF Fits
<1>10. \A w \in Workers : at[w] = "cycle" => session[w] \in Sessions
  BY DEF TypeOK, WorkerType
<1>11. WindowsFit'
  BY <1>6, <1>7, <1>9, <1>10, SessionOfCall DEF CursorInv, WindowsFit
<1> QED
  BY <1>8, <1>11 DEF CursorInv

\* A rollback takes the cursor back and makes every window of its session stale.
LEMMA RollbackKeeps ==
    ASSUME TypeOK, CursorInv, NEW r \in Rollbacks, Rollback(r)
    PROVE  CursorInv'
<1> DEFINE s == SessionOf[r]
<1>1. s \in Sessions
  BY SessionOfCall
<1>2. PICK n \in 0 .. Len(history[s]) :
        /\ history' = [history EXCEPT ![s] = SubSeq(history[s], 1, n)]
        /\ cursor' = [cursor EXCEPT ![s] = Least(cursor[s], n)]
  BY DEF Rollback
<1>3. /\ history \in [Sessions -> Seq(Turns)] /\ cursor \in [Sessions -> Nat]
      /\ revision \in [Sessions -> Nat]
  BY DEF TypeOK, MemoryType
<1>4. revision' = [revision EXCEPT ![s] = revision[s] + 1]
  BY DEF Rollback
<1>5. UNCHANGED <<seen, window, at, session>>
  BY DEF Rollback
<1>6. \A u \in Turns : stage'[u] = "marking" => stage[u] = "marking"
  BY DEF Rollback, TypeOK, CallType
<1>7. n \in Nat /\ n <= Len(history[s]) /\ Len(history[s]) \in Nat
  BY <1>1, <1>3
<1>8. /\ Len(SubSeq(history[s], 1, n)) = n
      /\ \A i \in 1 .. n : SubSeq(history[s], 1, n)[i] = history[s][i]
  BY <1>1, <1>3, <1>7
<1>9. CursorKept'
  <2> SUFFICES ASSUME NEW q \in Sessions
               PROVE  cursor'[q] <= Len(history'[q]) /\ UpTo(q, cursor[q])' \subseteq seen
    BY <1>5 DEF CursorKept, UpTo
  <2>1. cursor[q] \in Nat /\ cursor[q] <= Len(history[q]) /\ UpTo(q, cursor[q]) \subseteq seen
    BY <1>3 DEF CursorInv, CursorKept
  <2>2. CASE q = s
    <3>1. cursor'[s] = Least(cursor[s], n) /\ history'[s] = SubSeq(history[s], 1, n)
      BY <1>1, <1>2, <1>3
    <3>2. Least(cursor[s], n) \in Nat /\ Least(cursor[s], n) <= n
          /\ Least(cursor[s], n) <= cursor[s]
      BY <1>7, <2>1, <2>2 DEF Least
    <3>4. \A i \in 1 .. cursor'[s] : i \in 1 .. cursor[s] /\ history'[s][i] = history[s][i]
      BY <1>7, <1>8, <2>1, <2>2, <3>1, <3>2
    <3>5. UpTo(s, cursor[s])' \subseteq UpTo(s, cursor[s])
      BY <3>4 DEF UpTo
    <3> QED
      BY <1>8, <2>1, <2>2, <3>1, <3>2, <3>5
  <2>3. CASE q # s
    <3>1. cursor'[q] = cursor[q] /\ history'[q] = history[q]
      BY <1>2, <1>3, <2>3
    <3> QED
      BY <2>1, <3>1 DEF UpTo
  <2> QED
    BY <2>2, <2>3
<1>10. ASSUME NEW x \in Workers \cup Turns, NEW q \in Sessions, Fits(x, q)
       PROVE  Fits(x, q)'
  <2>1. window[x].revision \in Nat /\ revision[q] \in Nat
    BY <1>3 DEF TypeOK, WindowType
  <2>2. CASE q = s
    <3>1. revision'[s] = revision[s] + 1
      BY <1>1, <1>3, <1>4
    <3> QED
      BY <1>5, <1>10, <2>1, <2>2, <3>1 DEF Fits
  <2>3. CASE q # s
    <3>1. revision'[q] = revision[q] /\ history'[q] = history[q]
      BY <1>2, <1>3, <1>4, <2>3
    <3> QED
      BY <1>5, <1>10, <3>1 DEF Fits, UpTo
  <2> QED
    BY <2>2, <2>3
<1>11. \A w \in Workers : at[w] = "cycle" => session[w] \in Sessions
  BY DEF TypeOK, WorkerType
<1>12. WindowsFit'
  BY <1>5, <1>6, <1>10, <1>11, SessionOfCall DEF CursorInv, WindowsFit
<1> QED
  BY <1>9, <1>12 DEF CursorInv

LEMMA StepKeepsCursor ==
    ASSUME TypeOK, CursorInv, NEW c \in Calls, Step(c)
    PROVE  CursorInv'
<1> USE DEF TypeOK, CallType, WorkerType
<1>1. CASE Withdraw(c)
  <2>1. CursorFrame
    BY <1>1 DEF Withdraw, CursorFrame
  <2> QED
    BY <2>1, CursorFramed
<1>2. CASE c \in Turns /\ EndTurn(c)
  <2>1. CursorFrame
    BY <1>2 DEF EndTurn, CursorFrame
  <2> QED
    BY <2>1, CursorFramed
<1>3. CASE c \in Turns /\ NoteEligible(c)
  <2>1. CursorFrame
    BY <1>3 DEF NoteEligible, CursorFrame
  <2> QED
    BY <2>1, CursorFramed
<1>4. CASE c \in Turns /\ InsertKey(c)
  <2>1. CursorFrame
    BY <1>4 DEF InsertKey, CursorFrame
  <2> QED
    BY <2>1, CursorFramed
<1>5. CASE c \in Turns /\ FindNoRun(c)
  <2>1. CursorFrame
    BY <1>5 DEF FindNoRun, CursorFrame
  <2> QED
    BY <2>1, CursorFramed
<1>6. CASE c \in Turns /\ ListInRun(c)
  <2>1. UNCHANGED <<history, cursor, revision, seen, window, session>>
    BY <1>6 DEF ListInRun
  <2>2. \A t \in Turns : stage'[t] = "marking" => stage[t] = "marking"
    BY <1>6 DEF ListInRun
  <2>3. at' = at \/ Spawn
    BY <1>6 DEF ListInRun
  <2>4. \A w \in Workers : at'[w] = "cycle" => at[w] = "cycle"
    BY <2>3, SpawnedWorker
  <2> QED
    BY <2>1, <2>2, <2>4, CursorFramed DEF CursorFrame
<1>7. CASE c \in Turns /\ InsertRun(c)
  <2>1. UNCHANGED <<history, cursor, revision, seen, window, session>>
    BY <1>7 DEF InsertRun
  <2>2. \A t \in Turns : stage'[t] = "marking" => stage[t] = "marking"
    BY <1>7 DEF InsertRun
  <2>3. at' = at \/ Spawn
    BY <1>7 DEF InsertRun
  <2>4. \A w \in Workers : at'[w] = "cycle" => at[w] = "cycle"
    BY <2>3, SpawnedWorker
  <2> QED
    BY <2>1, <2>2, <2>4, CursorFramed DEF CursorFrame
<1>8. CASE c \in Turns /\ StartTurn(c)
  BY <1>8, StartKeeps
<1>9. CASE c \in Rollbacks /\ Rollback(c)
  BY <1>9, RollbackKeeps
<1>10. CASE c \in Turns /\ FindWritten(c)
  <2>1. UNCHANGED <<history, cursor, revision, seen, at, session>>
    BY <1>10 DEF FindWritten
  <2>0. window' = window \/ \E x : window' = [window EXCEPT ![c] = x]
    BY <1>10 DEF FindWritten
  <2>2. \A w \in Workers : window'[w] = window[w]
    BY <1>10, <2>0, MemoryAssumption DEF WindowType
  <2>3. \A t \in Turns : t # c => stage'[t] = stage[t] /\ window'[t] = window[t]
    <3>1. \A t \in Turns : t # c => stage'[t] = stage[t]
      BY <1>10 DEF FindWritten
    <3> QED
      BY <2>0, <3>1 DEF WindowType
  <2>4. ASSUME stage'[c] = "marking"
        PROVE  Fits(c, SessionOf[c])'
    <3> DEFINE s == SessionOf[c]
    <3>1. PICK k \in DOMAIN history[s] : window' = [window EXCEPT ![c] =
               [upto |-> k, revision |-> revision[s], turns |-> UpTo(s, k)]]
      BY <1>10, <2>4 DEF FindWritten
    <3>2. window'[c] = [upto |-> k, revision |-> revision[s], turns |-> UpTo(s, k)]
      BY <1>10, <3>1 DEF WindowType
    <3>3. history[s] \in Seq(Turns) /\ revision[s] \in Nat
      BY SessionOfCall DEF MemoryType
    <3>4. k <= Len(history[s])
      BY <3>3
    <3> QED
      BY <2>1, <3>2, <3>3, <3>4 DEF Fits, UpTo
  <2>5. CursorKept'
    BY <2>1 DEF CursorInv, CursorKept, UpTo
  <2>6. WindowsFit'
    <3>1. \A w \in Workers : at[w] = "cycle" => Fits(w, session[w])'
      BY <2>1, <2>2 DEF CursorInv, WindowsFit, Fits, UpTo
    <3>2. \A t \in Turns : stage'[t] = "marking" => Fits(t, SessionOf[t])'
      BY <2>1, <2>3, <2>4 DEF CursorInv, WindowsFit, Fits, UpTo
    <3> QED
      BY <2>1, <3>1, <3>2 DEF WindowsFit
  <2> QED
    BY <2>5, <2>6 DEF CursorInv
<1>11. CASE c \in Turns /\ MarkConsumed(c)
  <2>1. Fits(c, SessionOf[c])
    BY <1>11 DEF MarkConsumed, CursorInv, WindowsFit
  <2>2. CursorKept' /\ UNCHANGED <<history, revision>>
    BY <1>11, <2>1, ConsumeKeeps, SessionOfCall DEF MarkConsumed, CursorInv
  <2>3. UNCHANGED <<window, at, session>>
    BY <1>11 DEF MarkConsumed
  <2>4. \A t \in Turns : stage'[t] = "marking" => stage[t] = "marking"
    BY <1>11 DEF MarkConsumed
  <2> QED
    BY <2>2, <2>3, <2>4 DEF CursorInv, WindowsFit, Fits, UpTo
<1> QED
  BY <1>1, <1>2, <1>3, <1>4, <1>5, <1>6, <1>7, <1>8, <1>9, <1>10, <1>11 DEF Step

LEMMA WorkKeepsCursor ==
    ASSUME TypeOK, CursorInv, NEW w \in Workers, Work(w)
    PROVE  CursorInv'
<1> USE DEF TypeOK, WorkerType
<1>1. CASE Pick(w)
  <2>1. CursorFrame
    BY <1>1 DEF Pick, Listen, CursorFrame
  <2> QED
    BY <2>1, CursorFramed
<1>2. CASE Wait(w)
  <2>1. CursorFrame
    BY <1>2 DEF Wait, Listen, CursorFrame
  <2> QED
    BY <2>1, CursorFramed
<1>3. CASE Wake(w)
  <2>1. CursorFrame
    BY <1>3 DEF Wake, CursorFrame
  <2> QED
    BY <2>1, CursorFramed
<1>4. CASE Oversleep(w)
  <2>1. CursorFrame
    BY <1>4 DEF Oversleep, CursorFrame
  <2> QED
    BY <2>1, CursorFramed
<1>5. CASE Stop(w)
  <2>1. CursorFrame
    BY <1>5 DEF Stop, Listen, CursorFrame
  <2> QED
    BY <2>1, CursorFramed
<1>6. CASE StopUnlisted(w)
  <2>1. CursorFrame
    BY <1>6 DEF StopUnlisted, Leave, CursorFrame
  <2> QED
    BY <2>1, CursorFramed
<1>7. CASE RemoveRun(w)
  <2>1. CursorFrame
    BY <1>7 DEF RemoveRun, CursorFrame
  <2> QED
    BY <2>1, CursorFramed
<1>8. CASE RemoveNotifier(w)
  <2>1. CursorFrame
    BY <1>8 DEF RemoveNotifier, Leave, CursorFrame
  <2> QED
    BY <2>1, CursorFramed
<1>9. CASE CycleFails(w)
  <2>1. CursorFrame
    BY <1>9 DEF CycleFails, CursorFrame
  <2> QED
    BY <2>1, CursorFramed
<1>10. CASE Heed(w)
  <2>1. CursorFrame
    BY <1>10 DEF Heed, FinishRun, CursorFrame
  <2> QED
    BY <2>1, CursorFramed
<1>11. CASE Ask(w)
  <2>1. CursorFrame
    BY <1>11 DEF Ask, CursorFrame
  <2> QED
    BY <2>1, CursorFramed
<1>12. CASE Finish(w)
  <2>1. CursorFrame
    BY <1>12 DEF Finish, FinishRun, CursorFrame
  <2> QED
    BY <2>1, CursorFramed
<1>13. CASE BeginCycle(w)
  <2>1. UNCHANGED <<history, cursor, revision, seen, session, stage>>
    BY <1>13 DEF BeginCycle
  <2>0. window' = window \/ \E x : window' = [window EXCEPT ![w] = x]
    BY <1>13 DEF BeginCycle
  <2>2. \A x \in Workers \cup Turns : x # w => window'[x] = window[x]
    BY <2>0 DEF WindowType
  <2>3. \A v \in Workers : v # w => at'[v] = at[v]
    BY <1>13 DEF BeginCycle
  <2>4. ASSUME at'[w] = "cycle"
        PROVE  Fits(w, session[w])'
    <3> DEFINE s == session[w]
    <3>1. window' = [window EXCEPT ![w] =
               [upto |-> Len(history[s]), revision |-> revision[s],
                turns |-> UpTo(s, Len(history[s]))]]
      BY <1>13, <2>4 DEF BeginCycle
    <3>2. window'[w] = [upto |-> Len(history[s]), revision |-> revision[s],
                        turns |-> UpTo(s, Len(history[s]))]
      BY <3>1 DEF WindowType
    <3>3. s \in Sessions
      BY <1>13 DEF BeginCycle
    <3>4. revision[s] \in Nat /\ Len(history[s]) \in Nat
      BY <3>3 DEF MemoryType
    <3> QED
      BY <2>1, <3>2, <3>4 DEF Fits, UpTo
  <2>5. CursorKept'
    BY <2>1 DEF CursorInv, CursorKept, UpTo
  <2>6. WindowsFit'
    <3>1. \A v \in Workers : at'[v] = "cycle" => Fits(v, session[v])'
      BY <2>1, <2>2, <2>3, <2>4 DEF CursorInv, WindowsFit, Fits, UpTo
    <3>2. \A t \in Turns : t # w
      BY MemoryAssumption
    <3>3. \A t \in Turns : stage[t] = "marking" => Fits(t, SessionOf[t])'
      BY <2>1, <2>2, <3>2 DEF CursorInv, WindowsFit, Fits, UpTo
    <3> QED
      BY <2>1, <3>1, <3>3 DEF WindowsFit
  <2> QED
    BY <2>5, <2>6 DEF CursorInv
<1>14. CASE Commit(w)
  <2>1. Fits(w, session[w]) /\ session[w] \in Sessions
    BY <1>14 DEF Commit, CursorInv, WindowsFit
  <2>2. CursorKept' /\ UNCHANGED <<history, revision>>
    BY <1>14, <2>1, ConsumeKeeps DEF Commit, CursorInv
  <2>3. UNCHANGED <<window, session, stage>>
    BY <1>14 DEF Commit
  <2>4. \A v \in Workers : at'[v] = "cycle" => at[v] = "cycle"
    BY <1>14 DEF Commit
  <2> QED
    BY <2>2, <2>3, <2>4 DEF CursorInv, WindowsFit, Fits, UpTo
<1> QED
  BY <1>1, <1>2, <1>3, <1>4, <1>5, <1>6, <1>7, <1>8, <1>9, <1>10, <1>11, <1>12, <1>13,
     <1>14 DEF Work

\* No turn is passed over: a rollback and a commit that cross leave the cursor
\* of a session behind everything that nobody extracted.
THEOREM CursorIsTrue == Spec => []CursorCoversSeen
<1>1. Init => CursorInv
  BY DEF Init, CursorInv, CursorKept, WindowsFit, UpTo, CallType
<1>2. TypeOK /\ CursorInv /\ [Next]_vars => CursorInv'
  <2> SUFFICES ASSUME TypeOK, CursorInv, [Next]_vars PROVE CursorInv'
    OBVIOUS
  <2>1. CASE \E c \in Calls : RemoveKey(c)
    <3>1. CursorFrame
      BY <2>1 DEF RemoveKey, CursorFrame, TypeOK, CallType
    <3> QED
      BY <3>1, CursorFramed
  <2>2. CASE \E s \in Sessions : Cool(s)
    <3>1. CursorFrame
      BY <2>2 DEF Cool, CursorFrame
    <3> QED
      BY <3>1, CursorFramed
  <2>3. CASE UNCHANGED vars
    <3>1. CursorFrame
      BY <2>3 DEF vars, CursorFrame
    <3> QED
      BY <3>1, CursorFramed
  <2> QED
    BY <2>1, <2>2, <2>3, StepKeepsCursor, WorkKeepsCursor DEF Next, Done
<1>3. CursorInv => CursorCoversSeen
  BY DEF CursorInv, CursorKept, CursorCoversSeen
<1> QED
  BY <1>1, <1>2, <1>3, MemoryTypeCorrect, PTL DEF Spec

-----------------------------------------------------------------------------
(* The worker that looks at the queue *)

\* What is queued is in a run, and a run that is listed has a worker.
RunHasWorker ==
    /\ pending \cup delayed # {} => listed
    /\ listed => \E w \in Workers : at[w] \notin {"free", "forget"}

\* Without a race there is one worker, and it waits for the workspace's Notify,
\* with a permit in it if something is queued to be run now.
OneWorker ==
    \A v, w \in Workers : at[v] # "free" /\ at[w] # "free" => v = w

WaitsForRing ==
    \A w \in Workers :
      at[w] = "wait" => /\ ear[w] = notifier /\ notifier # None
                        /\ pending = {} \/ ear[w] \in permit

WakeInv == RunHasWorker /\ (raced \/ (OneWorker /\ WaitsForRing))

\* The callers leave the workers be, but may notify them.
LEMMA CallerKeepsWake ==
    ASSUME TypeOK, WakeInv, UNCHANGED <<at, ear, notifier, raced, listed>>,
           permit \subseteq permit',
           pending' \cup delayed' # {} => listed,
           pending' \subseteq pending \/ Ring
    PROVE  WakeInv'
BY DEF WakeInv, RunHasWorker, OneWorker, WaitsForRing, Ring

\* A worker that is spawned beside another one is the race.
LEMMA SpawnKeepsWake ==
    ASSUME TypeOK, WakeInv, Spawn, listed'
    PROVE  WakeInv'
<1>1. PICK v \in Workers :
        /\ at[v] = "free"
        /\ at' = [at EXCEPT ![v] = "look"]
        /\ raced' = (raced \/ \E u \in Workers : at[u] # "free")
  BY SpawnedWorker
<1>2. \A u \in Workers : at'[u] = IF u = v THEN "look" ELSE at[u]
  BY <1>1 DEF TypeOK, WorkerType
<1>3. RunHasWorker'
  BY <1>2 DEF RunHasWorker
<1>4. CASE \E u \in Workers : at[u] # "free"
  BY <1>1, <1>3, <1>4 DEF WakeInv
<1>5. CASE \A u \in Workers : at[u] = "free"
  BY <1>2, <1>3, <1>5 DEF WakeInv, OneWorker, WaitsForRing
<1> QED
  BY <1>4, <1>5

\* What one worker does is its own affair as long as it keeps its place.
LEMMA WorkerKeepsWake ==
    ASSUME TypeOK, WakeInv, NEW w \in Workers, at[w] # "free",
           NEW where, where \notin {"free", "forget", "wait"}, Move(w, where),
           UNCHANGED raced, pending' \cup delayed' # {} => listed'
    PROVE  WakeInv'
<1>1. \A v \in Workers : at'[v] = IF v = w THEN where ELSE at[v]
  BY DEF TypeOK, WorkerType
<1>2. RunHasWorker'
  BY <1>1 DEF RunHasWorker
<1>3. CASE raced
  BY <1>2, <1>3 DEF WakeInv
<1>4. CASE ~raced
  <2>1. OneWorker'
    BY <1>1, <1>4 DEF WakeInv, OneWorker
  <2>2. \A v \in Workers : at'[v] # "wait"
    BY <1>1, <1>4 DEF WakeInv, OneWorker
  <2> QED
    BY <1>2, <2>1, <2>2 DEF WakeInv, WaitsForRing
<1> QED
  BY <1>3, <1>4

\* A worker leaves when the run is not listed or another worker sees to it.
LEMMA LeaveKeepsWake ==
    ASSUME TypeOK, WakeInv, NEW w \in Workers, Leave(w),
           at[w] # "free", at[w] = "forget" \/ ~listed,
           UNCHANGED <<listed, pending, delayed>>
    PROVE  WakeInv'
<1>1. /\ at' = [at EXCEPT ![w] = "free"]
      /\ raced' = (raced /\ \E v \in Workers \ {w} : at[v] # "free")
  BY DEF Leave
<1>2. \A v \in Workers : at'[v] = IF v = w THEN "free" ELSE at[v]
  BY <1>1 DEF TypeOK, WorkerType
<1>3. RunHasWorker'
  <2>1. ASSUME listed
        PROVE  \E v \in Workers : at'[v] \notin {"free", "forget"}
    <3>1. PICK v \in Workers : at[v] \notin {"free", "forget"}
      BY <2>1 DEF WakeInv, RunHasWorker
    <3> QED
      BY <1>2, <2>1, <3>1
  <2> QED
    BY <2>1 DEF WakeInv, RunHasWorker
<1>4. CASE \E v \in Workers \ {w} : at[v] # "free"
  <2>1. CASE raced
    BY <1>1, <1>3, <1>4, <2>1 DEF WakeInv
  <2>2. CASE ~raced
    BY <1>4, <2>2 DEF WakeInv, OneWorker
  <2> QED
    BY <2>1, <2>2
<1>5. CASE \A v \in Workers \ {w} : at[v] = "free"
  BY <1>2, <1>3, <1>5 DEF WakeInv, OneWorker, WaitsForRing
<1> QED
  BY <1>4, <1>5

LEMMA StepKeepsWake ==
    ASSUME TypeOK, WakeInv, NEW c \in Calls, Step(c)
    PROVE  WakeInv'
<1> USE DEF TypeOK, QueueType, WakeType, WorkerType, CallType
<1>1. CASE Withdraw(c)
  BY <1>1, CallerKeepsWake DEF Withdraw, Ring, WakeInv, RunHasWorker
<1>2. CASE c \in Turns /\ StartTurn(c)
  BY <1>2, CallerKeepsWake DEF StartTurn, WakeInv, RunHasWorker
<1>3. CASE c \in Turns /\ EndTurn(c)
  BY <1>3, CallerKeepsWake DEF EndTurn, WakeInv, RunHasWorker
<1>4. CASE c \in Turns /\ FindWritten(c)
  BY <1>4, CallerKeepsWake DEF FindWritten, WakeInv, RunHasWorker
<1>5. CASE c \in Turns /\ MarkConsumed(c)
  BY <1>5, CallerKeepsWake DEF MarkConsumed, WakeInv, RunHasWorker
<1>6. CASE c \in Turns /\ NoteEligible(c)
  BY <1>6, CallerKeepsWake DEF NoteEligible, WakeInv, RunHasWorker
<1>7. CASE c \in Turns /\ InsertKey(c)
  BY <1>7, CallerKeepsWake DEF InsertKey, WakeInv, RunHasWorker
<1>8. CASE c \in Turns /\ FindNoRun(c)
  BY <1>8, CallerKeepsWake DEF FindNoRun, WakeInv, RunHasWorker
<1>9. CASE c \in Rollbacks /\ Rollback(c)
  BY <1>9, CallerKeepsWake DEF Rollback, WakeInv, RunHasWorker
<1>10. CASE c \in Turns /\ ListInRun(c)
  <2>1. CASE running
    BY <1>10, <2>1, CallerKeepsWake DEF ListInRun, Ring
  <2>2. CASE ~running
    BY <1>10, <2>2, SpawnKeepsWake DEF ListInRun
  <2> QED
    BY <2>1, <2>2
<1>11. CASE c \in Turns /\ InsertRun(c)
  BY <1>11, SpawnKeepsWake DEF InsertRun
<1> QED
  BY <1>1, <1>2, <1>3, <1>4, <1>5, <1>6, <1>7, <1>8, <1>9, <1>10, <1>11 DEF Step

LEMMA WorkKeepsWake ==
    ASSUME TypeOK, WakeInv, NEW w \in Workers, Work(w)
    PROVE  WakeInv'
<1> USE DEF TypeOK, QueueType, WakeType, WorkerType
<1>1. CASE Pick(w)
  BY <1>1, WorkerKeepsWake DEF Pick, Ready, WakeInv, RunHasWorker
<1>2. CASE Wake(w)
  BY <1>2, WorkerKeepsWake DEF Wake, WakeInv, RunHasWorker
<1>3. CASE Oversleep(w)
  BY <1>3, WorkerKeepsWake DEF Oversleep, WakeInv, RunHasWorker
<1>4. CASE Stop(w)
  BY <1>4, WorkerKeepsWake DEF Stop, Listen, WakeInv, RunHasWorker
<1>5. CASE BeginCycle(w)
  BY <1>5, WorkerKeepsWake DEF BeginCycle, WakeInv, RunHasWorker
<1>6. CASE Commit(w)
  BY <1>6, WorkerKeepsWake DEF Commit, WakeInv, RunHasWorker
<1>7. CASE CycleFails(w)
  BY <1>7, WorkerKeepsWake DEF CycleFails, WakeInv, RunHasWorker
<1>8. CASE Heed(w)
  BY <1>8, WorkerKeepsWake DEF Heed, FinishRun, WakeInv, RunHasWorker
<1>9. CASE Ask(w)
  BY <1>9, WorkerKeepsWake DEF Ask, WakeInv, RunHasWorker
<1>10. CASE Finish(w)
  BY <1>10, WorkerKeepsWake DEF Finish, FinishRun, WakeInv, RunHasWorker
<1>11. CASE Wait(w)
  <2>1. /\ at[w] = "look" /\ listed /\ pending = {}
        /\ at' = [at EXCEPT ![w] = "wait"]
        /\ ear' = [ear EXCEPT ![w] = notifier']
        /\ notifier' \in Notifies
        /\ UNCHANGED <<pending, delayed, listed, raced>>
    BY <1>11, HeardType DEF Wait, Listen
  <2>2. RunHasWorker'
    BY <2>1 DEF WakeInv, RunHasWorker
  <2>3. ~raced => OneWorker' /\ WaitsForRing'
    BY <2>1, MemoryAssumption DEF WakeInv, OneWorker, WaitsForRing
  <2> QED
    BY <2>1, <2>2, <2>3 DEF WakeInv
<1>12. CASE StopUnlisted(w)
  BY <1>12, LeaveKeepsWake DEF StopUnlisted
<1>13. CASE RemoveNotifier(w)
  BY <1>13, LeaveKeepsWake DEF RemoveNotifier
<1>14. CASE RemoveRun(w)
  <2>1. /\ at[w] = "remove" /\ at' = [at EXCEPT ![w] = "forget"]
        /\ ~listed' /\ pending' = {} /\ delayed' = {} /\ UNCHANGED raced
    BY <1>14 DEF RemoveRun
  <2> QED
    BY <2>1 DEF WakeInv, RunHasWorker, OneWorker, WaitsForRing
<1> QED
  BY <1>1, <1>2, <1>3, <1>4, <1>5, <1>6, <1>7, <1>8, <1>9, <1>10, <1>11, <1>12, <1>13,
     <1>14 DEF Work

LEMMA WakeIsKept == Spec => []WakeInv
<1>1. Init => WakeInv
  BY DEF Init, WakeInv, RunHasWorker, OneWorker, WaitsForRing
<1>2. TypeOK /\ WakeInv /\ [Next]_vars => WakeInv'
  <2> SUFFICES ASSUME TypeOK, WakeInv, [Next]_vars PROVE WakeInv'
    OBVIOUS
  <2>1. CASE \E c \in Calls : RemoveKey(c)
    BY <2>1, CallerKeepsWake DEF RemoveKey, WakeInv, RunHasWorker
  <2>2. CASE \E s \in Sessions : Cool(s)
    BY <2>2, CallerKeepsWake DEF Cool, WakeInv, RunHasWorker
  <2>3. CASE UNCHANGED vars
    BY <2>3, CallerKeepsWake DEF vars, WakeInv, RunHasWorker
  <2> QED
    BY <2>1, <2>2, <2>3, StepKeepsWake, WorkKeepsWake DEF Next, Done
<1> QED
  BY <1>1, <1>2, MemoryTypeCorrect, PTL DEF Spec

\* No wakeup is lost and no worker leaves a queue behind, as long as no two
\* workers meet.
THEOREM MemoryWakes == Spec => []QueuedHasWorker
<1>1. TypeOK /\ WakeInv => QueuedHasWorker
  BY DEF WakeInv, RunHasWorker, WaitsForRing, QueuedHasWorker, Awake, TypeOK, WorkerType
<1> QED
  BY <1>1, MemoryTypeCorrect, WakeIsKept, PTL

-----------------------------------------------------------------------------
(* The active session and its token *)

TokenOfActive ==
    /\ active # None => session[token] = active
    /\ ~listed => active = None

\* Without a race the session that is run is the active one, and its token is
\* the one that cancels it; nothing is queued in a run that is about to go.
RunIsActive ==
    \A w \in Workers : session[w] # None => active = session[w] /\ token = w

NothingToRemove ==
    (\E w \in Workers : at[w] = "remove") => pending \cup delayed = {} /\ ~running

TokenInv == TokenOfActive /\ (raced \/ (RunIsActive /\ NothingToRemove))

TokenFrame ==
    /\ UNCHANGED <<active, token, listed, session, raced, running>>
    /\ \A w \in Workers : at'[w] = "remove" => at[w] = "remove"
    /\ pending' \cup delayed' \subseteq pending \cup delayed

LEMMA TokenFramed ==
    ASSUME TokenInv, TokenFrame
    PROVE  TokenInv'
<1>1. pending \cup delayed = {} => pending' \cup delayed' = {}
  BY DEF TokenFrame
<1> QED
  BY <1>1 DEF TokenInv, TokenOfActive, RunIsActive, NothingToRemove, TokenFrame

\* A worker that is spawned alone finds no other that could be about to stop.
LEMMA SpawnKeepsToken ==
    ASSUME TypeOK, WakeInv, TokenInv, Spawn, listed', UNCHANGED session,
           active' = None \/ UNCHANGED <<active, token>>
    PROVE  TokenInv'
<1>1. PICK v \in Workers :
        /\ at[v] = "free"
        /\ at' = [at EXCEPT ![v] = "look"]
        /\ raced' = (raced \/ \E u \in Workers : at[u] # "free")
  BY SpawnedWorker
<1>2. TokenOfActive'
  BY DEF TokenInv, TokenOfActive
<1>3. CASE raced'
  BY <1>2, <1>3 DEF TokenInv
<1>4. CASE ~raced'
  <2>1. \A u \in Workers : at[u] = "free"
    BY <1>1, <1>4
  <2>2. \A u \in Workers : session[u] = None /\ at'[u] # "remove"
    BY <1>1, <2>1 DEF TypeOK, WorkerType
  <2> QED
    BY <1>2, <2>2 DEF TokenInv, RunIsActive, NothingToRemove
<1> QED
  BY <1>3, <1>4

\* The session of a run that ends is released, if it was the active one.
LEMMA FinishKeepsToken ==
    ASSUME TypeOK, WakeInv, TokenInv, NEW w \in Workers, at[w] \in {"after", "ask"},
           NEW what, FinishRun(w, what)
    PROVE  TokenInv'
<1>1. /\ session' = [session EXCEPT ![w] = None] /\ at' = [at EXCEPT ![w] = "look"]
      /\ UNCHANGED <<listed, raced, running>>
  BY DEF FinishRun
<1>2. TokenOfActive'
  <2>1. CASE listed
    <3>1. Release(session[w])
      BY <2>1 DEF FinishRun
    <3>2. CASE active = session[w]
      BY <1>1, <2>1, <3>1, <3>2 DEF Release, TokenOfActive
    <3>3. CASE active # session[w]
      <4>1. active' = active /\ token' = token
        BY <3>1, <3>3 DEF Release
      <4>2. active # None => token \in Workers /\ token # w
        BY <3>3 DEF TokenInv, TokenOfActive, TypeOK, QueueType
      <4>3. active # None => session'[token] = session[token]
        BY <1>1, <4>2 DEF TypeOK, WorkerType
      <4> QED
        BY <1>1, <2>1, <4>1, <4>3 DEF TokenInv, TokenOfActive
    <3> QED
      BY <3>2, <3>3
  <2>2. CASE ~listed
    BY <1>1, <2>2 DEF FinishRun, TokenInv, TokenOfActive
  <2> QED
    BY <2>1, <2>2
<1>3. CASE raced
  BY <1>1, <1>2, <1>3 DEF TokenInv
<1>4. CASE ~raced
  <2>1. \A v \in Workers : v # w => at[v] = "free"
    BY <1>4 DEF WakeInv, OneWorker
  <2>2. \A v \in Workers : session'[v] = None /\ at'[v] # "remove"
    BY <1>1, <2>1 DEF TypeOK, WorkerType
  <2> QED
    BY <1>2, <2>2 DEF TokenInv, RunIsActive, NothingToRemove
<1> QED
  BY <1>3, <1>4

\* The last worker to leave was running nothing.
LEMMA LeaveKeepsToken ==
    ASSUME TypeOK, WakeInv, TokenInv, NEW w \in Workers, at[w] \in {"look", "forget"},
           Leave(w), UNCHANGED <<active, token, listed, pending, delayed, running>>
    PROVE  TokenInv'
<1>1. /\ at' = [at EXCEPT ![w] = "free"] /\ UNCHANGED session
      /\ raced' = (raced /\ \E v \in Workers \ {w} : at[v] # "free")
  BY DEF Leave
<1>2. TokenOfActive'
  BY <1>1 DEF TokenInv, TokenOfActive
<1>3. CASE raced'
  BY <1>2, <1>3 DEF TokenInv
<1>4. CASE ~raced'
  <2>1. \A v \in Workers \ {w} : at[v] = "free"
    BY <1>1, <1>4 DEF WakeInv, OneWorker
  <2>2. \A v \in Workers : session[v] = None /\ at'[v] # "remove"
    BY <1>1, <2>1 DEF TypeOK, WorkerType
  <2> QED
    BY <1>1, <1>2, <2>2 DEF TokenInv, RunIsActive, NothingToRemove
<1> QED
  BY <1>3, <1>4

LEMMA StepKeepsToken ==
    ASSUME TypeOK, WakeInv, TokenInv, NEW c \in Calls, Step(c)
    PROVE  TokenInv'
<1> USE DEF TypeOK, QueueType, WorkerType, CallType
<1>1. CASE Withdraw(c)
  BY <1>1, TokenFramed DEF Withdraw, TokenFrame
<1>2. CASE c \in Turns /\ StartTurn(c)
  BY <1>2, TokenFramed DEF StartTurn, TokenFrame
<1>3. CASE c \in Turns /\ EndTurn(c)
  BY <1>3, TokenFramed DEF EndTurn, TokenFrame
<1>4. CASE c \in Turns /\ FindWritten(c)
  BY <1>4, TokenFramed DEF FindWritten, TokenFrame
<1>5. CASE c \in Turns /\ MarkConsumed(c)
  BY <1>5, TokenFramed DEF MarkConsumed, TokenFrame
<1>6. CASE c \in Turns /\ NoteEligible(c)
  BY <1>6, TokenFramed DEF NoteEligible, TokenFrame
<1>7. CASE c \in Turns /\ InsertKey(c)
  BY <1>7, TokenFramed DEF InsertKey, TokenFrame
<1>8. CASE c \in Turns /\ ListInRun(c)
  <2>1. CASE running
    <3>1. UNCHANGED <<active, token, listed, session, raced, running, at>>
      BY <1>8, <2>1 DEF ListInRun
    <3>2. \A w \in Workers : ~raced => at[w] # "remove"
      BY <2>1 DEF TokenInv, NothingToRemove
    <3> QED
      BY <3>1, <3>2 DEF TokenInv, TokenOfActive, RunIsActive, NothingToRemove
  <2>2. CASE ~running
    BY <1>8, <2>2, SpawnKeepsToken DEF ListInRun
  <2> QED
    BY <2>1, <2>2
<1>9. CASE c \in Turns /\ FindNoRun(c)
  BY <1>9, TokenFramed DEF FindNoRun, TokenFrame
<1>10. CASE c \in Turns /\ InsertRun(c)
  BY <1>10, SpawnKeepsToken DEF InsertRun
<1>11. CASE c \in Rollbacks /\ Rollback(c)
  BY <1>11, TokenFramed DEF Rollback, TokenFrame
<1> QED
  BY <1>1, <1>2, <1>3, <1>4, <1>5, <1>6, <1>7, <1>8, <1>9, <1>10, <1>11 DEF Step

LEMMA WorkKeepsToken ==
    ASSUME TypeOK, WakeInv, TokenInv, NEW w \in Workers, Work(w)
    PROVE  TokenInv'
<1> USE DEF TypeOK, QueueType, WorkerType
<1>1. CASE Pick(w)
  <2>1. PICK s \in Sessions :
          /\ active' = s /\ token' = w /\ session' = [session EXCEPT ![w] = s]
    BY <1>1 DEF Pick, Ready
  <2>2. /\ at[w] = "look" /\ listed /\ at' = [at EXCEPT ![w] = "picked"]
        /\ UNCHANGED <<listed, raced>>
    BY <1>1 DEF Pick
  <2>3. TokenOfActive'
    BY <2>1, <2>2 DEF TokenOfActive
  <2>4. CASE raced
    BY <2>2, <2>3, <2>4 DEF TokenInv
  <2>5. CASE ~raced
    <3>1. \A v \in Workers : v # w => at[v] = "free"
      BY <2>2, <2>5 DEF WakeInv, OneWorker
    <3>2. \A v \in Workers : v # w => session[v] = None
      BY <3>1
    <3> QED
      BY <2>1, <2>2, <2>3, <3>1, <3>2 DEF TokenInv, RunIsActive, NothingToRemove
  <2> QED
    BY <2>4, <2>5
<1>2. CASE Wait(w)
  BY <1>2, TokenFramed DEF Wait, TokenFrame
<1>3. CASE Wake(w)
  BY <1>3, TokenFramed DEF Wake, TokenFrame
<1>4. CASE Oversleep(w)
  BY <1>4, TokenFramed DEF Oversleep, TokenFrame
<1>5. CASE Stop(w)
  <2>1. /\ active' = None /\ UNCHANGED <<session, raced>> /\ ~running'
        /\ pending' \cup delayed' = {}
        /\ at[w] \in {"look", "remove"}
    BY <1>5 DEF Stop
  <2>2. TokenOfActive'
    BY <2>1 DEF TokenOfActive
  <2>3. CASE raced
    BY <2>1, <2>2, <2>3 DEF TokenInv
  <2>4. CASE ~raced
    <3>1. \A v \in Workers : v # w => at[v] = "free"
      BY <2>1, <2>4 DEF WakeInv, OneWorker
    <3>2. \A v \in Workers : session[v] = None
      BY <2>1, <3>1
    <3> QED
      BY <2>1, <2>2, <3>2 DEF TokenInv, RunIsActive, NothingToRemove
  <2> QED
    BY <2>3, <2>4
<1>6. CASE StopUnlisted(w)
  BY <1>6, LeaveKeepsToken DEF StopUnlisted
<1>7. CASE RemoveRun(w)
  <2>1. /\ active' = None /\ UNCHANGED <<session, raced>> /\ ~running'
        /\ pending' \cup delayed' = {}
        /\ at[w] \in {"look", "remove"}
    BY <1>7 DEF RemoveRun
  <2>2. TokenOfActive'
    BY <2>1 DEF TokenOfActive
  <2>3. CASE raced
    BY <2>1, <2>2, <2>3 DEF TokenInv
  <2>4. CASE ~raced
    <3>1. \A v \in Workers : v # w => at[v] = "free"
      BY <2>1, <2>4 DEF WakeInv, OneWorker
    <3>2. \A v \in Workers : session[v] = None
      BY <2>1, <3>1
    <3> QED
      BY <2>1, <2>2, <3>2 DEF TokenInv, RunIsActive, NothingToRemove
  <2> QED
    BY <2>3, <2>4
<1>8. CASE RemoveNotifier(w)
  BY <1>8, LeaveKeepsToken DEF RemoveNotifier
<1>9. CASE BeginCycle(w)
  BY <1>9, TokenFramed DEF BeginCycle, TokenFrame
<1>10. CASE Commit(w)
  BY <1>10, TokenFramed DEF Commit, TokenFrame
<1>11. CASE CycleFails(w)
  BY <1>11, TokenFramed DEF CycleFails, TokenFrame
<1>12. CASE Heed(w)
  BY <1>12, FinishKeepsToken DEF Heed
<1>13. CASE Ask(w)
  BY <1>13, TokenFramed DEF Ask, TokenFrame
<1>14. CASE Finish(w)
  BY <1>14, FinishKeepsToken DEF Finish
<1> QED
  BY <1>1, <1>2, <1>3, <1>4, <1>5, <1>6, <1>7, <1>8, <1>9, <1>10, <1>11, <1>12, <1>13,
     <1>14 DEF Work

-----------------------------------------------------------------------------
(* What a turn that starts has called off *)

\* A turn that has started has called its session off, and has taken its key
\* unless the late call of an earlier turn has put it back.
StartedOff ==
    \A t \in Turns :
      Started(SessionOf[t], t) =>
        /\ SessionOf[t] \in interrupted \cup slipped
        /\ SessionOf[t] \in keys => SessionOf[t] \in slipped

OffFrame ==
    /\ keys' = keys /\ interrupted \subseteq interrupted' /\ slipped \subseteq slipped'
    /\ \A t \in Turns : stage'[t] \in {"withdraw", "ready", "running"} =>
         stage[t] \in {"withdraw", "ready", "running"}

LEMMA OffFramed ==
    ASSUME StartedOff, OffFrame
    PROVE  StartedOff'
BY DEF StartedOff, OffFrame, Started

LEMMA RemoveKeyKeepsOff ==
    ASSUME TypeOK, StartedOff, NEW c \in Calls, RemoveKey(c)
    PROVE  StartedOff'
<1>1. /\ keys' = keys \ {SessionOf[c]} /\ interrupted' = interrupted \cup {SessionOf[c]}
      /\ slipped' = slipped
      /\ \A t \in Turns : t # c => stage'[t] = stage[t]
  BY DEF RemoveKey, TypeOK, CallType
<1> QED
  BY <1>1 DEF StartedOff, Started

LEMMA InsertKeyKeepsOff ==
    ASSUME TypeOK, StartedOff, NEW c \in Turns, InsertKey(c)
    PROVE  StartedOff'
<1> DEFINE s == SessionOf[c]
           newer == \E u \in Turns : Started(s, u)
<1>1. /\ keys' = keys \cup {s} /\ interrupted' = interrupted \ {s}
      /\ slipped' = IF newer THEN slipped \cup {s} ELSE slipped \ {s}
      /\ stage'[c] = "keyed"
      /\ \A t \in Turns : t # c => stage'[t] = stage[t]
  BY DEF InsertKey, TypeOK, CallType
<1> SUFFICES ASSUME NEW t \in Turns, Started(SessionOf[t], t)'
             PROVE  /\ SessionOf[t] \in interrupted' \cup slipped'
                    /\ SessionOf[t] \in keys' => SessionOf[t] \in slipped'
  BY DEF StartedOff, Started
<1>2. Started(SessionOf[t], t)
  BY <1>1 DEF Started
<1>3. CASE SessionOf[t] = s
  BY <1>1, <1>2, <1>3
<1>4. CASE SessionOf[t] # s
  BY <1>1, <1>2, <1>4 DEF StartedOff
<1> QED
  BY <1>3, <1>4

LEMMA NextKeepsOff ==
    ASSUME TypeOK, StartedOff, [Next]_vars
    PROVE  StartedOff'
<1> USE DEF TypeOK, CallType
<1>1. ASSUME NEW c \in Calls, Step(c)
      PROVE  StartedOff'
  <2>1. CASE Withdraw(c)
    BY <2>1, OffFramed DEF Withdraw, OffFrame
  <2>2. CASE c \in Turns /\ StartTurn(c)
    BY <2>2, OffFramed DEF StartTurn, OffFrame
  <2>3. CASE c \in Turns /\ EndTurn(c)
    BY <2>3, OffFramed DEF EndTurn, OffFrame
  <2>4. CASE c \in Turns /\ FindWritten(c)
    BY <2>4, OffFramed DEF FindWritten, OffFrame
  <2>5. CASE c \in Turns /\ MarkConsumed(c)
    BY <2>5, OffFramed DEF MarkConsumed, OffFrame
  <2>6. CASE c \in Turns /\ NoteEligible(c)
    BY <2>6, OffFramed DEF NoteEligible, OffFrame
  <2>7. CASE c \in Turns /\ InsertKey(c)
    BY <2>7, InsertKeyKeepsOff
  <2>8. CASE c \in Turns /\ ListInRun(c)
    BY <2>8, OffFramed DEF ListInRun, OffFrame
  <2>9. CASE c \in Turns /\ FindNoRun(c)
    BY <2>9, OffFramed DEF FindNoRun, OffFrame
  <2>10. CASE c \in Turns /\ InsertRun(c)
    BY <2>10, OffFramed DEF InsertRun, OffFrame
  <2>11. CASE c \in Rollbacks /\ Rollback(c)
    BY <2>11, OffFramed DEF Rollback, OffFrame
  <2> QED
    BY <1>1, <2>1, <2>2, <2>3, <2>4, <2>5, <2>6, <2>7, <2>8, <2>9, <2>10, <2>11 DEF Step
<1>2. ASSUME NEW w \in Workers, Work(w)
      PROVE  StartedOff'
  <2>1. /\ keys' = keys /\ interrupted' = interrupted /\ stage' = stage
        /\ slipped \subseteq slipped'
    BY <1>2 DEF Work, Pick, Wait, Wake, Oversleep, Stop, StopUnlisted, RemoveRun,
                RemoveNotifier, BeginCycle, Commit, CycleFails, Heed, Ask, Finish, FinishRun
  <2> QED
    BY <2>1, OffFramed DEF OffFrame
<1>3. CASE \E s \in Sessions : Cool(s)
  BY <1>3, OffFramed DEF Cool, OffFrame
<1>4. CASE UNCHANGED vars
  BY <1>4, OffFramed DEF vars, OffFrame
<1> QED
  BY <1>1, <1>2, <1>3, <1>4, RemoveKeyKeepsOff DEF Next, Done

-----------------------------------------------------------------------------
(* The key by which a queued session can be called off *)

\* A worker runs the session and has not been told to stop.
Live(s) == \E w \in Workers : session[w] = s /\ w \notin cancelled

Queued(s) == s \in pending \cup delayed \/ Live(s)

\* Whoever calls the session off will find it, or is about to.
Reachable(s) == s \in keys \/ Withdrawing(s) \/ s \in slipped \/ raced

KeyInv == \A s \in Sessions : Queued(s) => Reachable(s)

KeyFrame ==
    /\ pending' \cup delayed' \subseteq pending \cup delayed
    /\ \A s \in Sessions : Live(s)' => Live(s)
    /\ keys \subseteq keys' /\ slipped \subseteq slipped' /\ raced' = raced
    /\ \A c \in Calls : stage[c] = "withdraw" => stage'[c] = "withdraw"

LEMMA KeyFramed ==
    ASSUME KeyInv, KeyFrame
    PROVE  KeyInv'
BY DEF KeyInv, KeyFrame, Queued, Reachable, Withdrawing

LEMMA RemoveKeyKeepsKey ==
    ASSUME TypeOK, KeyInv, NEW c \in Calls, RemoveKey(c)
    PROVE  KeyInv'
<1> DEFINE s == SessionOf[c]
<1>1. /\ keys' = keys \ {s} /\ UNCHANGED <<pending, delayed, session, cancelled, slipped, raced>>
      /\ stage[c] = "new"
      /\ stage'[c] = IF s \in keys THEN "withdraw" ELSE "ready"
      /\ \A d \in Calls : d # c => stage'[d] = stage[d]
  BY DEF RemoveKey, TypeOK, CallType
<1>2. \A q \in Sessions : Withdrawing(q) => Withdrawing(q)'
  BY <1>1 DEF Withdrawing
<1>3. s \in keys => Withdrawing(s)'
  BY <1>1 DEF Withdrawing
<1>4. \A q \in Sessions : Live(q)' <=> Live(q)
  BY <1>1 DEF Live
<1> QED
  BY <1>1, <1>2, <1>3, <1>4 DEF KeyInv, Queued, Reachable

\* Without a race the session is not run, once it has been called off.
LEMMA WithdrawKeepsKey ==
    ASSUME TypeOK, TokenInv, KeyInv, NEW c \in Calls, Withdraw(c)
    PROVE  KeyInv'
<1> DEFINE s == SessionOf[c]
<1>1. /\ pending' = pending \ {s} /\ delayed' = delayed \ {s}
      /\ cancelled' = IF active = s THEN cancelled \cup {token} ELSE cancelled
      /\ UNCHANGED <<keys, session, slipped, raced>>
      /\ \A d \in Calls : d # c => stage'[d] = stage[d]
  BY DEF Withdraw, TypeOK, CallType
<1>2. s \in Sessions /\ s # None
  BY SessionOfCall, NoneIsNoSession
<1>3. \A q \in Sessions : Live(q)' => Live(q)
  BY <1>1 DEF Live
<1>4. ~raced => ~Live(s)'
  BY <1>1, <1>2 DEF TokenInv, RunIsActive, Live
<1>5. \A q \in Sessions : q # s /\ Withdrawing(q) => Withdrawing(q)'
  BY <1>1 DEF Withdrawing
<1> QED
  BY <1>1, <1>3, <1>4, <1>5 DEF KeyInv, Queued, Reachable

LEMMA InsertKeyKeepsKey ==
    ASSUME TypeOK, KeyInv, NEW c \in Turns, InsertKey(c)
    PROVE  KeyInv'
<1> DEFINE s == SessionOf[c]
<1>1. /\ keys' = keys \cup {s} /\ slipped \ {s} \subseteq slipped'
      /\ UNCHANGED <<pending, delayed, session, cancelled, raced>>
      /\ \A d \in Calls : stage[d] = "withdraw" => stage'[d] = "withdraw"
  BY DEF InsertKey, TypeOK, CallType
<1>2. \A q \in Sessions : (Withdrawing(q) => Withdrawing(q)') /\ (Live(q)' => Live(q))
  BY <1>1 DEF Withdrawing, Live
<1> QED
  BY <1>1, <1>2 DEF KeyInv, Queued, Reachable

\* A session that is put in the queue has its key, or has slipped.
LEMMA ListKeepsKey ==
    ASSUME TypeOK, KeyInv, NEW c \in Turns, ListInRun(c) \/ InsertRun(c)
    PROVE  KeyInv'
<1> DEFINE s == SessionOf[c]
<1>1. /\ pending' \cup delayed' \subseteq pending \cup delayed \cup {s}
      /\ slipped \subseteq slipped' /\ (CalledOff(s) => s \in slipped')
      /\ UNCHANGED <<keys, session, cancelled>>
      /\ \A d \in Calls : stage[d] = "withdraw" => stage'[d] = "withdraw"
      /\ raced' = raced \/ Spawn
  BY DEF ListInRun, InsertRun, TypeOK, CallType
<1>2. raced => raced'
  BY <1>1, SpawnedWorker
<1>3. \A q \in Sessions : (Withdrawing(q) => Withdrawing(q)') /\ (Live(q)' => Live(q))
  BY <1>1 DEF Withdrawing, Live
<1>4. Reachable(s)'
  BY <1>1, <1>3, SessionOfCall DEF CalledOff, Reachable
<1>5. \A q \in Sessions : Reachable(q) => Reachable(q)'
  BY <1>1, <1>2, <1>3 DEF Reachable
<1>6. \A q \in Sessions : Queued(q)' => Queued(q) \/ q = s
  BY <1>1, <1>3 DEF Queued
<1> QED
  BY <1>4, <1>5, <1>6 DEF KeyInv

LEMMA FinishKeepsKey ==
    ASSUME TypeOK, KeyInv, NEW w \in Workers, NEW s \in Sessions, session[w] = s, NEW what,
           FinishRun(w, what)
    PROVE  KeyInv'
<1>1. /\ slipped \subseteq slipped' /\ UNCHANGED <<keys, cancelled, stage, raced>>
      /\ session' = [session EXCEPT ![w] = None]
  BY DEF FinishRun
<1>2. \A q \in Sessions : Live(q)' => Live(q)
  BY <1>1, NoneIsNoSession DEF Live, TypeOK, WorkerType
<1>3. \A q \in Sessions : Withdrawing(q)' <=> Withdrawing(q)
  BY <1>1 DEF Withdrawing
<1>4. CASE listed /\ what \in {"now", "later"}
  <2>1. pending' \cup delayed' \subseteq pending \cup delayed \cup {s}
    BY <1>4 DEF FinishRun
  <2>2. CalledOff(s) => s \in slipped'
    BY <1>4 DEF FinishRun
  <2>3. Reachable(s)'
    BY <1>1, <1>3, <2>2 DEF CalledOff, Reachable
  <2> QED
    BY <1>1, <1>2, <1>3, <2>1, <2>3 DEF KeyInv, Queued, Reachable
<1>5. CASE ~(listed /\ what \in {"now", "later"})
  <2>1. pending' \cup delayed' \subseteq pending \cup delayed
    BY <1>5 DEF FinishRun
  <2> QED
    BY <1>1, <1>2, <2>1, KeyFramed DEF KeyFrame
<1> QED
  BY <1>4, <1>5

LEMMA LeaveKeepsKey ==
    ASSUME TypeOK, WakeInv', KeyInv, NEW w \in Workers, at[w] \in {"look", "forget"}, Leave(w),
           UNCHANGED <<listed, pending, delayed, keys, stage, slipped>>
    PROVE  KeyInv'
<1>1. /\ at' = [at EXCEPT ![w] = "free"] /\ session' = session
      /\ cancelled' = cancelled \ {w}
  BY DEF Leave
<1>2. \A q \in Sessions : Live(q)' => Live(q)
  BY <1>1, NoneIsNoSession DEF Live, TypeOK, WorkerType
<1>3. CASE raced' = raced
  BY <1>1, <1>2, <1>3, KeyFramed DEF KeyFrame
<1>4. CASE raced' # raced
  <2>1. \A v \in Workers : at'[v] = "free" /\ session'[v] = None
    <3>1. raced' = (raced /\ \E v \in Workers \ {w} : at[v] # "free")
      BY DEF Leave
    <3>2. \A v \in Workers \ {w} : at[v] = "free"
      BY <1>4, <3>1 DEF TypeOK, GhostType
    <3> QED
      BY <1>1, <3>2 DEF TypeOK, WorkerType
  <2>2. pending' \cup delayed' = {}
    BY <2>1 DEF WakeInv, RunHasWorker
  <2>3. \A q \in Sessions : ~Live(q)'
    BY <2>1, NoneIsNoSession DEF Live
  <2> QED
    BY <2>2, <2>3 DEF KeyInv, Queued
<1> QED
  BY <1>3, <1>4

LEMMA StepKeepsKey ==
    ASSUME TypeOK, TokenInv, KeyInv, NEW c \in Calls, Step(c)
    PROVE  KeyInv'
<1> USE DEF TypeOK, CallType
<1>1. CASE Withdraw(c)
  BY <1>1, WithdrawKeepsKey
<1>2. CASE c \in Turns /\ StartTurn(c)
  BY <1>2, KeyFramed DEF StartTurn, KeyFrame, Live
<1>3. CASE c \in Turns /\ EndTurn(c)
  BY <1>3, KeyFramed DEF EndTurn, KeyFrame, Live
<1>4. CASE c \in Turns /\ FindWritten(c)
  BY <1>4, KeyFramed DEF FindWritten, KeyFrame, Live
<1>5. CASE c \in Turns /\ MarkConsumed(c)
  BY <1>5, KeyFramed DEF MarkConsumed, KeyFrame, Live
<1>6. CASE c \in Turns /\ NoteEligible(c)
  BY <1>6, KeyFramed DEF NoteEligible, KeyFrame, Live
<1>7. CASE c \in Turns /\ InsertKey(c)
  BY <1>7, InsertKeyKeepsKey
<1>8. CASE c \in Turns /\ ListInRun(c)
  BY <1>8, ListKeepsKey
<1>9. CASE c \in Turns /\ FindNoRun(c)
  BY <1>9, KeyFramed DEF FindNoRun, KeyFrame, Live
<1>10. CASE c \in Turns /\ InsertRun(c)
  BY <1>10, ListKeepsKey
<1>11. CASE c \in Rollbacks /\ Rollback(c)
  BY <1>11, KeyFramed DEF Rollback, KeyFrame, Live
<1> QED
  BY <1>1, <1>2, <1>3, <1>4, <1>5, <1>6, <1>7, <1>8, <1>9, <1>10, <1>11 DEF Step

LEMMA WorkKeepsKey ==
    ASSUME TypeOK, WakeInv, KeyInv, NEW w \in Workers, Work(w)
    PROVE  KeyInv'
<1>1. CASE Pick(w)
  <2>1. PICK s \in pending \cup Ready :
          /\ pending' = (pending \cup Ready) \ {s} /\ delayed' = delayed \ Ready
          /\ session' = [session EXCEPT ![w] = s]
    BY <1>1 DEF Pick
  <2>2. /\ cancelled' = cancelled \ {w} /\ UNCHANGED <<keys, stage, slipped, raced>>
    BY <1>1 DEF Pick
  <2>3. Ready \subseteq delayed
    BY DEF Ready
  <2>4. \A q \in Sessions : Live(q)' => Live(q) \/ q = s
    BY <2>1, <2>2 DEF Live, TypeOK, WorkerType
  <2> QED
    BY <2>1, <2>2, <2>3, <2>4 DEF KeyInv, Queued, Reachable, Withdrawing
<1>2. CASE Wait(w)
  BY <1>2, KeyFramed DEF Wait, KeyFrame, Live
<1>3. CASE Wake(w)
  BY <1>3, KeyFramed DEF Wake, KeyFrame, Live
<1>4. CASE Oversleep(w)
  BY <1>4, KeyFramed DEF Oversleep, KeyFrame, Live
<1>5. CASE Stop(w)
  BY <1>5, KeyFramed DEF Stop, KeyFrame, Live
<1>6. CASE StopUnlisted(w)
  BY <1>6, LeaveKeepsKey, WorkKeepsWake DEF StopUnlisted, Work
<1>7. CASE RemoveRun(w)
  BY <1>7, KeyFramed DEF RemoveRun, KeyFrame, Live
<1>8. CASE RemoveNotifier(w)
  BY <1>8, LeaveKeepsKey, WorkKeepsWake DEF RemoveNotifier, Work
<1>9. CASE BeginCycle(w)
  BY <1>9, KeyFramed DEF BeginCycle, KeyFrame, Live
<1>10. CASE Commit(w)
  BY <1>10, KeyFramed DEF Commit, KeyFrame, Live
<1>11. CASE CycleFails(w)
  BY <1>11, KeyFramed DEF CycleFails, KeyFrame, Live
<1>12. CASE Heed(w)
  BY <1>12, FinishKeepsKey DEF Heed, TypeOK, WorkerType
<1>13. CASE Ask(w)
  BY <1>13, KeyFramed DEF Ask, KeyFrame, Live
<1>14. CASE Finish(w)
  BY <1>14, FinishKeepsKey DEF Finish, TypeOK, WorkerType
<1> QED
  BY <1>1, <1>2, <1>3, <1>4, <1>5, <1>6, <1>7, <1>8, <1>9, <1>10, <1>11, <1>12, <1>13,
     <1>14 DEF Work

LEMMA CallsAreKept == Spec => [](TokenInv /\ StartedOff /\ KeyInv)
<1>1. Init => TokenInv /\ StartedOff /\ KeyInv
  BY NoneIsNoSession DEF Init, TokenInv, TokenOfActive, RunIsActive, NothingToRemove,
     StartedOff,
     Started, KeyInv, Queued, Live
<1>2. TypeOK /\ TypeOK' /\ WakeInv /\ TokenInv /\ StartedOff /\ KeyInv /\ [Next]_vars
        => TokenInv' /\ StartedOff' /\ KeyInv'
  <2> SUFFICES ASSUME TypeOK, WakeInv, TokenInv, StartedOff, KeyInv, [Next]_vars
               PROVE  TokenInv' /\ StartedOff' /\ KeyInv'
    OBVIOUS
  <2>1. CASE \E c \in Calls : RemoveKey(c)
    BY <2>1, NextKeepsOff, RemoveKeyKeepsKey, TokenFramed DEF RemoveKey, TokenFrame
  <2>2. CASE \E s \in Sessions : Cool(s)
    BY <2>2, NextKeepsOff, KeyFramed, TokenFramed DEF Cool, TokenFrame, KeyFrame, Live
  <2>3. CASE UNCHANGED vars
    BY <2>3, NextKeepsOff, KeyFramed, TokenFramed DEF vars, TokenFrame, KeyFrame, Live
  <2> QED
    BY <2>1, <2>2, <2>3, NextKeepsOff, StepKeepsToken, WorkKeepsToken, StepKeepsKey,
       WorkKeepsKey
       DEF Next, Done
<1> QED
  BY <1>1, <1>2, MemoryTypeCorrect, WakeIsKept, PTL DEF Spec

\* cancel_session reaches every extraction that goes on while a turn runs.
THEOREM TurnsAreUndisturbed == Spec => []TurnSilencesMemory
<1>1. StartedOff /\ KeyInv => TurnSilencesMemory
  BY SessionOfCall DEF StartedOff, Started, KeyInv, Queued, Live, Reachable, TurnSilencesMemory
<1> QED
  BY <1>1, CallsAreKept, PTL

-----------------------------------------------------------------------------
(* What is due is queued *)

\* The session's entry, run, call or excuse.  A run that was told to stop is none.
Held(s) ==
    \/ Queued(s)
    \/ Scheduling(s)
    \/ s \in interrupted \cup slipped

DueInv == \A s \in Sessions : Due(s) => Held(s)

\* Whether something is due does not depend on the time of the last extraction.
LEMMA DueMeans ==
    ASSUME NEW s \in Sessions
    PROVE  Due(s) <=> /\ ~Processing(s) /\ ~(cursor[s] >= Len(history[s]))
                      /\ ~(eligible[s] < Every)
<1>1. Decision(s, eligible[s]) = "skip" <=> eligible[s] < Every
  BY DEF Decision
<1> QED
  BY <1>1 DEF Due, NextAction

LEMMA DueMeansNext ==
    ASSUME NEW s \in Sessions
    PROVE  Due(s)' <=> /\ ~Processing(s)' /\ ~(cursor'[s] >= Len(history'[s]))
                       /\ ~(eligible'[s] < Every)
<1>1. Decision(s, eligible[s])' = "skip" <=> eligible'[s] < Every
  BY DEF Decision
<1> QED
  BY <1>1 DEF Due, NextAction

LEMMA SameDue ==
    ASSUME NEW s \in Sessions, cursor'[s] = cursor[s], history'[s] = history[s],
           eligible'[s] = eligible[s], Processing(s)' <=> Processing(s)
    PROVE  Due(s)' <=> Due(s)
BY DueMeans, DueMeansNext

\* A session whose count of eligible turns was just reset has nothing due.
LEMMA ResetNotDue ==
    ASSUME NEW s \in Sessions, eligible'[s] = 0
    PROVE  ~Due(s)'
BY DueMeansNext, MemoryAssumption

DueFrame ==
    /\ \A s \in Sessions : Due(s)' => Due(s)
    /\ \A s \in Sessions : Held(s) => Held(s)'

LEMMA DueFramed ==
    ASSUME DueInv, DueFrame
    PROVE  DueInv'
BY DEF DueInv, DueFrame

\* Which turns of a session run or schedule it, in terms of their stages.
LEMMA SameProcessing ==
    ASSUME NEW s \in Sessions,
           \A t \in Turns : stage'[t] = "running" <=> stage[t] = "running"
    PROVE  Processing(s)' <=> Processing(s)
BY DEF Processing

LEMMA MoreScheduling ==
    ASSUME NEW s \in Sessions,
           \A t \in Turns : stage[t] \in {"schedule", "keyed", "insert"} =>
                            stage'[t] \in {"schedule", "keyed", "insert"}
    PROVE  Scheduling(s) => Scheduling(s)'
BY DEF Scheduling

LEMMA ConsumeNotDue ==
    ASSUME TypeOK, NEW x, NEW s \in Sessions, Consume(x, s), stage' = stage \/
             \A t \in Turns : stage'[t] = "running" <=> stage[t] = "running"
    PROVE  \A q \in Sessions : Due(q)' => Due(q)
<1> SUFFICES ASSUME NEW q \in Sessions, Due(q)' PROVE Due(q)
  OBVIOUS
<1>1. Processing(q)' <=> Processing(q)
  BY DEF Processing
<1>2. CASE revision[s] = window[x].revision
  <2>1. /\ \E n : cursor' = [cursor EXCEPT ![s] = n]
        /\ eligible' = [eligible EXCEPT ![s] = 0] /\ history' = history
    BY <1>2 DEF Consume
  <2>2. CASE q = s
    BY <2>1, <2>2, ResetNotDue DEF TypeOK, MemoryType
  <2>3. CASE q # s
    BY <1>1, <2>1, <2>3, SameDue DEF TypeOK, MemoryType
  <2> QED
    BY <2>2, <2>3
<1>3. CASE revision[s] # window[x].revision
  BY <1>1, <1>3, SameDue DEF Consume
<1> QED
  BY <1>2, <1>3

\* Calls that leave the queue, the workers and the excuses as they are.
LEMMA CallerKeepsDue ==
    ASSUME TypeOK, DueInv,
           UNCHANGED <<pending, delayed, session, cancelled, history, cursor, eligible>>,
           interrupted \subseteq interrupted', slipped \subseteq slipped',
           \A t \in Turns : stage'[t] = "running" <=> stage[t] = "running",
           \A t \in Turns : stage[t] \in {"schedule", "keyed", "insert"} =>
                            stage'[t] \in {"schedule", "keyed", "insert"}
    PROVE  DueInv'
<1>1. \A s \in Sessions : Due(s)' => Due(s)
  BY SameProcessing, SameDue
<1>2. \A s \in Sessions : Scheduling(s) => Scheduling(s)'
  BY MoreScheduling
<1> QED
  BY <1>1, <1>2, DueFramed DEF DueFrame, Held, Queued, Live

\* Workers that leave the sessions as they are and nothing of the queue behind.
LEMMA WorkerKeepsDue ==
    ASSUME TypeOK, DueInv, UNCHANGED <<history, cursor, eligible, stage, interrupted>>,
           slipped \subseteq slipped',
           \A s \in Sessions : Queued(s) => Queued(s)' \/ s \in slipped' \/ ~Due(s)
    PROVE  DueInv'
<1>1. \A s \in Sessions : Due(s)' => Due(s)
  BY SameProcessing, SameDue
<1>2. \A s \in Sessions : Scheduling(s) => Scheduling(s)'
  BY MoreScheduling
<1> QED
  BY <1>1, <1>2 DEF DueInv, Held

LEMMA StepKeepsDue ==
    ASSUME TypeOK, TokenInv, StartedOff, DueInv, NEW c \in Calls, Step(c)
    PROVE  DueInv'
<1>1. CASE Withdraw(c)
  <2> DEFINE s == SessionOf[c]
  <2>1. /\ pending' = pending \ {s} /\ delayed' = delayed \ {s}
        /\ cancelled' = IF active = s THEN cancelled \cup {token} ELSE cancelled
        /\ interrupted' = interrupted \cup {s}
        /\ UNCHANGED <<session, history, cursor, eligible, slipped>>
        /\ \A t \in Turns : stage'[t] = "running" <=> stage[t] = "running"
        /\ \A t \in Turns : stage[t] \in {"schedule", "keyed", "insert"} =>
                            stage'[t] \in {"schedule", "keyed", "insert"}
    BY <1>1 DEF Withdraw, TypeOK, CallType
  <2>2. s \in Sessions /\ s # None
    BY SessionOfCall, NoneIsNoSession
  <2>3. active = s => session[token] = s
    BY <2>2 DEF TokenInv, TokenOfActive
  <2>4. \A q \in Sessions : q # s /\ Queued(q) => Queued(q)'
    BY <2>1, <2>3 DEF Queued, Live
  <2>5. \A q \in Sessions : (Due(q)' => Due(q)) /\ (Scheduling(q) => Scheduling(q)')
    BY <2>1, SameProcessing, SameDue, MoreScheduling
  <2> QED
    BY <2>1, <2>4, <2>5 DEF DueInv, Held
<1>2. CASE c \in Turns /\ StartTurn(c)
  <2> DEFINE s == SessionOf[c]
  <2>1. /\ UNCHANGED <<pending, delayed, session, cancelled, cursor, eligible,
                       interrupted, slipped>>
        /\ stage[c] = "ready" /\ stage' = [stage EXCEPT ![c] = "running"]
        /\ history' = [history EXCEPT ![s] = Append(@, c)]
    BY <1>2 DEF StartTurn
  <2>2. s \in Sessions /\ Processing(s)'
    BY <1>2, <2>1, SessionOfCall DEF Processing, TypeOK, CallType
  <2>3. \A q \in Sessions : q # s => (Processing(q)' <=> Processing(q)) /\ history'[q] = history[q]
    BY <2>1 DEF Processing, TypeOK, CallType, MemoryType
  <2>4. \A q \in Sessions : Scheduling(q) => Scheduling(q)'
    BY <2>1, MoreScheduling DEF TypeOK, CallType
  <2>5. \A q \in Sessions : Due(q)' => Due(q)
    BY <2>1, <2>2, <2>3, SameDue, DueMeansNext
  <2> QED
    BY <2>1, <2>4, <2>5, DueFramed DEF DueFrame, Held, Queued, Live
<1>3. CASE c \in Turns /\ EndTurn(c)
  <2> DEFINE s == SessionOf[c]
  <2>1. /\ UNCHANGED <<pending, delayed, session, cancelled, history, cursor, eligible,
                       interrupted, slipped>>
        /\ stage[c] = "running" /\ stage'[c] # "running"
        /\ \A t \in Turns : t # c => stage'[t] = stage[t]
    BY <1>3 DEF EndTurn, TypeOK, CallType
  <2>2. s \in interrupted \cup slipped
    BY <1>3, <2>1 DEF StartedOff, Started
  <2>3. \A q \in Sessions : q # s => (Due(q)' <=> Due(q))
    BY <2>1, SameDue DEF Processing
  <2>4. \A q \in Sessions : Scheduling(q) => Scheduling(q)'
    BY <2>1, MoreScheduling
  <2> QED
    BY <2>1, <2>2, <2>3, <2>4 DEF DueInv, Held, Queued, Live
<1>4. CASE c \in Turns /\ FindWritten(c)
  BY <1>4, CallerKeepsDue DEF FindWritten, TypeOK, CallType
<1>5. CASE c \in Turns /\ MarkConsumed(c)
  <2>1. /\ UNCHANGED <<pending, delayed, session, cancelled, interrupted, slipped>>
        /\ \A t \in Turns : stage'[t] = "running" <=> stage[t] = "running"
        /\ \A t \in Turns : stage[t] \in {"schedule", "keyed", "insert"} =>
                            stage'[t] \in {"schedule", "keyed", "insert"}
    BY <1>5 DEF MarkConsumed, TypeOK, CallType
  <2>2. \A q \in Sessions : Due(q)' => Due(q)
    BY <1>5, <2>1, ConsumeNotDue, SessionOfCall DEF MarkConsumed
  <2>3. \A q \in Sessions : Scheduling(q) => Scheduling(q)'
    BY <2>1, MoreScheduling
  <2> QED
    BY <2>1, <2>2, <2>3, DueFramed DEF DueFrame, Held, Queued, Live
<1>6. CASE c \in Turns /\ NoteEligible(c)
  <2> DEFINE s == SessionOf[c]
             n == eligible[s] + 1
  <2>1. PICK what \in {Decision(s, n), "now"} :
          stage' = [stage EXCEPT ![c] = IF what = "skip" THEN "over" ELSE "schedule"]
    BY <1>6 DEF NoteEligible
  <2>2. /\ UNCHANGED <<pending, delayed, session, cancelled, history, cursor,
                       interrupted, slipped>>
        /\ eligible' = [eligible EXCEPT ![s] = n] /\ stage[c] = "completed"
    BY <1>6 DEF NoteEligible
  <2>3. s \in Sessions
    BY SessionOfCall
  <2>4. /\ \A t \in Turns : stage'[t] = "running" <=> stage[t] = "running"
        /\ \A t \in Turns : stage[t] \in {"schedule", "keyed", "insert"} =>
                            stage'[t] \in {"schedule", "keyed", "insert"}
    BY <2>1, <2>2 DEF TypeOK, CallType
  <2>5. \A q \in Sessions : q # s => (Due(q)' => Due(q))
    BY <2>2, <2>4, SameProcessing, SameDue DEF TypeOK, MemoryType
  <2>6. \A q \in Sessions : Scheduling(q) => Scheduling(q)'
    BY <2>4, MoreScheduling
  <2>7. CASE what = "skip"
    <3>1. n < Every
      BY <2>7 DEF Decision
    <3>2. ~Due(s)'
      BY <2>2, <2>3, <3>1, DueMeansNext DEF TypeOK, MemoryType
    <3> QED
      BY <2>2, <2>5, <2>6, <3>2 DEF DueInv, Held, Queued, Live
  <2>8. CASE what # "skip"
    <3>1. Scheduling(s)'
      BY <1>6, <2>1, <2>8 DEF Scheduling, TypeOK, CallType
    <3> QED
      BY <2>2, <2>5, <2>6, <3>1 DEF DueInv, Held, Queued, Live
  <2> QED
    BY <2>7, <2>8
<1>7. CASE c \in Turns /\ InsertKey(c)
  <2> DEFINE s == SessionOf[c]
  <2>1. /\ UNCHANGED <<pending, delayed, session, cancelled, history, cursor, eligible>>
        /\ interrupted' = interrupted \ {s} /\ slipped \ {s} \subseteq slipped'
        /\ stage' = [stage EXCEPT ![c] = "keyed"] /\ stage[c] = "schedule"
    BY <1>7 DEF InsertKey
  <2>2. Scheduling(s)'
    BY <1>7, <2>1 DEF Scheduling, TypeOK, CallType
  <2>3. \A q \in Sessions : Scheduling(q) => Scheduling(q)'
    BY <2>1, MoreScheduling DEF TypeOK, CallType
  <2>4. \A q \in Sessions : Due(q)' => Due(q)
    BY <2>1, SameProcessing, SameDue DEF TypeOK, CallType
  <2> QED
    BY <2>1, <2>2, <2>3, <2>4 DEF DueInv, Held, Queued, Live
<1>8. CASE c \in Turns /\ ListInRun(c)
  <2> DEFINE s == SessionOf[c]
  <2>1. /\ pending \cup delayed \subseteq pending' \cup delayed'
        /\ stage[c] \in {"keyed", "insert"} /\ stage' = [stage EXCEPT ![c] = "over"]
        /\ UNCHANGED <<session, cancelled, history, cursor, eligible, interrupted>>
    BY <1>8 DEF ListInRun
  <2>2. s \in pending' \cup delayed' /\ slipped \subseteq slipped'
    BY <1>8 DEF ListInRun
  <2>3. \A q \in Sessions : Due(q)' => Due(q)
    BY <2>1, SameProcessing, SameDue DEF TypeOK, CallType
  <2>4. \A q \in Sessions : q # s => (Scheduling(q) => Scheduling(q)')
    BY <2>1 DEF Scheduling, TypeOK, CallType
  <2> QED
    BY <2>1, <2>2, <2>3, <2>4 DEF DueInv, Held, Queued, Live
<1>9. CASE c \in Turns /\ FindNoRun(c)
  BY <1>9, CallerKeepsDue DEF FindNoRun, TypeOK, CallType
<1>10. CASE c \in Turns /\ InsertRun(c)
  <2> DEFINE s == SessionOf[c]
  <2>1. /\ pending \cup delayed \subseteq slipped'
        /\ stage[c] \in {"keyed", "insert"} /\ stage' = [stage EXCEPT ![c] = "over"]
        /\ UNCHANGED <<session, cancelled, history, cursor, eligible, interrupted>>
    BY <1>10 DEF InsertRun
  <2>2. s \in pending' \cup delayed' /\ slipped \subseteq slipped'
    BY <1>10 DEF InsertRun
  <2>3. \A q \in Sessions : Due(q)' => Due(q)
    BY <2>1, SameProcessing, SameDue DEF TypeOK, CallType
  <2>4. \A q \in Sessions : q # s => (Scheduling(q) => Scheduling(q)')
    BY <2>1 DEF Scheduling, TypeOK, CallType
  <2> QED
    BY <2>1, <2>2, <2>3, <2>4 DEF DueInv, Held, Queued, Live
<1>11. CASE c \in Rollbacks /\ Rollback(c)
  <2> DEFINE s == SessionOf[c]
  <2>1. /\ UNCHANGED <<pending, delayed, session, cancelled, interrupted, slipped>>
        /\ eligible' = [eligible EXCEPT ![s] = 0] /\ stage[c] = "ready"
        /\ stage' = [stage EXCEPT ![c] = "over"]
        /\ \E n : history' = [history EXCEPT ![s] = n]
        /\ \E n : cursor' = [cursor EXCEPT ![s] = n]
    BY <1>11 DEF Rollback
  <2>2. s \in Sessions
    BY SessionOfCall
  <2>3. /\ \A t \in Turns : stage'[t] = "running" <=> stage[t] = "running"
        /\ \A t \in Turns : stage[t] \in {"schedule", "keyed", "insert"} =>
                            stage'[t] \in {"schedule", "keyed", "insert"}
    BY <2>1 DEF TypeOK, CallType
  <2>4. ~Due(s)'
    BY <2>1, <2>2, ResetNotDue DEF TypeOK, MemoryType
  <2>5. \A q \in Sessions : q # s => (Due(q)' => Due(q))
    BY <2>1, <2>3, SameProcessing, SameDue DEF TypeOK, MemoryType
  <2>6. \A q \in Sessions : Scheduling(q) => Scheduling(q)'
    BY <2>3, MoreScheduling
  <2> QED
    BY <2>1, <2>4, <2>5, <2>6 DEF DueInv, Held, Queued, Live
<1> QED
  BY <1>1, <1>2, <1>3, <1>4, <1>5, <1>6, <1>7, <1>8, <1>9, <1>10, <1>11 DEF Step

LEMMA FinishKeepsDue ==
    ASSUME TypeOK, DueInv, NEW w \in Workers, NEW s \in Sessions, session[w] = s,
           NEW what, FinishRun(w, what),
           \/ what = "skip" /\ w \in cancelled
           \/ what = NextAction(s)
    PROVE  DueInv'
<1>1. /\ UNCHANGED <<cancelled, history, cursor, eligible, stage, interrupted>>
      /\ session' = [session EXCEPT ![w] = None] /\ slipped \subseteq slipped'
  BY DEF FinishRun
<1>2. \A q \in Sessions : Live(q) => Live(q)' \/ (q = s /\ w \notin cancelled)
  BY <1>1 DEF Live, TypeOK, WorkerType
<1>3. \A q \in Sessions : q # s /\ q \in pending \cup delayed => q \in pending' \cup delayed'
  BY DEF FinishRun
<1>4. CASE what = "skip"
  <2>1. s \in pending \cup delayed => s \in pending' \cup delayed' \cup slipped'
    BY <1>4 DEF FinishRun
  <2>2. w \in cancelled \/ ~Due(s)
    BY <1>4 DEF Due
  <2> QED
    BY <1>1, <1>2, <1>3, <2>1, <2>2, WorkerKeepsDue DEF Queued
<1>5. CASE what # "skip"
  <2>1. what \in {"now", "later"}
    BY <1>5, NextActionType
  <2>2. s \in pending' \cup delayed' \cup slipped'
    BY <2>1 DEF FinishRun
  <2> QED
    BY <1>1, <1>2, <1>3, <2>2, WorkerKeepsDue DEF Queued
<1> QED
  BY <1>4, <1>5

LEMMA WorkKeepsDue ==
    ASSUME TypeOK, TokenInv, DueInv, NEW w \in Workers, Work(w)
    PROVE  DueInv'
<1> USE DEF TypeOK, WorkerType
<1>1. CASE Pick(w)
  <2>1. PICK s \in pending \cup Ready :
          /\ pending' = (pending \cup Ready) \ {s} /\ delayed' = delayed \ Ready
          /\ session' = [session EXCEPT ![w] = s]
    BY <1>1 DEF Pick
  <2>2. /\ cancelled' = cancelled \ {w} /\ at[w] = "look"
        /\ UNCHANGED <<history, cursor, eligible, stage, interrupted, slipped>>
    BY <1>1 DEF Pick
  <2>3. \A q \in Sessions : q \in pending \cup delayed =>
          q \in pending' \cup delayed' \/ q = s
    BY <2>1
  <2>4. \A q \in Sessions : Live(q) => Live(q)'
    BY <2>1, <2>2, NoneIsNoSession DEF Live
  <2>5. Live(s)'
    BY <2>1, <2>2 DEF Live
  <2> QED
    BY <2>2, <2>3, <2>4, <2>5, WorkerKeepsDue DEF Queued
<1>2. CASE Wait(w)
  BY <1>2, WorkerKeepsDue DEF Wait, Queued, Live
<1>3. CASE Wake(w)
  BY <1>3, WorkerKeepsDue DEF Wake, Queued, Live
<1>4. CASE Oversleep(w)
  BY <1>4, WorkerKeepsDue DEF Oversleep, Queued, Live
<1>5. CASE Stop(w)
  BY <1>5, WorkerKeepsDue DEF Stop, Queued, Live
<1>6. CASE StopUnlisted(w)
  <2>1. /\ UNCHANGED <<pending, delayed, session, history, cursor, eligible, stage,
                       interrupted, slipped>>
        /\ cancelled' = cancelled \ {w}
    BY <1>6 DEF StopUnlisted, Leave
  <2> QED
    BY <2>1, WorkerKeepsDue DEF Queued, Live
<1>7. CASE RemoveRun(w)
  <2>1. /\ UNCHANGED <<session, cancelled, history, cursor, eligible, stage, interrupted>>
        /\ slipped' = IF raced THEN slipped \cup pending \cup delayed ELSE slipped
        /\ at[w] = "remove"
    BY <1>7 DEF RemoveRun
  <2>2. pending \cup delayed \subseteq slipped'
    BY <2>1 DEF TokenInv, NothingToRemove
  <2> QED
    BY <2>1, <2>2, WorkerKeepsDue DEF Queued, Live
<1>8. CASE RemoveNotifier(w)
  <2>1. /\ UNCHANGED <<pending, delayed, session, history, cursor, eligible, stage,
                       interrupted, slipped>>
        /\ cancelled' = cancelled \ {w}
    BY <1>8 DEF RemoveNotifier, Leave
  <2> QED
    BY <2>1, WorkerKeepsDue DEF Queued, Live
<1>9. CASE BeginCycle(w)
  BY <1>9, WorkerKeepsDue DEF BeginCycle, Queued, Live
<1>10. CASE Commit(w)
  <2>1. /\ UNCHANGED <<pending, delayed, session, cancelled, stage, interrupted, slipped>>
        /\ Consume(w, session[w]) /\ session[w] \in Sessions
    BY <1>10 DEF Commit
  <2>2. \A q \in Sessions : Due(q)' => Due(q)
    BY <2>1, ConsumeNotDue
  <2> QED
    BY <2>1, <2>2, DueFramed DEF DueFrame, Held, Queued, Live, Scheduling
<1>11. CASE CycleFails(w)
  BY <1>11, WorkerKeepsDue DEF CycleFails, Queued, Live
<1>12. CASE Heed(w)
  BY <1>12, FinishKeepsDue DEF Heed
<1>13. CASE Ask(w)
  BY <1>13, WorkerKeepsDue DEF Ask, Queued, Live
<1>14. CASE Finish(w)
  BY <1>14, FinishKeepsDue DEF Finish
<1> QED
  BY <1>1, <1>2, <1>3, <1>4, <1>5, <1>6, <1>7, <1>8, <1>9, <1>10, <1>11, <1>12, <1>13,
     <1>14 DEF Work

\* No session with something to extract is forgotten: every turn that was counted
\* is extracted, queued or called off, unless a race has dropped its entry.
THEOREM DueIsKept == Spec => []DueIsQueued
<1>1. Init => DueInv
  BY DueMeans DEF Init, DueInv
<1>2. TypeOK /\ TokenInv /\ StartedOff /\ DueInv /\ [Next]_vars => DueInv'
  <2> SUFFICES ASSUME TypeOK, TokenInv, StartedOff, DueInv, [Next]_vars PROVE DueInv'
    OBVIOUS
  <2>1. CASE \E c \in Calls : RemoveKey(c)
    BY <2>1, CallerKeepsDue DEF RemoveKey, TypeOK, CallType
  <2>2. CASE \E s \in Sessions : Cool(s)
    BY <2>2, WorkerKeepsDue DEF Cool, Queued, Live
  <2>3. CASE UNCHANGED vars
    BY <2>3, WorkerKeepsDue DEF vars, Queued, Live
  <2> QED
    BY <2>1, <2>2, <2>3, StepKeepsDue, WorkKeepsDue DEF Next, Done
<1>3. DueInv => DueIsQueued
  BY NoneIsNoSession DEF DueInv, DueIsQueued, Held, Queued, Live, UnderWay
<1> QED
  BY <1>1, <1>2, <1>3, MemoryTypeCorrect, CallsAreKept, PTL DEF Spec

=============================================================================
