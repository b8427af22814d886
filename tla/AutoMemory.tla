----------------------------- MODULE AutoMemory -----------------------------
(***************************************************************************)
(* Automatic memory: who queues a session's new turns for extraction, the  *)
(* worker of a workspace that extracts them, and the cursor that says      *)
(* which turns have been.  One workspace is modelled: maps keyed by        *)
(* workspace have one entry or none.  A turn that starts calls off what is *)
(* queued for its session; when it completes it queues the session again.  *)
(***************************************************************************)
EXTENDS Integers, Sequences, FiniteSets

CONSTANTS
  Sessions, Turns, Rollbacks,
  SessionOf,     \* the session of each turn and of each rollback
  Workers,       \* the tasks that can be spawned
  Notifies,      \* identities of tokio's Notify
  None,
  Every, ForceAfter,  \* extract_every_eligible_turns, force_extract_after_...
  Cooldown,      \* whether there is a min_extract_interval_secs
  Scenarios,     \* bound: the turns and rollbacks that happen are one of these sets
  MaxFailures    \* bound: extractions that fail

Calls == Turns \cup Rollbacks

ASSUME MemoryAssumption ==
  /\ SessionOf \in [Calls -> Sessions]
  /\ None \notin Sessions \cup Workers \cup Notifies
  /\ Turns \cap Rollbacks = {} /\ Turns \cap Workers = {}
  /\ Every \in Nat \ {0} /\ ForceAfter \in Nat /\ MaxFailures \in Nat
  /\ Cooldown \in BOOLEAN
  /\ Scenarios \subseteq SUBSET Calls

\* A Notify that no worker holds can always be made.
ASSUME FreshNotify ==
  \A held \in [Workers -> Notifies \cup {None}] :
    \E n \in Notifies : \A w \in Workers : held[w] # n

VARIABLES
  \* AutoMemoryManager: session_workspace_keys, the workspace's WorkspaceRunState
  \* (if listed), its Notify and the permits notify_one left, the semaphore
  keys, listed, running, pending, delayed, active, token,
  notifier, permit, semaphore,
  \* the workers: where each is, the session it runs, the Notify it waits for,
  \* whether the token of its run is cancelled
  at, session, ear, cancelled,
  \* the sessions: dialog_turn_ids and AutoMemoryState
  history, cursor, revision, eligible, cooling,
  \* the turns and rollbacks: where each is, and whether it schedules for later
  stage, later,
  \* what an extraction or a direct write is about to commit
  window,
  \* history variables
  seen,          \* turns that were extracted or declared consumed
  interrupted,   \* sessions called off since they were last scheduled
  slipped,       \* sessions whose entry was lost, or listed after it was called off
  raced,         \* two workers since there was none
  failures

queueVars  == <<keys, listed, running, pending, delayed, active, token>>
wakeVars   == <<notifier, permit>>
workerVars == <<at, session, ear, cancelled, semaphore>>
memoryVars == <<history, cursor, revision, eligible, cooling, seen>>
callVars   == <<stage, later>>
ghosts     == <<interrupted, slipped, raced, failures>>
vars == <<queueVars, wakeVars, workerVars, memoryVars, callVars, window, ghosts>>

NoWindow == [upto |-> 0, revision |-> 0, turns |-> {}]

Init ==
  /\ keys = {} /\ listed = FALSE /\ running = FALSE
  /\ pending = {} /\ delayed = {} /\ active = None /\ token = None
  /\ notifier = None /\ permit = {} /\ semaphore = None
  /\ at = [w \in Workers |-> "free"]
  /\ session = [w \in Workers |-> None]
  /\ ear = [w \in Workers |-> None]
  /\ cancelled = {}
  /\ history = [s \in Sessions |-> <<>>]
  /\ cursor = [s \in Sessions |-> 0]
  /\ revision = [s \in Sessions |-> 0]
  /\ eligible = [s \in Sessions |-> 0]
  /\ cooling = [s \in Sessions |-> FALSE]
  /\ \E happens \in Scenarios :
       stage = [c \in Calls |-> IF c \in happens THEN "new" ELSE "over"]
  /\ later = {}
  /\ window = [x \in Workers \cup Turns |-> NoWindow]
  /\ seen = {}
  /\ interrupted = {} /\ slipped = {} /\ raced = FALSE /\ failures = 0

-----------------------------------------------------------------------------
(* AutoMemoryState *)

\* schedule_decision with n eligible turns; there is no idle trigger
Decision(s, n) ==
  IF n < Every THEN "skip"
  ELSE IF cooling[s] /\ n < ForceAfter THEN "later" ELSE "now"

Processing(s) == \E t \in Turns : SessionOf[t] = s /\ stage[t] = "running"

\* next_auto_memory_queue_action
NextAction(s) ==
  IF Processing(s) \/ cursor[s] >= Len(history[s])
  THEN "skip" ELSE Decision(s, eligible[s])

Least(m, n) == IF m < n THEN m ELSE n

\* Mutant: the revision is not compared.
ConsumeAnyway(x, s) ==
  /\ cursor' = [cursor EXCEPT ![s] = Least(window[x].upto, Len(history[s]))]
  /\ eligible' = [eligible EXCEPT ![s] = 0]
  /\ cooling' = [cooling EXCEPT ![s] = Cooldown]
  /\ seen' = seen \cup window[x].turns
  /\ UNCHANGED <<history, revision>>

\* complete_auto_memory_extraction_if_revision_matches
Consume(x, s) ==
  IF revision[s] = window[x].revision
  THEN /\ cursor' = [cursor EXCEPT ![s] = Least(window[x].upto, Len(history[s]))]
       /\ eligible' = [eligible EXCEPT ![s] = 0]
       /\ cooling' = [cooling EXCEPT ![s] = Cooldown]
       /\ seen' = seen \cup window[x].turns
       /\ UNCHANGED <<history, revision>>
  ELSE UNCHANGED memoryVars

\* What is up to position n of the session's turns.
UpTo(s, n) == {history[s][i] : i \in 1 .. n}

\* min_extract_interval_secs has passed since the last extraction
Cool(s) ==
  /\ cooling[s]
  /\ cooling' = [cooling EXCEPT ![s] = FALSE]
  /\ UNCHANGED <<queueVars, wakeVars, workerVars, callVars, window, ghosts,
                 history, cursor, revision, eligible, seen>>

-----------------------------------------------------------------------------
(* The calls: a turn, or a rollback, from its start to its end *)

To(c, where) == stage' = [stage EXCEPT ![c] = where]

\* Mutant: nobody is notified.
RingNobody == UNCHANGED wakeVars

\* notify_workspace
Ring == /\ permit' = permit \cup ({notifier} \ {None})
        /\ UNCHANGED notifier

\* A turn of the session that has started and not ended
Started(s, t) == SessionOf[t] = s /\ stage[t] \in {"withdraw", "ready", "running"}

\* cancel_session, first step: take the session's key.  A turn only starts in a
\* session that has none.
RemoveKey(c) ==
  LET s == SessionOf[c] IN
  /\ stage[c] = "new"
  /\ c \in Turns => \A t \in Turns : ~Started(s, t)
  /\ To(c, IF s \in keys THEN "withdraw" ELSE "ready")
  /\ keys' = keys \ {s}
  /\ interrupted' = interrupted \cup {s}
  /\ UNCHANGED <<listed, running, pending, delayed, active, token, wakeVars,
                 workerVars, memoryVars, later, window, slipped, raced, failures>>

\* Mutant: only what is queued is called off, not the run.
WithdrawQueued(c) ==
  LET s == SessionOf[c] IN
  /\ stage[c] = "withdraw"
  /\ pending' = pending \ {s}
  /\ delayed' = delayed \ {s}
  /\ interrupted' = interrupted \cup {s}
  /\ Ring
  /\ To(c, "ready")
  /\ UNCHANGED <<keys, listed, running, active, token, workerVars, memoryVars, later,
                 window, slipped, raced, failures>>

\* cancel_session, second step: out of the queue, or cancel the run
Withdraw(c) ==
  LET s == SessionOf[c] IN
  /\ stage[c] = "withdraw"
  /\ pending' = pending \ {s}
  /\ delayed' = delayed \ {s}
  /\ cancelled' = IF active = s THEN cancelled \cup {token} ELSE cancelled
  /\ interrupted' = interrupted \cup {s}
  /\ Ring
  /\ To(c, "ready")
  /\ UNCHANGED <<keys, listed, running, active, token, at, session, ear, semaphore,
                 memoryVars, later, window, slipped, raced, failures>>

StartTurn(t) ==
  /\ stage[t] = "ready"
  /\ To(t, "running")
  /\ history' = [history EXCEPT ![SessionOf[t]] = Append(@, t)]
  /\ UNCHANGED <<queueVars, wakeVars, workerVars, cursor, revision, eligible,
                 cooling, seen, later, window, ghosts>>

\* The session is idle again.  Only a turn that completed is considered.
EndTurn(t) ==
  /\ stage[t] = "running"
  /\ \E where \in {"completed", "over"} : To(t, where)
  /\ UNCHANGED <<queueVars, wakeVars, workerVars, memoryVars, later, window, ghosts>>

\* rollback_context_to_turn_start, after the turn under way was cancelled
Rollback(r) ==
  LET s == SessionOf[r] IN
  /\ stage[r] = "ready"
  /\ ~Processing(s)
  /\ \E n \in 0 .. Len(history[s]) :
       /\ history' = [history EXCEPT ![s] = SubSeq(@, 1, n)]
       /\ cursor' = [cursor EXCEPT ![s] = Least(@, n)]
  /\ revision' = [revision EXCEPT ![s] = @ + 1]
  /\ eligible' = [eligible EXCEPT ![s] = 0]
  /\ To(r, "over")
  /\ UNCHANGED <<queueVars, wakeVars, workerVars, cooling, seen, later, window, ghosts>>

\* The turn wrote memory itself: what it will declare consumed
FindWritten(t) ==
  LET s == SessionOf[t] IN
  /\ stage[t] = "completed"
  /\ \/ \E i \in DOMAIN history[s] :
          /\ history[s][i] = t
          /\ window' = [window EXCEPT ![t] =
               [upto |-> i, revision |-> revision[s], turns |-> UpTo(s, i)]]
          /\ To(t, "marking")
     \/ /\ \A i \in DOMAIN history[s] : history[s][i] # t
        /\ To(t, "over")
        /\ UNCHANGED window
  /\ UNCHANGED <<queueVars, wakeVars, workerVars, memoryVars, later, ghosts>>

\* mark_auto_memory_consumed_through_turn
MarkConsumed(t) ==
  /\ stage[t] = "marking"
  /\ Consume(t, SessionOf[t])
  /\ To(t, "over")
  /\ UNCHANGED <<queueVars, wakeVars, workerVars, later, window, ghosts>>

\* note_auto_memory_eligible_turn; if its save fails the session is queued at once
NoteEligible(t) ==
  LET s == SessionOf[t]  n == eligible[s] + 1 IN
  /\ stage[t] = "completed"
  /\ eligible' = [eligible EXCEPT ![s] = n]
  /\ \E what \in {Decision(s, n), "now"} :
       /\ To(t, IF what = "skip" THEN "over" ELSE "schedule")
       /\ later' = IF what = "later" THEN later \cup {t} ELSE later
  /\ UNCHANGED <<queueVars, wakeVars, workerVars, history, cursor, revision,
                 cooling, seen, window, ghosts>>

\* schedule_at and schedule_session: the key first
InsertKey(t) ==
  LET s == SessionOf[t]
      newer == \E u \in Turns : Started(s, u) IN
  /\ stage[t] = "schedule"
  /\ keys' = keys \cup {s}
  /\ later' = IF cooling[s] THEN later ELSE later \ {t}
  /\ interrupted' = interrupted \ {s}
  /\ slipped' = IF newer THEN slipped \cup {s} ELSE slipped \ {s}
  /\ To(t, "keyed")
  /\ UNCHANGED <<listed, running, pending, delayed, active, token, wakeVars,
                 workerVars, memoryVars, window, raced, failures>>

\* Called off between its key and its entry: no key, and nobody to withdraw it.
Withdrawing(s) == \E c \in Calls : SessionOf[c] = s /\ stage[c] = "withdraw"

CalledOff(s) == s \notin keys /\ ~Withdrawing(s)

\* notify_workspace and the spawn of a worker: a task starts when it is polled
Spawn ==
  /\ \E w \in Workers : at[w] = "free"
  /\ Ring
  /\ at' = [at EXCEPT ![CHOOSE w \in Workers : at[w] = "free"] = "look"]
  /\ raced' = (raced \/ \E w \in Workers : at[w] # "free")

\* schedule_session, the workspace has a run
ListInRun(t) ==
  LET s == SessionOf[t] IN
  /\ stage[t] = "keyed" /\ listed
  /\ IF t \in later
     THEN /\ delayed' = IF s \in pending THEN delayed ELSE delayed \cup {s}
          /\ UNCHANGED pending
     ELSE /\ delayed' = delayed \ {s}
          /\ pending' = pending \cup {s}
  /\ running' = TRUE
  /\ IF running THEN Ring /\ UNCHANGED <<at, raced>> ELSE Spawn
  /\ slipped' = IF CalledOff(s) THEN slipped \cup {s} ELSE slipped
  /\ To(t, "over")
  /\ UNCHANGED <<keys, listed, active, token, session, ear, cancelled, semaphore,
                 memoryVars, later, window, interrupted, failures>>

\* schedule_session, the workspace has no run
FindNoRun(t) ==
  /\ stage[t] = "keyed" /\ ~listed
  /\ To(t, "insert")
  /\ UNCHANGED <<queueVars, wakeVars, workerVars, memoryVars, later, window, ghosts>>

\* schedule_session puts a new run, over one that is there by now
InsertRun(t) ==
  LET s == SessionOf[t] IN
  /\ stage[t] = "insert"
  /\ listed' = TRUE /\ running' = TRUE
  /\ pending' = IF t \in later THEN {} ELSE {s}
  /\ delayed' = IF t \in later THEN {s} ELSE {}
  /\ active' = None /\ token' = None
  /\ Spawn
  /\ slipped' = slipped \cup pending \cup delayed
                        \cup (IF CalledOff(s) THEN {s} ELSE {})
  /\ To(t, "over")
  /\ UNCHANGED <<keys, session, ear, cancelled, semaphore, memoryVars, later, window,
                 interrupted, failures>>

-----------------------------------------------------------------------------
(* The worker: run_workspace_loop *)

Move(w, where) == at' = [at EXCEPT ![w] = where]

\* promote_ready_delayed_sessions
Ready == {s \in delayed : ~cooling[s]}

\* get_or_create_notify: the one of the workspace, or a new one
Heard == IF notifier # None THEN notifier
         ELSE CHOOSE n \in Notifies : \A v \in Workers : ear[v] # n

Listen(w) ==
  /\ notifier' = Heard
  /\ permit' = IF notifier = None THEN permit \ {Heard} ELSE permit
  /\ ear' = [ear EXCEPT ![w] = Heard]

\* next_workspace_action: Run.  HashSet iterates in any order.
Pick(w) ==
  /\ at[w] = "look" /\ listed
  /\ Listen(w)
  /\ \E s \in pending \cup Ready :
       /\ pending' = (pending \cup Ready) \ {s}
       /\ delayed' = delayed \ Ready
       /\ active' = s /\ token' = w
       /\ session' = [session EXCEPT ![w] = s]
  /\ cancelled' = cancelled \ {w}
  /\ Move(w, "picked")
  /\ UNCHANGED <<keys, listed, running, semaphore, memoryVars, callVars, window, ghosts>>

\* next_workspace_action: Wait
Wait(w) ==
  /\ at[w] = "look" /\ listed
  /\ pending \cup Ready = {} /\ delayed # {}
  /\ Listen(w)
  /\ Move(w, "wait")
  /\ UNCHANGED <<queueVars, session, cancelled, semaphore, memoryVars, callVars,
                 window, ghosts>>

Wake(w) ==
  /\ at[w] = "wait" /\ ear[w] \in permit
  /\ permit' = permit \ {ear[w]}
  /\ Move(w, "look")
  /\ UNCHANGED <<queueVars, notifier, session, ear, cancelled, semaphore, memoryVars,
                 callVars, window, ghosts>>

\* sleep_until: the delayed session is ready, or has been withdrawn since
Oversleep(w) ==
  /\ at[w] = "wait"
  /\ Ready # {} \/ delayed = {}
  /\ Move(w, "look")
  /\ UNCHANGED <<queueVars, wakeVars, session, ear, cancelled, semaphore, memoryVars,
                 callVars, window, ghosts>>

Leave(w) ==
  /\ at' = [at EXCEPT ![w] = "free"]
  /\ ear' = [ear EXCEPT ![w] = None]
  /\ cancelled' = cancelled \ {w}
  /\ raced' = (raced /\ \E v \in Workers \ {w} : at[v] # "free")
  /\ UNCHANGED <<session, semaphore>>

\* Mutant: sessions that are to be run later are overlooked.
StopEarly(w) ==
  /\ at[w] = "look" /\ listed
  /\ pending \cup Ready = {}
  /\ Listen(w)
  /\ running' = FALSE /\ active' = None /\ token' = None
  /\ Move(w, "remove")
  /\ UNCHANGED <<keys, listed, pending, delayed, session, cancelled, semaphore,
                 memoryVars, callVars, window, ghosts>>

\* next_workspace_action: Stop, there is nothing left to run
Stop(w) ==
  /\ at[w] = "look" /\ listed
  /\ pending \cup delayed = {}
  /\ Listen(w)
  /\ running' = FALSE /\ active' = None /\ token' = None
  /\ Move(w, "remove")
  /\ UNCHANGED <<keys, listed, pending, delayed, session, cancelled, semaphore,
                 memoryVars, callVars, window, ghosts>>

\* The run is removed, whatever has been put there since
RemoveRun(w) ==
  /\ at[w] = "remove"
  /\ listed' = FALSE /\ running' = FALSE
  /\ pending' = {} /\ delayed' = {} /\ active' = None /\ token' = None
  /\ slipped' = IF raced THEN slipped \cup pending \cup delayed ELSE slipped
  /\ Move(w, "forget")
  /\ UNCHANGED <<keys, wakeVars, session, ear, cancelled, semaphore, memoryVars,
                 callVars, window, interrupted, raced, failures>>

RemoveNotifier(w) ==
  /\ at[w] = "forget"
  /\ notifier' = None
  /\ Leave(w)
  /\ UNCHANGED <<queueVars, permit, memoryVars, callVars, window, interrupted,
                 slipped, failures>>

\* next_workspace_action: Stop, there is no run
StopUnlisted(w) ==
  /\ at[w] = "look" /\ ~listed
  /\ notifier' = Heard
  /\ permit' = IF notifier = None THEN permit \ {Heard} ELSE permit
  /\ Leave(w)
  /\ UNCHANGED <<queueVars, memoryVars, callVars, window, interrupted, slipped, failures>>

\* run_auto_memory_cycle with the permit of the semaphore, up to the fork
BeginCycle(w) ==
  LET s == session[w] IN
  /\ at[w] = "picked" /\ semaphore = None
  /\ IF w \notin cancelled /\ NextAction(s) = "now"
     THEN /\ semaphore' = w
          /\ window' = [window EXCEPT ![w] =
               [upto |-> Len(history[s]), revision |-> revision[s],
                turns |-> UpTo(s, Len(history[s]))]]
          /\ Move(w, "cycle")
     ELSE /\ Move(w, "after")
          /\ UNCHANGED <<semaphore, window>>
  /\ UNCHANGED <<queueVars, wakeVars, session, ear, cancelled, memoryVars, callVars, ghosts>>

\* The fork is done; cancelled after its last check, it commits all the same
Commit(w) ==
  /\ at[w] = "cycle"
  /\ Consume(w, session[w])
  /\ semaphore' = None
  /\ Move(w, "after")
  /\ UNCHANGED <<queueVars, wakeVars, session, ear, cancelled, callVars, window, ghosts>>

\* The fork failed or heeded its token
CycleFails(w) ==
  /\ at[w] = "cycle"
  /\ \/ w \in cancelled /\ UNCHANGED failures
     \/ failures < MaxFailures /\ failures' = failures + 1
  /\ semaphore' = None
  /\ Move(w, "after")
  /\ UNCHANGED <<queueVars, wakeVars, session, ear, cancelled, memoryVars, callVars,
                 window, interrupted, slipped, raced>>

\* Mutant: the token outlives the run.
ReleaseKeepingToken(s) ==
  /\ active' = IF active = s THEN None ELSE active
  /\ UNCHANGED token

\* The run is no longer the active one, if it was
Release(s) ==
  /\ active' = IF active = s THEN None ELSE active
  /\ token' = IF active = s THEN None ELSE token

\* finish_session_run
FinishRun(w, what) ==
  LET s == session[w] IN
  /\ IF listed
     THEN /\ pending' = CASE what = "now"   -> pending \cup {s}
                          [] what = "later" -> pending \ {s}
                          [] OTHER          -> pending
          /\ delayed' = IF what = "later" THEN delayed \cup {s} ELSE delayed \ {s}
          /\ Release(s)
     ELSE UNCHANGED <<pending, delayed, active, token>>
  /\ slipped' = IF \/ what # "skip" /\ (~listed \/ CalledOff(s))
                   \/ what = "skip" /\ s \in delayed
                THEN slipped \cup {s} ELSE slipped
  /\ session' = [session EXCEPT ![w] = None]
  /\ Ring
  /\ Move(w, "look")
  /\ UNCHANGED <<keys, listed, running, ear, cancelled, semaphore, memoryVars,
                 callVars, window, interrupted, raced, failures>>

Heed(w) ==
  /\ at[w] = "after" /\ w \in cancelled
  /\ FinishRun(w, "skip")

\* Not cancelled yet: what next is asked for in an await
Ask(w) ==
  /\ at[w] = "after" /\ w \notin cancelled
  /\ Move(w, "ask")
  /\ UNCHANGED <<queueVars, wakeVars, session, ear, cancelled, semaphore, memoryVars,
                 callVars, window, ghosts>>

\* Mutant: what is left to extract is not looked at.
FinishForgetting(w) ==
  /\ at[w] = "ask"
  /\ FinishRun(w, "skip")

Finish(w) ==
  /\ at[w] = "ask"
  /\ FinishRun(w, NextAction(session[w]))

-----------------------------------------------------------------------------
Step(c) ==
  \/ Withdraw(c)
  \/ c \in Turns /\ (StartTurn(c) \/ EndTurn(c) \/ FindWritten(c) \/ MarkConsumed(c)
                     \/ NoteEligible(c) \/ InsertKey(c) \/ ListInRun(c) \/ FindNoRun(c)
                     \/ InsertRun(c))
  \/ c \in Rollbacks /\ Rollback(c)

Work(w) ==
  \/ Pick(w) \/ Wait(w) \/ Wake(w) \/ Oversleep(w) \/ Stop(w) \/ StopUnlisted(w)
  \/ RemoveRun(w) \/ RemoveNotifier(w)
  \/ BeginCycle(w) \/ Commit(w) \/ CycleFails(w) \/ Heed(w) \/ Ask(w) \/ Finish(w)

Done ==
  /\ \A c \in Calls : stage[c] = "over"
  /\ \A w \in Workers : at[w] = "free"
  /\ UNCHANGED vars

Next ==
  \/ \E c \in Calls : RemoveKey(c) \/ Step(c)
  \/ \E w \in Workers : Work(w)
  \/ \E s \in Sessions : Cool(s)
  \/ Done

Spec == Init /\ [][Next]_vars

\* tokio polls every task that was spawned, and time passes
Fairness ==
  /\ \A c \in Calls : WF_vars(Step(c))
  /\ \A w \in Workers : WF_vars(Work(w))
  /\ \A s \in Sessions : WF_vars(Cool(s))

FairSpec == Spec /\ Fairness
-----------------------------------------------------------------------------
QueueType ==
  /\ keys \subseteq Sessions /\ pending \subseteq Sessions /\ delayed \subseteq Sessions
  /\ listed \in BOOLEAN /\ running \in BOOLEAN
  /\ active \in Sessions \cup {None} /\ token \in Workers \cup {None}
  /\ active = None <=> token = None

WakeType == notifier \in Notifies \cup {None} /\ permit \subseteq Notifies

WorkerType ==
  /\ semaphore \in Workers \cup {None}
  /\ at \in [Workers -> {"free", "look", "wait", "remove", "forget", "picked",
                         "cycle", "after", "ask"}]
  /\ session \in [Workers -> Sessions \cup {None}]
  /\ \A w \in Workers :
       at[w] \in {"picked", "cycle", "after", "ask"} <=> session[w] # None
  /\ ear \in [Workers -> Notifies \cup {None}]
  /\ cancelled \subseteq Workers

MemoryType ==
  /\ history \in [Sessions -> Seq(Turns)]
  /\ cursor \in [Sessions -> Nat] /\ revision \in [Sessions -> Nat]
  /\ eligible \in [Sessions -> Nat] /\ cooling \in [Sessions -> BOOLEAN]
  /\ seen \subseteq Turns

CallType ==
  /\ stage \in [Calls -> {"new", "withdraw", "ready", "running", "completed", "marking",
                          "schedule", "keyed", "insert", "over"}]
  /\ later \subseteq Turns

WindowType ==
  window \in [Workers \cup Turns -> [upto : Nat, revision : Nat, turns : SUBSET Turns]]

GhostType ==
  /\ interrupted \subseteq Sessions /\ slipped \subseteq Sessions
  /\ raced \in BOOLEAN /\ failures \in 0 .. MaxFailures

\* What each variable may hold.  The session that is active has a token to
\* cancel it by, and a worker has a session exactly while it runs one.
TypeOK == /\ QueueType /\ WakeType /\ WorkerType /\ MemoryType
          /\ CallType /\ WindowType /\ GhostType

Awake(w) ==
  \/ at[w] \in {"look", "picked", "cycle", "after", "ask"}
  \/ at[w] = "wait" /\ ear[w] \in permit

\* A session that is to be extracted now has a worker that will look at the
\* queue: none waits for something else unless a notification is on its way,
\* the run is about to be removed, or two workers have met (schedule_session
\* looks and inserts without a lock between; next_workspace_action marks the
\* worker stopped, then removes the run and its Notify).
QueuedHasWorker ==
  pending # {} => \/ \E w \in Workers : Awake(w) \/ at[w] = "remove"
                  \/ raced

Due(s) == NextAction(s) # "skip"

Scheduling(s) ==
  \E t \in Turns : SessionOf[t] = s /\ stage[t] \in {"schedule", "keyed", "insert"}

UnderWay == {session[w] : w \in Workers} \ {None}

\* Turns that wait to be extracted are not forgotten: their session is queued,
\* run, or about to be scheduled, unless a turn or a rollback has called it off
\* since, or one of the races that slipped records has dropped its entry.
DueIsQueued ==
  \A s \in Sessions :
    Due(s) => \/ s \in pending \cup delayed \cup UnderWay
              \/ Scheduling(s)
              \/ s \in interrupted \cup slipped

\* cancel_session reaches every extraction: while a turn of the session runs
\* none goes on uncancelled, except after the races named above.
TurnSilencesMemory ==
  \A t \in Turns, w \in Workers :
    stage[t] = "running" /\ at[w] = "cycle" /\ session[w] = SessionOf[t]
      => \/ w \in cancelled \/ Withdrawing(SessionOf[t])
         \/ SessionOf[t] \in slipped \/ raced

\* history_revision: no rollback makes the cursor pass over a turn that nobody
\* has extracted, however late an extraction or a direct write commits.
CursorCoversSeen ==
  \A s \in Sessions : UpTo(s, cursor[s]) \subseteq seen

\* What is due is dealt with in the end, if extractions do not fail for ever.
EventuallyServed ==
  \A s \in Sessions :
    (Due(s) /\ s \notin interrupted \cup slipped)
      ~> (~Due(s) \/ s \in interrupted \cup slipped)
=============================================================================
