---------------------------- MODULE DialogTurns ----------------------------
(***************************************************************************)
(* The life of dialog turns: DialogScheduler::submit and its outcome       *)
(* handler (agentic/coordination/scheduler.rs), starting, running and      *)
(* cancelling a turn (coordination/coordinator.rs), the session's state    *)
(* (session/session_manager.rs) and the engine's rounds with their         *)
(* cancellation tokens (execution/).                                       *)
(*                                                                         *)
(* A message is named by the turn id it will run under.  What happens      *)
(* between two awaits is one step; an operation of the queue is atomic     *)
(* here, module DialogQueue takes those apart.                             *)
(***************************************************************************)
EXTENDS QueuePriority, FiniteSets

CONSTANTS
    Sessions,
    SessionOf,      \* the session each message is sent to
    ReplyTo,        \* reply_route: the session waiting for its answer, or None
    Interactive,    \* messages of a user, that ask the running turn to yield
    Replies,        \* the ids the answers forwarded by the handler run under
    Slots,          \* bound: executions at once
    Cancels,        \* bound: requests to cancel
    MaxRounds,      \* max_rounds of the engine, retries included
    MaxQueueDepth,  \* MAX_QUEUE_DEPTH
    ChannelSize,    \* capacity of the outcome channel
    MayFail,        \* whether persistence and the other fallible calls fail
    None

Handler == "handler"                    \* run_outcome_handler, one task
Procs   == Messages \cup {Handler}      \* a call of submit has its message's name

ASSUME TurnAssumption ==
    /\ SessionOf \in [Messages -> Sessions]
    /\ ReplyTo \in [Messages -> Sessions \cup {None}]
    /\ Interactive \subseteq Messages /\ Replies \subseteq Messages
    /\ None \notin Messages /\ None \notin Sessions
    /\ None \notin [turn : Messages, msg : Messages]
    /\ Messages \cap {"idle", "error", Handler} = {}
    /\ IsFiniteSet(Messages) /\ IsFiniteSet(Slots)
    /\ MaxRounds \in Nat /\ MaxQueueDepth \in Nat /\ ChannelSize \in Nat
    /\ MayFail \in BOOLEAN

VARIABLES
    \* SessionManager
    state,      \* of each session: Processing (the turn's id), "idle" or "error"
    \* DialogScheduler
    queue,      \* queues
    active,     \* active_turns: the turn found running and the message started, or None
    yield,      \* round_yield_flags: the sessions asked to yield
    suppressed, \* suppressed_cancelled_replies: pairs of a session and a turn
    channel,    \* outcome_tx/outcome_rx
    \* Calls of submit and the handler
    pc,         \* where each is
    msg,        \* the message it is starting, or None
    popped,     \* those that took theirs from the queue
    handling,   \* the outcome the handler is at
    \* ExecutionEngine and RoundExecutor
    run,        \* the spawned tasks
    tokens,     \* cancellation_tokens: turns that have one
    \* Requests to cancel
    cancel,
    \* History
    wedged,     \* turns marked as processing whose start then failed
    disturbed,  \* sessions in which starts have overlapped or a turn was cancelled
    stranded,   \* sessions whose queue was left with nobody to dispatch it
    replies     \* how often an answer to each message was forwarded

sched    == <<active, yield, suppressed>>
calls    == <<pc, msg, popped, handling>>
engine   == <<run, tokens>>
vars     == <<state, queue, sched, channel, calls, engine, cancel,
              wedged, disturbed, stranded, replies>>

Free == [pc |-> "free", turn |-> None, token |-> "none", left |-> 0, kind |-> "none"]
Unused == [pc |-> "unused", s |-> None, turn |-> None, key |-> None]
NoOutcome == [s |-> None, kind |-> "none", reply |-> None]

Kinds == {"completed", "cancelled", "failed"}
SessOf(p) == IF p = Handler THEN handling.s ELSE SessionOf[p]
Processing(s) == state[s] \in Messages
-----------------------------------------------------------------------------
\* A task is executing a turn of s until it has set the session's state.
Live(i) == run[i].pc \in {"begin", "loop", "round", "settle"}
LiveIn(s) == {i \in Slots : Live(i) /\ SessionOf[run[i].turn] = s}
At(p, l, s) == pc[p] = l /\ SessOf(p) = s
Marking(s) == {p \in Procs : At(p, "mark", s)}
Saving(s)  == {p \in Procs : At(p, "save", s)}

\* Something that will look at the queue of s again.
Wakeup(s) ==
    \/ \E i \in Slots : run[i].pc # "free" /\ SessionOf[run[i].turn] = s
    \/ \E k \in DOMAIN channel : channel[k].s = s
    \/ \E p \in Procs : pc[p] \in {"reply", "act", "next", "start", "mark", "save", "resolve"}
                        /\ SessOf(p) = s
    \/ \E c \in Cancels : cancel[c].pc = "notify" /\ cancel[c].s = s

\* A message was put into the queue of s, or a start of s failed, or an
\* outcome was dropped: is there anybody left to dispatch the queue?
Recheck(s) ==
    \E r \in {s} : stranded' = [stranded EXCEPT ![r] = queue'[r] # <<>> /\ (@ \/ ~Wakeup(r)')]
QueueEmptied(s) == stranded' = [stranded EXCEPT ![s] = @ /\ queue'[s] # <<>>]

\* try_send: an outcome that does not fit is dropped.
TrySend(o) == channel' = IF Len(channel) < ChannelSize THEN Append(channel, o) ELSE channel

Enqueue(m) == queue' = [queue EXCEPT ![SessionOf[m]] = Insert(@, m)]
Full(s) == Len(queue[s]) >= MaxQueueDepth
ClearQueue(s) == queue' = [queue EXCEPT ![s] = <<>>]

\* p's call returns; the handler waits for the next outcome.
Return(p) ==
    /\ pc' = [pc EXCEPT ![p] = IF p = Handler THEN "recv" ELSE "done"]
    /\ msg' = [msg EXCEPT ![p] = None]
    /\ popped' = popped \ {p}
    /\ handling' = IF p = Handler THEN NoOutcome ELSE handling
-----------------------------------------------------------------------------
Init ==
    /\ state = [s \in Sessions |-> "idle"]
    /\ queue = [s \in Sessions |-> <<>>]
    /\ active = [s \in Sessions |-> None]
    /\ yield = {}
    /\ suppressed = {}
    /\ channel = <<>>
    /\ pc = [p \in Procs |-> IF p = Handler THEN "recv" ELSE "unsent"]
    /\ msg = [p \in Procs |-> None]
    /\ popped = {}
    /\ handling = NoOutcome
    /\ run = [i \in Slots |-> Free]
    /\ tokens = {}
    /\ cancel = [c \in Cancels |-> Unused]
    /\ wedged = {}
    /\ disturbed = {}
    /\ stranded = [s \in Sessions |-> FALSE]
    /\ replies = [m \in Messages |-> 0]

(* submit *)

\* The session's state is copied; what follows acts on the copy.
Submit(m) ==
    /\ \/ pc[m] = "unsent" /\ m \notin Replies
       \/ pc[m] = "called"
    /\ \/ Processing(SessionOf[m]) /\ pc' = [pc EXCEPT ![m] = "sawProcessing"]
       \/ state[SessionOf[m]] = "idle" /\ pc' = [pc EXCEPT ![m] = "sawIdle"]
       \/ state[SessionOf[m]] = "error" /\ pc' = [pc EXCEPT ![m] = "sawError"]
    /\ UNCHANGED <<state, queue, sched, channel, msg, popped, handling, engine, cancel,
                   wedged, disturbed, stranded, replies>>

\* The queue is full: Err.
Reject(m) ==
    /\ \/ pc[m] = "sawProcessing"
       \/ pc[m] = "sawIdle" /\ queue[SessionOf[m]] # <<>>
    /\ Full(SessionOf[m])
    /\ Return(m)
    /\ UNCHANGED <<state, queue, sched, channel, engine, cancel,
                   wedged, disturbed, stranded, replies>>

\* Processing: enqueue, and ask for a yield if the message is a user's.
QueueUp(m) ==
    /\ pc[m] = "sawProcessing" /\ ~Full(SessionOf[m])
    /\ Enqueue(m)
    /\ yield' = IF m \in Interactive THEN yield \cup {SessionOf[m]} ELSE yield
    /\ Return(m)
    /\ UNCHANGED <<state, active, suppressed, channel, engine, cancel,
                   wedged, disturbed, replies>>
    /\ Recheck(SessionOf[m])

\* Idle with messages waiting: enqueue, then dispatch the first.
QueueUpAndDispatch(m) ==
    /\ pc[m] = "sawIdle" /\ queue[SessionOf[m]] # <<>> /\ ~Full(SessionOf[m])
    /\ Enqueue(m)
    /\ pc' = [pc EXCEPT ![m] = "next"]
    /\ UNCHANGED <<state, sched, channel, msg, popped, handling, engine, cancel,
                   wedged, disturbed, stranded, replies>>

\* Idle with an empty queue, or error, which clears the queue: start it now.
StartAtOnce(m) ==
    /\ \/ pc[m] = "sawIdle" /\ queue[SessionOf[m]] = <<>> /\ queue' = queue
       \/ pc[m] = "sawError" /\ ClearQueue(SessionOf[m])
    /\ pc' = [pc EXCEPT ![m] = "start"]
    /\ msg' = [msg EXCEPT ![m] = m]
    /\ QueueEmptied(SessionOf[m])
    /\ UNCHANGED <<state, sched, channel, popped, handling, engine, cancel,
                   wedged, disturbed, replies>>

(* try_start_next_queued, by a call of submit or by the handler *)

NothingToStart(p) ==
    /\ pc[p] = "next"
    /\ Processing(SessOf(p)) \/ queue[SessOf(p)] = <<>>
    /\ Return(p)
    /\ UNCHANGED <<state, queue, sched, channel, engine, cancel,
                   wedged, disturbed, stranded, replies>>

\* Mutant: the message is read and left in the queue.
DequeueKeeping(p) ==
    /\ pc[p] = "next"
    /\ ~Processing(SessOf(p)) /\ queue[SessOf(p)] # <<>>
    /\ msg' = [msg EXCEPT ![p] = Head(queue[SessOf(p)])]
    /\ popped' = popped \cup {p}
    /\ pc' = [pc EXCEPT ![p] = "start"]
    /\ UNCHANGED <<state, queue, sched, channel, handling, engine, cancel,
                   wedged, disturbed, stranded, replies>>

Dequeue(p) ==
    /\ pc[p] = "next"
    /\ ~Processing(SessOf(p)) /\ queue[SessOf(p)] # <<>>
    /\ msg' = [msg EXCEPT ![p] = Head(queue[SessOf(p)])]
    /\ queue' = [queue EXCEPT ![SessOf(p)] = Tail(@)]
    /\ popped' = popped \cup {p}
    /\ pc' = [pc EXCEPT ![p] = "start"]
    /\ QueueEmptied(SessOf(p))
    /\ UNCHANGED <<state, sched, channel, handling, engine, cancel,
                   wedged, disturbed, replies>>

(* start_turn, and start_dialog_turn of the coordinator and the session manager *)

\* Err: a message taken from the queue goes back to its front.
FailStart(p) ==
    /\ queue' = IF p \in popped THEN [queue EXCEPT ![SessOf(p)] = <<msg[p]>> \o @] ELSE queue
    /\ Return(p)
    /\ UNCHANGED <<state, sched, channel, engine, cancel, disturbed, replies>>

\* Mutant: the session's state is not checked.
AdmitUnchecked(p) ==
    /\ pc[p] = "start"
    /\ pc' = [pc EXCEPT ![p] = "mark"]
    /\ disturbed' = IF Marking(SessOf(p)) # {} THEN disturbed \cup {SessOf(p)} ELSE disturbed
    /\ UNCHANGED <<state, queue, sched, channel, msg, popped, handling, engine, cancel,
                   wedged, stranded, replies>>

\* The session is not processing: its state is checked on a copy and marked later.
Admit(p) ==
    /\ pc[p] = "start" /\ ~Processing(SessOf(p))
    /\ pc' = [pc EXCEPT ![p] = "mark"]
    /\ disturbed' = IF Marking(SessOf(p)) # {} THEN disturbed \cup {SessOf(p)} ELSE disturbed
    /\ UNCHANGED <<state, queue, sched, channel, msg, popped, handling, engine, cancel,
                   wedged, stranded, replies>>

Refuse(p) ==
    /\ pc[p] = "start" /\ Processing(SessOf(p))
    /\ FailStart(p)
    /\ UNCHANGED <<wedged, stranded>>

\* The history of the session or the agent's prompt cannot be prepared.
FailBeforeMark(p) ==
    /\ MayFail /\ pc[p] = "mark"
    /\ FailStart(p)
    /\ Recheck(SessOf(p))
    /\ UNCHANGED wedged

Mark(p) ==
    /\ pc[p] = "mark"
    /\ state' = [state EXCEPT ![SessOf(p)] = msg[p]]
    /\ pc' = [pc EXCEPT ![p] = "save"]
    /\ wedged' = wedged \ {msg[p]}
    /\ UNCHANGED <<queue, sched, channel, msg, popped, handling, engine, cancel,
                   disturbed, stranded, replies>>

\* The session or the turn cannot be saved: the session stays Processing.
FailAfterMark(p) ==
    /\ MayFail /\ pc[p] = "save"
    /\ FailStart(p)
    /\ wedged' = wedged \cup {msg[p]}
    /\ Recheck(SessOf(p))

Spawn(p) ==
    /\ pc[p] = "save"
    /\ \E i \in Slots :
         /\ run[i].pc = "free"
         /\ run' = [run EXCEPT ![i] = [pc |-> "begin", turn |-> msg[p], token |-> "none",
                                       left |-> MaxRounds, kind |-> "none"]]
    /\ pc' = [pc EXCEPT ![p] = "resolve"]
    /\ UNCHANGED <<state, queue, sched, channel, msg, popped, handling, tokens, cancel,
                   wedged, disturbed, stranded, replies>>

\* Whatever turn the session is processing by now is recorded as active.
Resolve(p) ==
    /\ pc[p] = "resolve" /\ Processing(SessOf(p))
    /\ active' = [active EXCEPT ![SessOf(p)] = [turn |-> state[SessOf(p)], msg |-> msg[p]]]
    /\ Return(p)
    /\ UNCHANGED <<state, queue, yield, suppressed, channel, engine, cancel,
                   wedged, disturbed, stranded, replies>>

\* "Failed to resolve turn_id after starting dialog", though it was started.
FailResolve(p) ==
    /\ pc[p] = "resolve" /\ ~Processing(SessOf(p))
    /\ FailStart(p)
    /\ Recheck(SessOf(p))
    /\ UNCHANGED wedged

Start(p) ==
    \/ Admit(p) \/ Refuse(p) \/ FailBeforeMark(p) \/ Mark(p) \/ FailAfterMark(p)
    \/ Spawn(p) \/ Resolve(p) \/ FailResolve(p)

(* run_outcome_handler *)

\* forward_agent_session_reply: the answer goes to whoever waits for the message
\* recorded as active, and is submitted to that session under a fresh id.
Forward(a, r) ==
    /\ r \in Replies /\ pc[r] = "unsent" /\ SessionOf[r] = ReplyTo[a.msg]
    /\ pc' = [pc EXCEPT ![Handler] = "reply", ![r] = "called"]
    /\ replies' = [replies EXCEPT ![a.msg] = @ + 1]

Forwards(o) ==
    /\ active[o.s] # None
    /\ ReplyTo[active[o.s].msg] # None
    /\ ~(o.kind = "cancelled" /\ <<o.s, o.turn>> \in suppressed)

\* Mutant: the entry of active_turns stays.
ReceiveKeepingActive ==
    /\ pc[Handler] = "recv" /\ channel # <<>>
    /\ LET o == Head(channel) IN
         /\ yield' = yield \ {o.s}
         /\ suppressed' = suppressed \ {<<o.s, o.turn>>}
         /\ \/ /\ Forwards(o)
               /\ \E r \in Replies :
                    /\ Forward(active[o.s], r)
                    /\ handling' = [s |-> o.s, kind |-> o.kind, reply |-> r]
            \/ /\ ~Forwards(o)
               /\ pc' = [pc EXCEPT ![Handler] = "act"]
               /\ handling' = [s |-> o.s, kind |-> o.kind, reply |-> None]
               /\ UNCHANGED replies
    /\ channel' = Tail(channel)
    /\ UNCHANGED <<active, state, queue, msg, popped, engine, cancel, wedged, disturbed, stranded>>

Receive ==
    /\ pc[Handler] = "recv" /\ channel # <<>>
    /\ LET o == Head(channel) IN
         /\ yield' = yield \ {o.s}
         /\ suppressed' = suppressed \ {<<o.s, o.turn>>}
         /\ active' = [active EXCEPT ![o.s] = None]
         /\ \/ /\ Forwards(o)
               /\ \E r \in Replies :
                    /\ Forward(active[o.s], r)
                    /\ handling' = [s |-> o.s, kind |-> o.kind, reply |-> r]
            \/ /\ ~Forwards(o)
               /\ pc' = [pc EXCEPT ![Handler] = "act"]
               /\ handling' = [s |-> o.s, kind |-> o.kind, reply |-> None]
               /\ UNCHANGED replies
    /\ channel' = Tail(channel)
    /\ UNCHANGED <<state, queue, msg, popped, engine, cancel, wedged, disturbed, stranded>>

\* submit has returned to forward_agent_session_reply.
Forwarded ==
    /\ pc[Handler] = "reply" /\ pc[handling.reply] = "done"
    /\ pc' = [pc EXCEPT ![Handler] = "act"]
    /\ handling' = [handling EXCEPT !.reply = None]
    /\ UNCHANGED <<state, queue, sched, channel, msg, popped, engine, cancel,
                   wedged, disturbed, stranded, replies>>

\* Mutant: only a cancelled turn has the queue looked at.
DispatchAfterCancel ==
    /\ pc[Handler] = "act" /\ handling.kind # "failed"
    /\ IF handling.kind = "cancelled"
       THEN pc' = [pc EXCEPT ![Handler] = "next"] /\ UNCHANGED <<msg, popped, handling>>
       ELSE Return(Handler)
    /\ UNCHANGED <<state, queue, sched, channel, engine, cancel,
                   wedged, disturbed, stranded, replies>>

\* Completed or cancelled: the queue is looked at.
DispatchNext ==
    /\ pc[Handler] = "act" /\ handling.kind # "failed"
    /\ pc' = [pc EXCEPT ![Handler] = "next"]
    /\ UNCHANGED <<state, queue, sched, channel, msg, popped, handling, engine, cancel,
                   wedged, disturbed, stranded, replies>>

ClearAfterFailure ==
    /\ pc[Handler] = "act" /\ handling.kind = "failed"
    /\ ClearQueue(handling.s)
    /\ QueueEmptied(handling.s)
    /\ Return(Handler)
    /\ UNCHANGED <<state, sched, channel, engine, cancel, wedged, disturbed, replies>>

(* the spawned task, execute_dialog_turn and execute_round *)

Begin(i) ==
    /\ run[i].pc = "begin"
    /\ state' = [state EXCEPT ![SessionOf[run[i].turn]] = run[i].turn]
    /\ run' = [run EXCEPT ![i].pc = "loop"]
    /\ UNCHANGED <<queue, sched, channel, calls, tokens, cancel,
                   wedged, disturbed, stranded, replies>>

\* Mutant: the number of rounds is not looked at.
StartRoundUnlimited(i) ==
    /\ run[i].pc = "loop"
    /\ tokens' = tokens \cup {run[i].turn}
    /\ run' = [run EXCEPT ![i] = [pc |-> "round", turn |-> run[i].turn, token |-> "held",
                                  left |-> run[i].left - 1, kind |-> "none"]]
    /\ UNCHANGED <<state, queue, sched, channel, calls, cancel,
                   wedged, disturbed, stranded, replies>>

\* A round takes the token of its turn, creating it if there is none.
StartRound(i) ==
    /\ run[i].pc = "loop" /\ run[i].left > 0
    /\ tokens' = tokens \cup {run[i].turn}
    /\ run' = [run EXCEPT ![i] = [pc |-> "round", turn |-> run[i].turn, token |-> "held",
                                  left |-> run[i].left - 1, kind |-> "none"]]
    /\ UNCHANGED <<state, queue, sched, channel, calls, cancel,
                   wedged, disturbed, stranded, replies>>

\* execute_dialog_turn returns; its last act is to remove the turn's token, if
\* another execution of the turn is using it too.
Finish(i, kind) ==
    /\ tokens' = tokens \ {run[i].turn}
    /\ run' = [j \in Slots |->
                 IF j = i THEN [pc |-> "settle", turn |-> run[i].turn, token |-> "none",
                                left |-> 0, kind |-> kind]
                 ELSE IF run[j].turn = run[i].turn /\ run[j].token = "held"
                 THEN [run[j] EXCEPT !.token = "stray"]
                 ELSE run[j]]
    /\ UNCHANGED <<state, queue, active, suppressed, channel, calls, cancel,
                   wedged, disturbed, stranded, replies>>

\* Before a round: the limit is reached, or something the round needs fails.
FinishBetweenRounds(i) ==
    /\ run[i].pc = "loop"
    /\ \/ run[i].left = 0 /\ Finish(i, "completed")
       \/ MayFail /\ Finish(i, "failed")
    /\ UNCHANGED yield

\* The model is done, the token is seen to be cancelled, or the round fails.
FinishInRound(i) ==
    /\ run[i].pc = "round"
    /\ \/ Finish(i, "completed")
       \/ run[i].token = "hit" /\ Finish(i, "cancelled")
       \/ MayFail /\ Finish(i, "failed")
    /\ UNCHANGED yield

\* A round to be followed by another: the user's message first, then the token.
FinishAfterRound(i) ==
    /\ run[i].pc = "round"
    /\ LET s == SessionOf[run[i].turn] IN
         \/ /\ s \in yield
            /\ yield' = yield \ {s}
            /\ Finish(i, "completed")
         \/ /\ s \notin yield /\ run[i].turn \notin tokens
            /\ UNCHANGED yield
            /\ Finish(i, "cancelled")

Continue(i) ==
    /\ run[i].pc = "round"
    /\ \/ SessionOf[run[i].turn] \notin yield /\ run[i].turn \in tokens
       \/ MayFail /\ run[i].left > 0      \* the round failed and is tried again
    /\ run' = [run EXCEPT ![i].pc = "loop"]
    /\ UNCHANGED <<state, queue, sched, channel, calls, tokens, cancel,
                   wedged, disturbed, stranded, replies>>

\* Mutant: a cancelled task leaves the state to the one that cancelled it.
SettleUnlessCancelled(i) ==
    /\ run[i].pc = "settle"
    /\ state' = IF run[i].kind = "cancelled" THEN state
                ELSE [state EXCEPT ![SessionOf[run[i].turn]] =
                        IF run[i].kind = "failed" THEN "error" ELSE "idle"]
    /\ run' = [run EXCEPT ![i].pc = "report"]
    /\ UNCHANGED <<queue, sched, channel, calls, tokens, cancel,
                   wedged, disturbed, stranded, replies>>

\* The task sets the session's state, whichever turn the session is at.
Settle(i) ==
    /\ run[i].pc = "settle"
    /\ state' = [state EXCEPT ![SessionOf[run[i].turn]] =
                    IF run[i].kind = "failed" THEN "error" ELSE "idle"]
    /\ run' = [run EXCEPT ![i].pc = "report"]
    /\ UNCHANGED <<queue, sched, channel, calls, tokens, cancel,
                   wedged, disturbed, stranded, replies>>

Report(i) ==
    /\ run[i].pc = "report"
    /\ TrySend([s |-> SessionOf[run[i].turn], turn |-> run[i].turn, kind |-> run[i].kind, by |-> "task"])
    /\ run' = [run EXCEPT ![i] = Free]
    /\ UNCHANGED <<state, queue, sched, calls, tokens, cancel, wedged, disturbed, replies>>
    /\ Recheck(SessionOf[run[i].turn])

Execute(i) ==
    \/ Begin(i) \/ StartRound(i) \/ FinishBetweenRounds(i) \/ FinishInRound(i)
    \/ FinishAfterRound(i) \/ Continue(i) \/ Settle(i) \/ Report(i)

(* cancel_dialog_turn, cancel_active_turn_for_session[_from_requester] *)

\* A client names the turn: one whose task has not reported yet as it asks.
AskToCancel(c) ==
    /\ cancel[c].pc = "unused"
    /\ \E i \in Slots :
         /\ run[i].pc # "free"
         /\ cancel' = [cancel EXCEPT ![c] =
                [pc |-> "idle", s |-> SessionOf[run[i].turn], turn |-> run[i].turn, key |-> None]]
    /\ UNCHANGED <<state, queue, sched, channel, calls, engine,
                   wedged, disturbed, stranded, replies>>

\* A session q cancels whatever runs in s; its own request is not to be answered.
AskFromSession(c) ==
    /\ cancel[c].pc = "unused"
    /\ \E s, q \in Sessions :
         LET mine == active[s] # None /\ ReplyTo[active[s].msg] = q IN
         /\ suppressed' = IF mine THEN suppressed \cup {<<s, active[s].turn>>} ELSE suppressed
         /\ cancel' = [cancel EXCEPT ![c] =
                [pc |-> "find", s |-> s, turn |-> None, key |-> IF mine THEN active[s].turn ELSE None]]
    /\ UNCHANGED <<state, queue, active, yield, channel, calls, engine,
                   wedged, disturbed, stranded, replies>>

DropKey(c) == suppressed' = suppressed \ {<<cancel[c].s, cancel[c].key>>}
GiveUp(c) == cancel' = [cancel EXCEPT ![c] = [Unused EXCEPT !.pc = "failed"]]

FindActive(c) ==
    /\ cancel[c].pc = "find"
    /\ Processing(cancel[c].s)
    /\ cancel' = [cancel EXCEPT ![c] = [@ EXCEPT !.pc = "idle", !.turn = state[cancel[c].s]]]
    /\ UNCHANGED <<state, queue, sched, channel, calls, engine,
                   wedged, disturbed, stranded, replies>>

FindNothing(c) ==
    /\ cancel[c].pc = "find"
    /\ ~Processing(cancel[c].s)
    /\ DropKey(c)
    /\ GiveUp(c)
    /\ UNCHANGED <<state, queue, active, yield, channel, calls, engine,
                   wedged, disturbed, stranded, replies>>

\* Step 1: the session is idle, whichever turn it is at.
SetIdle(c) ==
    /\ cancel[c].pc = "idle"
    /\ state' = [state EXCEPT ![cancel[c].s] = "idle"]
    /\ disturbed' = disturbed \cup {cancel[c].s}
    /\ cancel' = [cancel EXCEPT ![c].pc = "notify"]
    /\ UNCHANGED <<queue, sched, channel, calls, engine, wedged, stranded, replies>>

\* The state is set and cannot be saved: Err, and nothing of what follows.
SetIdleUnsaved(c) ==
    /\ MayFail /\ cancel[c].pc = "idle"
    /\ state' = [state EXCEPT ![cancel[c].s] = "idle"]
    /\ disturbed' = disturbed \cup {cancel[c].s}
    /\ DropKey(c)
    /\ GiveUp(c)
    /\ UNCHANGED <<queue, active, yield, channel, calls, engine, wedged, replies>>
    /\ Recheck(cancel[c].s)

\* Step 3: the scheduler is told before the turn has stopped.
Notify(c) ==
    /\ cancel[c].pc = "notify"
    /\ TrySend([s |-> cancel[c].s, turn |-> cancel[c].turn, kind |-> "cancelled", by |-> "cancel"])
    /\ cancel' = [cancel EXCEPT ![c].pc = "stop"]
    /\ UNCHANGED <<state, queue, sched, calls, engine, wedged, disturbed, replies>>
    /\ Recheck(cancel[c].s)

\* Step 4, a task of its own: the turn's token is removed and cancelled, if it has one.
Stop(c) ==
    /\ cancel[c].pc = "stop"
    /\ tokens' = tokens \ {cancel[c].turn}
    /\ run' = [i \in Slots |->
                 IF run[i].turn = cancel[c].turn /\ run[i].token = "held"
                 THEN [run[i] EXCEPT !.token = "hit"] ELSE run[i]]
    /\ cancel' = [cancel EXCEPT ![c] = [Unused EXCEPT !.pc = "done", !.turn = cancel[c].turn]]
    /\ UNCHANGED <<state, queue, sched, channel, calls,
                   wedged, disturbed, stranded, replies>>

CancelStep(c) ==
    \/ FindActive(c) \/ FindNothing(c) \/ SetIdle(c) \/ SetIdleUnsaved(c) \/ Notify(c) \/ Stop(c)
-----------------------------------------------------------------------------
SubmitStep(m) ==
    Submit(m) \/ Reject(m) \/ QueueUp(m) \/ QueueUpAndDispatch(m) \/ StartAtOnce(m)

DispatchStep(p) == NothingToStart(p) \/ Dequeue(p) \/ Start(p)

HandlerStep == Receive \/ Forwarded \/ DispatchNext \/ ClearAfterFailure

\* Every message sent has been dealt with and no task is left.
Finished ==
    /\ \A m \in Messages \ Replies : pc[m] = "done"
    /\ \A m \in Replies : pc[m] \in {"unsent", "done"}
    /\ pc[Handler] = "recv" /\ channel = <<>>
    /\ \A i \in Slots : run[i].pc = "free"
    /\ \A c \in Cancels : cancel[c].pc \in {"unused", "failed", "done"}
    /\ UNCHANGED vars

Next ==
    \/ \E m \in Messages : SubmitStep(m)
    \/ \E p \in Procs : DispatchStep(p)
    \/ HandlerStep
    \/ \E i \in Slots : Execute(i)
    \/ \E c \in Cancels : AskToCancel(c) \/ AskFromSession(c) \/ CancelStep(c)
    \/ Finished

Spec == Init /\ [][Next]_vars

\* tokio polls every spawned task: a call that is starting a turn goes on, and
\* so does the task that executes one.  Nothing is assumed of clients, who need
\* not send or cancel anything, nor of the outcome handler.
Fairness ==
    /\ \A p \in Procs : WF_vars(DispatchStep(p))
    /\ \A i \in Slots : WF_vars(Execute(i))

FairSpec == Spec /\ Fairness
-----------------------------------------------------------------------------
RunType == [pc : {"free", "begin", "loop", "round", "settle", "report"},
            turn : Messages \cup {None}, token : {"none", "held", "hit", "stray"},
            left : 0..MaxRounds, kind : Kinds \cup {"none"}]

CancelType == [pc : {"unused", "find", "idle", "notify", "stop", "done", "failed"},
               s : Sessions \cup {None}, turn : Messages \cup {None}, key : Messages \cup {None}]

OutcomeType == [s : Sessions, turn : Messages, kind : Kinds, by : {"task", "cancel"}]

TypeOK ==
    /\ state \in [Sessions -> Messages \cup {"idle", "error"}]
    /\ queue \in [Sessions -> Seq(Messages)]
    /\ active \in [Sessions -> [turn : Messages, msg : Messages] \cup {None}]
    /\ yield \subseteq Sessions
    /\ suppressed \subseteq Sessions \X Messages
    /\ channel \in Seq(OutcomeType)
    /\ pc \in [Procs -> {"unsent", "called", "sawProcessing", "sawIdle", "sawError", "next",
                         "start", "mark", "save", "resolve", "done", "recv", "reply", "act"}]
    /\ msg \in [Procs -> Messages \cup {None}]
    /\ popped \subseteq Procs
    /\ handling \in [s : Sessions \cup {None}, kind : Kinds \cup {"none"},
                     reply : Messages \cup {None}]
    /\ run \in [Slots -> RunType]
    /\ tokens \subseteq Messages
    /\ cancel \in [Cancels -> CancelType]
    /\ wedged \subseteq Messages
    /\ disturbed \subseteq Sessions
    /\ stranded \in [Sessions -> BOOLEAN]
    /\ replies \in [Messages -> Nat]

\* A session that is Processing has somebody who will set it to something
\* else: the task executing that very turn, or the call about to spawn it.
\* The only exception is a start that failed between marking the session and
\* spawning the task, however starts, tasks and cancels overlap.
ProcessingHasOwner ==
    \A s \in Sessions : Processing(s) =>
        \/ \E i \in LiveIn(s) : run[i].turn = state[s]
        \/ \E p \in Saving(s) : msg[p] = state[s]
        \/ state[s] \in wedged

\* Checking the session's state and marking it are not one step, and a cancel
\* frees the session before the turn has stopped.  As long as neither has
\* happened in a session, it never executes two turns at once.
OneTurnUnlessDisturbed ==
    \A s \in Sessions \ disturbed :
        /\ \A i, j \in LiveIn(s) : i = j
        /\ \A p, q \in Marking(s) \cup Saving(s) : p = q
        /\ LiveIn(s) # {} => Marking(s) \cup Saving(s) = {}

\* A message waits in a queue only if something will look at the queue again,
\* or if it got there, or a start failed, or an outcome was dropped, after the
\* last of those had gone; or if the session is stuck in a failed start.
QueueHasWakeup ==
    \A s \in Sessions : queue[s] # <<>> =>
        Wakeup(s) \/ stranded[s] \/ state[s] \in wedged

\* However often a message is executed, put back and executed again, and
\* whatever the outcomes of other turns remove from active_turns: the session
\* that waits for its answer is answered at most once.
AnsweredAtMostOnce == \A m \in Messages : replies[m] <= 1

\* Where a message is: still with its caller, in its queue, held by a call that
\* is starting it, or the one its session's entry of active_turns names.
Before      == {"unsent", "called", "sawProcessing", "sawIdle", "sawError"}
InQueue(m)  == m \in ToSet(queue[SessionOf[m]])
Recorded(m) == active[SessionOf[m]] # None /\ active[SessionOf[m]].msg = m
Held(m)     == \E p \in Procs : msg[p] = m

Place(m) ==
    IF pc[m] \in Before THEN "caller"
    ELSE IF Held(m)      THEN "starting"
    ELSE IF InQueue(m)   THEN "queued"
    ELSE IF Recorded(m)  THEN "recorded"
    ELSE "over"

\* Each message goes the way that MessageLife describes, through starts that
\* overlap and fail, cancellations, and outcomes that are late, doubled or lost.
Life == INSTANCE MessageLife WITH
    place   <- [m \in Messages |-> Place(m)],
    answers <- replies,
    Awaited <- {m \in Messages : ReplyTo[m] # None}
FollowsLife == Life!LifeSpec

\* A token never outlives the executions of its turn: cancel removes it, a
\* retry may create it again, the end of the execution removes it for good.
TokensHaveExecution ==
    \A t \in tokens : \E i \in Slots : run[i].turn = t /\ run[i].pc \in {"loop", "round"}

\* No turn keeps its session for ever: the session is free again and again,
\* unless the start of the turn failed after it was marked.
EventuallyReleased ==
    \A s \in Sessions : []<>(~Processing(s) \/ state[s] \in wedged)
=============================================================================
