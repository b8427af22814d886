---------------------------- MODULE ToolPipeline ----------------------------
(***************************************************************************)
(* The tool calls of one round, from execute_tools to their results        *)
(* (agentic/tools/pipeline/tool_pipeline.rs, state_manager.rs, types.rs),  *)
(* with the user and the coordinator confirming, rejecting and cancelling  *)
(* them meanwhile.                                                         *)
(*                                                                         *)
(* execute_single_tool works on a copy of the task; requests look up the   *)
(* task, its token and its confirmation channel in three maps, one after   *)
(* the other, and write the task's state last.  No lock spans two of these *)
(* accesses, so each of them is a step.                                    *)
(***************************************************************************)
EXTENDS Integers, FiniteSets

CONSTANTS
    N,           \* the round's calls are 1 .. N, in the order of the model's answer
    Asks,        \* calls for which confirm_before_run and needs_permissions hold
    Streams,     \* calls whose tool supports_streaming
    Faulty,      \* calls that may be malformed, not allowed or of an unknown tool
    MaxRetries,  \* max_retries
    Requests,    \* requests of users and of the coordinator meanwhile ...
    Kinds        \* ... each of any of these kinds

ASSUME PipelineAssumption ==
    /\ N \in Nat
    /\ Asks \subseteq 1 .. N /\ Streams \subseteq 1 .. N /\ Faulty \subseteq 1 .. N
    /\ MaxRetries \in Nat
    /\ Kinds \subseteq {"confirm", "edit", "reject", "cancel", "cancelTurn"}

Calls == 1 .. N

VARIABLES
    \* ToolStateManager::tasks
    state,     \* ToolTask::state of each call
    args,      \* ToolTask::tool_call.arguments: as the model wrote them or edited
    \* ToolPipeline
    tokens,    \* cancellation_tokens: calls that have one in the map
    channels,  \* confirmation_channels: calls that have a sender in the map
    \* execute_single_tool, one for each call
    pc,        \* where it is
    hit,       \* calls whose token was cancelled
    answer,    \* what the receiver of the confirmation has got
    used,      \* the arguments in the copy of the task
    attempts,  \* execute_with_retry: attempts started
    result,    \* how it ended
    \* the requests
    op,        \* where each is: [pc, kind, call, todo]
    \* ToolExecutionOptions
    timed,     \* whether confirmation_timeout_secs is set
    \* execute_tools
    safe,      \* concurrency_flags: calls whose tool is_concurrency_safe
    \* history
    spent,     \* attempts started when the token was cancelled
    early      \* calls whose cancellation looked for a channel that was not open yet

taskVars == <<state, args>>
mapVars  == <<tokens, channels>>
runVars  == <<pc, hit, answer, used, attempts, result>>
given    == <<timed, safe>>
history  == <<spent, early>>
vars == <<taskVars, mapVars, runVars, op, given, history>>

Terminal  == {"Completed", "Failed", "Cancelled"}
States    == {"Queued", "AwaitingConfirmation", "Running", "Streaming"} \cup Terminal
Stages    == {"queued", "taken", "opening", "asking", "waiting", "checking", "starting",
              "retrying", "calling", "cleaning", "finishing", "done"}
Endings   == {"none", "invalid", "unregistered", "rejected", "closed", "timeout",
              "ok", "error", "cancelled"}
OpStages  == {"idle", "turn", "token", "channel", "state", "answer", "ok", "failed"}
Idle      == [pc |-> "idle", kind |-> "none", call |-> 0, todo |-> {}]
Ops       == [pc : OpStages, kind : Kinds \cup {"none"}, call : Calls \cup {0}, todo : SUBSET Calls]
-----------------------------------------------------------------------------
\* partition_tool_batches: a safe call joins the batch of the one before it if
\* that is safe too, any other call opens a batch of its own.
OpensBatch(c) == ~({c - 1, c} \subseteq safe)
InLaterBatch(c, d) == \E e \in d + 1 .. c : OpensBatch(e)

\* Mutant: the batches are started in order but not awaited.
CurrentSpawned(c) == \A d \in Calls : InLaterBatch(c, d) => pc[d] # "queued"

\* Mutant: a batch is over when the states of its tasks say so.
CurrentByState(c) == \A d \in Calls : InLaterBatch(c, d) => state[d] \in Terminal

\* Batches are awaited one after the other.
Current(c) == \A d \in Calls : InLaterBatch(c, d) => pc[d] = "done"

\* update_state
SetState(c, s) == state' = [state EXCEPT ![c] = s]
Goto(c, stage) == pc' = [pc EXCEPT ![c] = stage]
End(c, how) == Goto(c, "done") /\ result' = [result EXCEPT ![c] = how]
-----------------------------------------------------------------------------
\* execute_tools has created the tasks of all calls.
Init ==
    /\ state = [c \in Calls |-> "Queued"]
    /\ args = [c \in Calls |-> "model"]
    /\ tokens = {} /\ channels = {} /\ hit = {} /\ early = {}
    /\ pc = [c \in Calls |-> "queued"]
    /\ answer = [c \in Calls |-> "none"]
    /\ used = [c \in Calls |-> "none"]
    /\ attempts = [c \in Calls |-> 0]
    /\ spent = [c \in Calls |-> 0]
    /\ result = [c \in Calls |-> "none"]
    /\ op = [r \in Requests |-> Idle]
    /\ timed \in BOOLEAN /\ safe \in SUBSET Calls

\* execute_single_tool copies the task when its batch's turn has come.
Take(c) ==
    /\ pc[c] = "queued" /\ Current(c)
    /\ used' = [used EXCEPT ![c] = args[c]]
    /\ Goto(c, "taken")
    /\ UNCHANGED <<taskVars, mapVars, hit, answer, attempts, result, op, history, given>>

\* Its first returns: no name, malformed arguments, a tool that is not allowed
\* or is restricted.
Refuse(c) ==
    /\ pc[c] = "taken" /\ c \in Faulty
    /\ SetState(c, "Failed")
    /\ End(c, "invalid")
    /\ UNCHANGED <<args, mapVars, hit, answer, used, attempts, op, history, given>>

\* The token is in the map before the tool is looked up, and stays there.
NotRegistered(c) ==
    /\ pc[c] = "taken" /\ c \in Faulty
    /\ tokens' = tokens \cup {c}
    /\ End(c, "unregistered")
    /\ UNCHANGED <<taskVars, channels, hit, answer, used, attempts, op, history, given>>

\* The token is inserted and the tool found.
Begin(c) ==
    /\ pc[c] = "taken"
    /\ tokens' = tokens \cup {c}
    /\ Goto(c, IF c \in Asks THEN "opening" ELSE "checking")
    /\ UNCHANGED <<taskVars, channels, hit, answer, used, attempts, result, op, history, given>>

OpenChannel(c) ==
    /\ pc[c] = "opening"
    /\ channels' = channels \cup {c}
    /\ Goto(c, "asking")
    /\ UNCHANGED <<taskVars, tokens, hit, answer, used, attempts, result, op, history, given>>

AskUser(c) ==
    /\ pc[c] = "asking"
    /\ SetState(c, "AwaitingConfirmation")
    /\ Goto(c, "waiting")
    /\ UNCHANGED <<args, mapVars, hit, answer, used, attempts, result, op, history, given>>

\* The removal of the channel that follows finds none: confirm_tool took it.
Confirmed(c) ==
    /\ pc[c] = "waiting" /\ answer[c] = "confirmed"
    /\ channels' = channels \ {c}
    /\ Goto(c, "checking")
    /\ UNCHANGED <<taskVars, tokens, hit, answer, used, attempts, result, op, history, given>>

\* Mutant: the return of the branch is missing.
RejectedButRun(c) ==
    /\ pc[c] = "waiting" /\ answer[c] = "rejected"
    /\ SetState(c, "Cancelled")
    /\ Goto(c, "checking")
    /\ UNCHANGED <<args, mapVars, hit, answer, used, attempts, result, op, history, given>>

\* The user rejected it; the token stays in the map.
Rejected(c) ==
    /\ pc[c] = "waiting" /\ answer[c] = "rejected"
    /\ SetState(c, "Cancelled")
    /\ End(c, "rejected")
    /\ UNCHANGED <<args, mapVars, hit, answer, used, attempts, op, history, given>>

\* cancel_tool dropped the sender.
Closed(c) ==
    /\ pc[c] = "waiting" /\ answer[c] = "closed"
    /\ SetState(c, "Cancelled")
    /\ End(c, "closed")
    /\ UNCHANGED <<args, mapVars, hit, answer, used, attempts, op, history, given>>

\* No answer in time; the sender and the token stay in their maps.
TimedOut(c) ==
    /\ timed
    /\ pc[c] = "waiting" /\ answer[c] = "none"
    /\ SetState(c, "Cancelled")
    /\ End(c, "timeout")
    /\ UNCHANGED <<args, mapVars, hit, answer, used, attempts, op, history, given>>

\* The token is looked at before the call is marked as running.
CancelledBefore(c) ==
    /\ pc[c] = "checking" /\ c \in hit
    /\ SetState(c, "Cancelled")
    /\ tokens' = tokens \ {c}
    /\ End(c, "cancelled")
    /\ UNCHANGED <<args, channels, hit, answer, used, attempts, op, history, given>>

PassCheck(c) ==
    /\ pc[c] = "checking" /\ c \notin hit
    /\ Goto(c, "starting")
    /\ UNCHANGED <<taskVars, mapVars, hit, answer, used, attempts, result, op, history, given>>

SetRunning(c) ==
    /\ pc[c] = "starting"
    /\ SetState(c, IF c \in Streams THEN "Streaming" ELSE "Running")
    /\ Goto(c, "retrying")
    /\ UNCHANGED <<args, mapVars, hit, answer, used, attempts, result, op, history, given>>

\* execute_with_retry at the head of its loop: the token was cancelled.
GiveUp(c) ==
    /\ pc[c] = "retrying" /\ c \in hit
    /\ Goto(c, "cleaning")
    /\ result' = [result EXCEPT ![c] = "cancelled"]
    /\ UNCHANGED <<taskVars, mapVars, hit, answer, used, attempts, op, history, given>>

\* Mutant: the token is looked at before the loop only.
AttemptUnchecked(c) ==
    /\ pc[c] = "retrying" /\ (attempts[c] = 0 => c \notin hit)
    /\ attempts' = [attempts EXCEPT ![c] = @ + 1]
    /\ Goto(c, "calling")
    /\ UNCHANGED <<taskVars, mapVars, hit, answer, used, result, op, history, given>>

\* execute_tool_impl is entered and passes its own check: tool.call runs, with
\* the arguments of the copy.
Attempt(c) ==
    /\ pc[c] = "retrying" /\ c \notin hit
    /\ attempts' = [attempts EXCEPT ![c] = @ + 1]
    /\ Goto(c, "calling")
    /\ UNCHANGED <<taskVars, mapVars, hit, answer, used, result, op, history, given>>

\* The tool returns; its chunks, if it has several, set the state once more.
Succeed(c) ==
    /\ pc[c] = "calling"
    /\ \/ UNCHANGED state
       \/ c \in Streams /\ SetState(c, "Streaming")
    /\ result' = [result EXCEPT ![c] = "ok"]
    /\ Goto(c, "cleaning")
    /\ UNCHANGED <<args, mapVars, hit, answer, used, attempts, op, history, given>>

\* Mutant: one retry too many.
RetryOnceMore(c) ==
    /\ pc[c] = "calling" /\ attempts[c] <= MaxRetries + 1
    /\ Goto(c, "retrying")
    /\ UNCHANGED <<taskVars, mapVars, hit, answer, used, attempts, result, op, history, given>>

\* The tool fails, takes too long, or heeds its token: every error is retried.
Retry(c) ==
    /\ pc[c] = "calling" /\ attempts[c] <= MaxRetries
    /\ Goto(c, "retrying")
    /\ UNCHANGED <<taskVars, mapVars, hit, answer, used, attempts, result, op, history, given>>

\* The last attempt failed.
Fail(c) ==
    /\ pc[c] = "calling" /\ attempts[c] > MaxRetries
    /\ result' = [result EXCEPT ![c] = "error"]
    /\ Goto(c, "cleaning")
    /\ UNCHANGED <<taskVars, mapVars, hit, answer, used, attempts, op, history, given>>

\* The last attempt ended because the tool saw its token cancelled.
Heed(c) ==
    /\ pc[c] = "calling" /\ attempts[c] > MaxRetries /\ c \in hit
    /\ result' = [result EXCEPT ![c] = "cancelled"]
    /\ Goto(c, "cleaning")
    /\ UNCHANGED <<taskVars, mapVars, hit, answer, used, attempts, op, history, given>>

\* Mutant: the token is dropped for a call that succeeded only.
CleanSuccess(c) ==
    /\ pc[c] = "cleaning"
    /\ tokens' = IF result[c] = "ok" THEN tokens \ {c} ELSE tokens
    /\ Goto(c, "finishing")
    /\ UNCHANGED <<taskVars, channels, hit, answer, used, attempts, result, op, history, given>>

Clean(c) ==
    /\ pc[c] = "cleaning"
    /\ tokens' = tokens \ {c}
    /\ Goto(c, "finishing")
    /\ UNCHANGED <<taskVars, channels, hit, answer, used, attempts, result, op, history, given>>

\* Mutant: the branch that preserves Cancelled is missing.
FinishAsFailed(c) ==
    /\ pc[c] = "finishing"
    /\ SetState(c, IF result[c] = "ok" THEN "Completed" ELSE "Failed")
    /\ Goto(c, "done")
    /\ UNCHANGED <<args, mapVars, hit, answer, used, attempts, result, op, history, given>>

\* The final state is written over whatever the state is.
Finish(c) ==
    /\ pc[c] = "finishing"
    /\ SetState(c, CASE result[c] = "ok"        -> "Completed"
                     [] result[c] = "cancelled" -> "Cancelled"
                     [] OTHER                   -> "Failed")
    /\ Goto(c, "done")
    /\ UNCHANGED <<args, mapVars, hit, answer, used, attempts, result, op, history, given>>

Execute(c) ==
    \/ Take(c) \/ Refuse(c) \/ NotRegistered(c) \/ Begin(c)
    \/ OpenChannel(c) \/ AskUser(c)
    \/ Confirmed(c) \/ Rejected(c) \/ Closed(c) \/ TimedOut(c)
    \/ CancelledBefore(c) \/ PassCheck(c) \/ SetRunning(c)
    \/ GiveUp(c) \/ Attempt(c) \/ Succeed(c) \/ Retry(c) \/ Fail(c) \/ Heed(c)
    \/ Clean(c) \/ Finish(c)
-----------------------------------------------------------------------------
Moved(r, stage) == op' = [op EXCEPT ![r] = [@ EXCEPT !.pc = stage]]

\* confirm_tool and reject_tool find the call waiting for the user ...
Answering(r, c) ==
    /\ op[r].pc = "idle"
    /\ state[c] = "AwaitingConfirmation"
    /\ \E kind \in Kinds \cap {"confirm", "edit", "reject"} :
         op' = [op EXCEPT ![r] = [pc |-> "answer", kind |-> kind, call |-> c, todo |-> {}]]
    /\ UNCHANGED <<taskVars, mapVars, runVars, history, given>>

\* The oneshot's send: without effect once the receiver is gone.
Send(c, what) ==
    answer' = IF pc[c] \in {"asking", "waiting"} THEN [answer EXCEPT ![c] = what] ELSE answer

\* ... confirm_tool stores the edited arguments in the map, takes the sender
\* and answers ...
Confirm(r) ==
    LET c == op[r].call IN
    /\ op[r].pc = "answer" /\ op[r].kind \in {"confirm", "edit"}
    /\ args' = IF op[r].kind = "edit" THEN [args EXCEPT ![c] = "user"] ELSE args
    /\ channels' = channels \ {c}
    /\ IF c \in channels THEN Send(c, "confirmed") /\ Moved(r, "ok")
                         ELSE UNCHANGED answer /\ Moved(r, "failed")
    /\ UNCHANGED <<state, tokens, pc, hit, used, attempts, result, history, given>>

\* ... reject_tool takes the sender and answers, and where there is none any
\* more sets the state itself and reports success all the same.
Reject(r) ==
    LET c == op[r].call IN
    /\ op[r].pc = "answer" /\ op[r].kind = "reject"
    /\ channels' = channels \ {c}
    /\ IF c \in channels THEN Send(c, "rejected") /\ UNCHANGED state
                         ELSE UNCHANGED answer /\ SetState(c, "Cancelled")
    /\ Moved(r, "ok")
    /\ UNCHANGED <<args, tokens, pc, hit, used, attempts, result, history, given>>

\* cancel_tool: the call is not in a terminal state.
Cancelling(r, c) ==
    /\ op[r].pc = "idle" /\ "cancel" \in Kinds
    /\ state[c] \notin Terminal
    /\ op' = [op EXCEPT ![r] = [pc |-> "token", kind |-> "cancel", call |-> c, todo |-> {}]]
    /\ UNCHANGED <<taskVars, mapVars, runVars, history, given>>

\* cancel_dialog_turn_tools: the calls it will cancel are those that can be,
\* Streaming ones not among them, by a copy of the tasks.
CancellingTurn(r) ==
    /\ op[r].pc = "idle" /\ "cancelTurn" \in Kinds
    /\ op' = [op EXCEPT ![r] = [pc |-> "turn", kind |-> "cancelTurn", call |-> 0,
               todo |-> {c \in Calls : state[c] \in {"Queued", "Running", "AwaitingConfirmation"}}]]
    /\ UNCHANGED <<taskVars, mapVars, runVars, history, given>>

\* The next of them, in the order of the map; cancel_tool ignores one that has
\* ended meanwhile.
CancelNext(r, c) ==
    /\ op[r].pc = "turn" /\ c \in op[r].todo
    /\ op' = [op EXCEPT ![r] = [pc   |-> IF state[c] \in Terminal THEN "turn" ELSE "token",
                                kind |-> "cancelTurn", call |-> c, todo |-> @.todo \ {c}]]
    /\ UNCHANGED <<taskVars, mapVars, runVars, history, given>>

TurnCancelled(r) ==
    /\ op[r].pc = "turn" /\ op[r].todo = {}
    /\ Moved(r, "ok")
    /\ UNCHANGED <<taskVars, mapVars, runVars, history, given>>

\* cancel_tool: "1. Trigger cancellation token", if there is one.
CancelToken(r) ==
    LET c == op[r].call IN
    /\ op[r].pc = "token"
    /\ tokens' = tokens \ {c}
    /\ IF c \in tokens /\ pc[c] # "done"
       THEN /\ hit' = hit \cup {c}
            /\ spent' = [spent EXCEPT ![c] = attempts[c]]
       ELSE UNCHANGED <<hit, spent>>
    /\ Moved(r, "channel")
    /\ UNCHANGED <<taskVars, channels, pc, answer, used, attempts, result, early, given>>

\* Mutant: the channel is left to the timeout.
KeepChannel(r) ==
    /\ op[r].pc = "channel"
    /\ Moved(r, "state")
    /\ UNCHANGED <<taskVars, mapVars, runVars, history, given>>

\* cancel_tool: "2. Clean up confirmation channel", whose receiver then fails.
DropChannel(r) ==
    LET c == op[r].call IN
    /\ op[r].pc = "channel"
    /\ channels' = channels \ {c}
    /\ IF c \in channels THEN Send(c, "closed") ELSE UNCHANGED answer
    /\ early' = IF pc[c] = "opening" THEN early \cup {c} ELSE early
    /\ Moved(r, "state")
    /\ UNCHANGED <<taskVars, tokens, pc, hit, used, attempts, result, spent, given>>

\* cancel_tool: "3. Update state to cancelled".
MarkCancelled(r) ==
    /\ op[r].pc = "state"
    /\ SetState(op[r].call, "Cancelled")
    /\ Moved(r, IF op[r].kind = "cancelTurn" THEN "turn" ELSE "ok")
    /\ UNCHANGED <<args, mapVars, runVars, history, given>>

Continue(r) ==
    \/ Confirm(r) \/ Reject(r)
    \/ \E c \in Calls : CancelNext(r, c)
    \/ TurnCancelled(r) \/ CancelToken(r) \/ DropChannel(r) \/ MarkCancelled(r)

Request(r) ==
    \/ \E c \in Calls : Answering(r, c) \/ Cancelling(r, c)
    \/ CancellingTurn(r)
    \/ Continue(r)

\* All calls have ended, or wait for a user who does not answer.
Rest ==
    /\ \A c \in Calls :
         \/ pc[c] = "done"
         \/ pc[c] = "waiting" /\ answer[c] = "none"
         \/ pc[c] = "queued" /\ ~Current(c)
    /\ UNCHANGED vars

Next ==
    \/ \E c \in Calls : Execute(c)
    \/ \E r \in Requests : Request(r)
    \/ Rest

Spec == Init /\ [][Next]_vars

\* tokio polls the round's task, and the task of a request that was made, until
\* they are finished; tools end, at their timeout if not before.  Nobody has to
\* make a request.
Fairness ==
    /\ \A c \in Calls : WF_vars(Execute(c))
    /\ \A r \in Requests : WF_vars(Continue(r))

FairSpec == Spec /\ Fairness
-----------------------------------------------------------------------------
TypeOK ==
    /\ state \in [Calls -> States]
    /\ args \in [Calls -> {"model", "user"}]
    /\ tokens \subseteq Calls /\ channels \subseteq Calls
    /\ pc \in [Calls -> Stages]
    /\ hit \subseteq Calls
    /\ answer \in [Calls -> {"none", "confirmed", "rejected", "closed"}]
    /\ used \in [Calls -> {"none", "model", "user"}]
    /\ attempts \in [Calls -> 0 .. MaxRetries + 1]
    /\ result \in [Calls -> Endings]
    /\ op \in [Requests -> Ops]
    /\ spent \in [Calls -> 0 .. MaxRetries + 1]
    /\ early \subseteq Calls
    /\ timed \in BOOLEAN /\ safe \subseteq Calls

Replied(kinds, c) == \E r \in Requests : op[r].kind \in kinds /\ op[r].pc = "ok" /\ op[r].call = c

\* A call that needs the user's consent runs only if a confirmation of it was
\* accepted, whatever rejections, cancellations, timeouts and second answers
\* come before, between or after.
NothingRunsUnconfirmed ==
    \A c \in Asks : attempts[c] > 0 => Replied({"confirm", "edit"}, c)

\* The token is looked at before each attempt, so a cancellation that found it
\* starts nothing any more: neither the first attempt nor a retry.
StoppedStartsNothing == \A c \in hit : attempts[c] = spent[c]

\* cancellation_tokens and confirmation_channels do not pile up, but for the
\* returns that leave a token behind (an unregistered tool, a rejection, a
\* timeout, and a channel closed by a cancellation that had looked for the
\* token too early) and the one that leaves a sender (a timeout).
LeftBehind ==
    /\ \A c \in tokens : pc[c] = "done" =>
         result[c] \in {"unregistered", "rejected", "timeout", "closed"}
    /\ \A c \in channels : pc[c] \in {"asking", "waiting"} \/ result[c] = "timeout"

\* A request that may have written Cancelled into the task.
Interfered(c) ==
    \E r \in Requests :
      \/ op[r].kind = "cancelTurn" /\ op[r].pc # "idle"
      \/ op[r].kind = "cancel" /\ op[r].call = c
      \/ op[r].kind = "reject" /\ op[r].pc = "ok" /\ op[r].call = c

\* What is shown of a call that has ended agrees with the result the model
\* gets, unless a request that looked at the task earlier wrote Cancelled over
\* it.  In particular a cancelled call is never shown as failed or completed,
\* and none but an unregistered one as still to come.
StatusTellsEnd ==
    \A c \in Calls : pc[c] = "done" =>
      LET shown == CASE result[c] = "ok"                 -> "Completed"
                     [] result[c] \in {"invalid", "error"} -> "Failed"
                     [] result[c] = "unregistered"       -> "Queued"
                     [] OTHER                            -> "Cancelled"
      IN state[c] = shown \/ (state[c] = "Cancelled" /\ Interfered(c))

\* The calls follow the schedule that execute_tools documents.
Schedule == INSTANCE ToolSchedule WITH phase <-
    [c \in Calls |-> CASE pc[c] = "queued" -> "waits"
                       [] pc[c] = "done"   -> "ended"
                       [] OTHER            -> "runs"]
FollowsSchedule == Schedule!ScheduleSpec

\* Where confirmations time out, every call of the model gets its result, as
\* round_executor.rs:457 has it ("always receives a tool_result for every tool_call"),
\* whatever is confirmed, rejected and cancelled meanwhile.
EveryCallEnds == timed => \A c \in Calls : <>(pc[c] = "done")

\* A call whose token was cancelled ends, though it waits for a user who does
\* not answer; unless the cancellation came between the insertion of the
\* token and that of the channel (then the wait is not ended by it).
StoppedCallsEnd == \A c \in Calls : c \in hit ~> (pc[c] = "done" \/ c \in early)

\* tool_pipeline.rs:1070, "If the user modified the parameters, update the task
\* parameters first": what runs is what the user confirmed.
UserArgumentsRun ==
    \A c \in Calls : pc[c] = "calling" /\ Replied({"edit"}, c) => used[c] = "user"
=============================================================================
