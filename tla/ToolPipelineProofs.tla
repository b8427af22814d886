------------------------- MODULE ToolPipelineProofs -------------------------
(* What holds of ToolPipeline for any number of calls, retries and requests. *)
EXTENDS ToolPipeline, TLAPS

USE DEF Calls, SetState, Goto, End, Send, taskVars, mapVars, runVars, given, history

\* What a request is in the middle of fits where it is.
OpShape(o) ==
    /\ o \in Ops
    /\ o.pc = "answer" => o.call \in Calls /\ o.kind \in {"confirm", "edit", "reject"}
    /\ o.pc \in {"token", "channel", "state"} =>
         o.call \in Calls /\ o.kind \in {"cancel", "cancelTurn"}
    /\ o.pc = "turn" => o.kind = "cancelTurn"
    /\ o.pc = "idle" => o.kind = "none"

\* Attempts are counted from the first.
Counted ==
    \A c \in Calls :
      /\ pc[c] \in {"queued", "taken", "opening", "asking", "waiting", "checking", "starting"} =>
           attempts[c] = 0
      /\ pc[c] = "retrying" => attempts[c] <= MaxRetries

Shape == Counted /\ \A r \in Requests : OpShape(op[r])

LEMMA OpChanged ==
    ASSUME TypeOK, Shape, NEW r \in Requests, NEW o, OpShape(o),
           op' = [op EXCEPT ![r] = o], UNCHANGED <<pc, attempts>>
    PROVE  /\ op' \in [Requests -> Ops] /\ Shape'
           /\ op'[r] = o
           /\ \A q \in Requests : q # r => op'[q] = op[q]
BY DEF TypeOK, Shape, OpShape, Counted

LEMMA OpMoved ==
    ASSUME TypeOK, Shape, NEW r \in Requests, NEW s \in OpStages, Moved(r, s),
           UNCHANGED <<pc, attempts>>,
           s # "idle", s = "answer" => op[r].pc = "answer",
           s \in {"token", "channel", "state"} => op[r].pc \in {"token", "channel", "state"},
           s = "turn" => op[r].kind = "cancelTurn"
    PROVE  /\ op' \in [Requests -> Ops] /\ Shape'
           /\ op'[r].pc = s /\ op'[r].kind = op[r].kind /\ op'[r].call = op[r].call
           /\ \A q \in Requests : q # r => op'[q] = op[q]
<1> DEFINE o == [op[r] EXCEPT !.pc = s]
<1>1. OpShape(op[r]) /\ op[r] \in Ops
  BY DEF Shape, OpShape
<1>2. /\ o.pc = s /\ o.kind = op[r].kind /\ o.call = op[r].call /\ o \in Ops
  BY <1>1 DEF Ops
<1>3. OpShape(o)
  BY <1>1, <1>2 DEF OpShape
<1>4. op' = [op EXCEPT ![r] = o]
  BY DEF Moved
<1> QED
  BY <1>2, <1>3, <1>4, OpChanged

\* Type correctness, with the shape of the requests: every call is at a step of
\* execute_single_tool, no call is attempted more often than allowed.
LEMMA ExecuteTyped ==
    ASSUME TypeOK, Shape, NEW c \in Calls, Execute(c)
    PROVE  TypeOK' /\ Shape'
<1> USE PipelineAssumption DEF TypeOK, Shape, Counted, States, Stages, Terminal, Endings
<1>1. CASE Take(c)
  BY <1>1 DEF Take
<1>2. CASE Refuse(c)
  BY <1>2 DEF Refuse
<1>3. CASE NotRegistered(c)
  BY <1>3 DEF NotRegistered
<1>4. CASE Begin(c)
  BY <1>4 DEF Begin
<1>5. CASE OpenChannel(c)
  BY <1>5 DEF OpenChannel
<1>6. CASE AskUser(c)
  BY <1>6 DEF AskUser
<1>7. CASE Confirmed(c)
  BY <1>7 DEF Confirmed
<1>8. CASE Rejected(c)
  BY <1>8 DEF Rejected
<1>9. CASE Closed(c)
  BY <1>9 DEF Closed
<1>10. CASE TimedOut(c)
  BY <1>10 DEF TimedOut
<1>11. CASE CancelledBefore(c)
  BY <1>11 DEF CancelledBefore
<1>12. CASE PassCheck(c)
  BY <1>12 DEF PassCheck
<1>13. CASE SetRunning(c)
  <2>1. TypeOK'
    BY <1>13 DEF SetRunning
  <2>2. Shape'
    BY <1>13 DEF SetRunning
  <2> QED
    BY <2>1, <2>2
<1>14. CASE GiveUp(c)
  <2>1. TypeOK'
    BY <1>14 DEF GiveUp
  <2>2. Shape'
    BY <1>14 DEF GiveUp
  <2> QED
    BY <2>1, <2>2
<1>15. CASE Attempt(c)
  <2>0. attempts[c] \in 0 .. MaxRetries
    BY <1>15 DEF Attempt
  <2>1. TypeOK'
    <3>1. attempts' \in [Calls -> 0 .. MaxRetries + 1]
      BY <1>15, <2>0 DEF Attempt
    <3> QED
      BY <1>15, <3>1 DEF Attempt
  <2>2. Shape'
    BY <1>15 DEF Attempt
  <2> QED
    BY <2>1, <2>2
<1>16. CASE Succeed(c)
  <2>1. TypeOK'
    BY <1>16 DEF Succeed, Goto
  <2>2. Shape'
    BY <1>16 DEF Succeed, Goto
  <2> QED
    BY <2>1, <2>2
<1>17. CASE Retry(c)
  BY <1>17 DEF Retry
<1>18. CASE Fail(c)
  BY <1>18 DEF Fail
<1>19. CASE Heed(c)
  BY <1>19 DEF Heed
<1>20. CASE Clean(c)
  BY <1>20 DEF Clean
<1>21. CASE Finish(c)
  BY <1>21 DEF Finish
<1> QED
  BY <1>1, <1>2, <1>3, <1>4, <1>5, <1>6, <1>7, <1>8, <1>9, <1>10, <1>11, <1>12, <1>13, <1>14, <1>15, <1>16, <1>17, <1>18, <1>19, <1>20, <1>21 DEF Execute

LEMMA RequestTyped ==
    ASSUME TypeOK, Shape, NEW r \in Requests, Request(r)
    PROVE  TypeOK' /\ Shape'
<1> USE DEF States, Stages, Terminal, Endings
<1> DEFINE c == op[r].call
<1>0. OpShape(op[r])
  BY DEF Shape
<1>1. ASSUME NEW d \in Calls, Answering(r, d) PROVE TypeOK' /\ Shape'
  <2>1. PICK kind \in Kinds \cap {"confirm", "edit", "reject"} :
          op' = [op EXCEPT ![r] = [pc |-> "answer", kind |-> kind, call |-> d, todo |-> {}]]
    BY <1>1 DEF Answering
  <2>2. OpShape([pc |-> "answer", kind |-> kind, call |-> d, todo |-> {}])
    BY DEF OpShape, Ops, OpStages
  <2>3. op' \in [Requests -> Ops] /\ Shape'
    BY <1>1, <2>1, <2>2, OpChanged DEF Answering
  <2> QED
    BY <1>1, <2>3 DEF Answering, TypeOK
<1>2. ASSUME NEW d \in Calls, Cancelling(r, d) PROVE TypeOK' /\ Shape'
  <2>1. OpShape([pc |-> "token", kind |-> "cancel", call |-> d, todo |-> {}])
    BY <1>2 DEF OpShape, Ops, OpStages, Cancelling
  <2>2. op' \in [Requests -> Ops] /\ Shape'
    BY <1>2, <2>1, OpChanged DEF Cancelling
  <2> QED
    BY <1>2, <2>2 DEF Cancelling, TypeOK
<1>3. CASE CancellingTurn(r)
  <2> DEFINE o == [pc |-> "turn", kind |-> "cancelTurn", call |-> 0,
                   todo |-> {d \in Calls : state[d] \in {"Queued", "Running", "AwaitingConfirmation"}}]
  <2>1. OpShape(o)
    BY <1>3 DEF OpShape, Ops, OpStages, CancellingTurn
  <2>2. op' \in [Requests -> Ops] /\ Shape'
    BY <1>3, <2>1, OpChanged DEF CancellingTurn
  <2> QED
    BY <1>3, <2>2 DEF CancellingTurn, TypeOK
<1>4. ASSUME NEW d \in Calls, CancelNext(r, d) PROVE TypeOK' /\ Shape'
  <2> DEFINE o == [pc |-> IF state[d] \in Terminal THEN "turn" ELSE "token",
                   kind |-> "cancelTurn", call |-> d, todo |-> op[r].todo \ {d}]
  <2>1. OpShape(o)
    BY <1>0, <1>4 DEF OpShape, Ops, OpStages, CancelNext
  <2>2. op' \in [Requests -> Ops] /\ Shape'
    BY <1>4, <2>1, OpChanged DEF CancelNext
  <2> QED
    BY <1>4, <2>2 DEF CancelNext, TypeOK
<1>5. CASE Confirm(r)
  <2>1. op' \in [Requests -> Ops] /\ Shape'
    BY <1>0, <1>5, OpMoved DEF Confirm, OpShape, OpStages
  <2> QED
    BY <1>0, <1>5, <2>1 DEF Confirm, TypeOK, OpShape
<1>6. CASE Reject(r)
  <2>1. op' \in [Requests -> Ops] /\ Shape'
    BY <1>0, <1>6, OpMoved DEF Reject, OpShape, OpStages
  <2> QED
    BY <1>0, <1>6, <2>1 DEF Reject, TypeOK, OpShape
<1>7. CASE TurnCancelled(r)
  <2>1. op' \in [Requests -> Ops] /\ Shape'
    BY <1>0, <1>7, OpMoved DEF TurnCancelled, OpShape, OpStages
  <2> QED
    BY <1>0, <1>7, <2>1 DEF TurnCancelled, TypeOK, OpShape
<1>8. CASE CancelToken(r)
  <2>1. op' \in [Requests -> Ops] /\ Shape'
    BY <1>0, <1>8, OpMoved DEF CancelToken, OpShape, OpStages
  <2>2. c \in Calls
    BY <1>0, <1>8 DEF CancelToken, OpShape
  <2>3. /\ hit' \subseteq Calls /\ tokens' \subseteq Calls
        /\ spent' \in [Calls -> 0 .. MaxRetries + 1]
    <3>1. CASE c \in tokens /\ pc[c] # "done"
      <4>1. /\ hit' = hit \cup {c} /\ tokens' = tokens \ {c}
            /\ spent' = [spent EXCEPT ![c] = attempts[c]]
        BY <1>8, <3>1 DEF CancelToken
      <4>2. attempts[c] \in 0 .. MaxRetries + 1
        BY <2>2 DEF TypeOK
      <4>3. spent' \in [Calls -> 0 .. MaxRetries + 1]
        BY <4>1, <4>2, <2>2 DEF TypeOK
      <4> QED
        BY <4>1, <4>3, <2>2 DEF TypeOK
    <3>2. CASE ~(c \in tokens /\ pc[c] # "done")
      BY <1>8, <3>2 DEF CancelToken, TypeOK
    <3> QED
      BY <3>1, <3>2
  <2> QED
    BY <1>8, <2>1, <2>3 DEF CancelToken, TypeOK
<1>9. CASE DropChannel(r)
  <2>1. op' \in [Requests -> Ops] /\ Shape'
    BY <1>0, <1>9, OpMoved DEF DropChannel, OpShape, OpStages
  <2> QED
    BY <1>0, <1>9, <2>1 DEF DropChannel, TypeOK, OpShape
<1>10. CASE MarkCancelled(r)
  <2>1. op' \in [Requests -> Ops] /\ Shape'
    BY <1>0, <1>10, OpMoved DEF MarkCancelled, OpShape, OpStages
  <2> QED
    BY <1>0, <1>10, <2>1 DEF MarkCancelled, TypeOK, OpShape
<1> QED
  BY <1>1, <1>2, <1>3, <1>4, <1>5, <1>6, <1>7, <1>8, <1>9, <1>10 DEF Request, Continue

\* Type correctness of the pipeline: the tasks, the maps keyed by call and the
\* requests of users are well formed, and no call is attempted too often.
THEOREM PipelineTypeCorrect == Spec => [](TypeOK /\ Shape)
<1>1. Init => TypeOK /\ Shape
  BY PipelineAssumption
     DEF Init, TypeOK, Shape, Counted, OpShape, Ops, States, Stages, Endings, OpStages, Idle
<1>2. TypeOK /\ Shape /\ [Next]_vars => (TypeOK /\ Shape)'
  <2>1. ASSUME TypeOK, Shape, UNCHANGED vars PROVE (TypeOK /\ Shape)'
    BY <2>1 DEF vars, TypeOK, Shape, Counted, OpShape
  <2> QED
    BY <2>1, ExecuteTyped, RequestTyped DEF Next, Rest
<1> QED
  BY <1>1, <1>2, PTL DEF Spec
-----------------------------------------------------------------------------
\* A request that was answered stays as it is, and each step is of one request.
LEMMA OthersKept ==
    ASSUME TypeOK, Shape, NEW r \in Requests, Request(r)
    PROVE  /\ op[r].pc # "ok"
           /\ \A q \in Requests : q # r => op'[q] = op[q]
<1>1. op \in [Requests -> Ops]
  BY DEF TypeOK
<1> QED
  BY <1>1 DEF Request, Continue, Answering, Cancelling, CancellingTurn, CancelNext, Confirm,
              Reject, TurnCancelled, CancelToken, DropChannel, MarkCancelled, Moved

LEMMA RepliedKept ==
    ASSUME TypeOK, Shape, NEW r \in Requests, Request(r), NEW kinds, NEW c \in Calls,
           Replied(kinds, c)
    PROVE  Replied(kinds, c)'
BY OthersKept DEF Replied

\* The inductive invariant of NothingRunsUnconfirmed: a sender in the map has
\* not been used, an answer was given by a request that reported success, and a
\* call that asks goes past its question with a confirmation only.
Consent ==
    \A c \in Calls :
      /\ c \in channels => answer[c] = "none"
      /\ pc[c] \in {"queued", "taken", "opening"} => c \notin channels /\ answer[c] = "none"
      /\ answer[c] = "confirmed" => Replied({"confirm", "edit"}, c)
      /\ c \in Asks /\ (pc[c] \in {"checking", "starting", "retrying", "calling"} \/ attempts[c] > 0)
           => answer[c] = "confirmed"

LEMMA ConsentExecute ==
    ASSUME TypeOK, Shape, Consent, NEW c \in Calls, Execute(c)
    PROVE  Consent'
<1> USE DEF Consent, TypeOK, Shape, Counted, Replied
<1>1. CASE Take(c)
  BY <1>1 DEF Take
<1>2. CASE Refuse(c)
  BY <1>2 DEF Refuse
<1>3. CASE NotRegistered(c)
  BY <1>3 DEF NotRegistered
<1>4. CASE Begin(c)
  BY <1>4 DEF Begin
<1>5. CASE OpenChannel(c)
  BY <1>5 DEF OpenChannel
<1>6. CASE AskUser(c)
  BY <1>6 DEF AskUser
<1>7. CASE Confirmed(c)
  BY <1>7 DEF Confirmed
<1>8. CASE Rejected(c)
  BY <1>8 DEF Rejected
<1>9. CASE Closed(c)
  BY <1>9 DEF Closed
<1>10. CASE TimedOut(c)
  BY <1>10 DEF TimedOut
<1>11. CASE CancelledBefore(c)
  BY <1>11 DEF CancelledBefore
<1>12. CASE PassCheck(c)
  BY <1>12 DEF PassCheck
<1>13. CASE SetRunning(c)
  BY <1>13 DEF SetRunning
<1>14. CASE GiveUp(c)
  BY <1>14 DEF GiveUp
<1>15. CASE Attempt(c)
  BY <1>15 DEF Attempt
<1>16. CASE Succeed(c)
  BY <1>16 DEF Succeed, Goto
<1>17. CASE Retry(c)
  BY <1>17 DEF Retry
<1>18. CASE Fail(c)
  BY <1>18 DEF Fail
<1>19. CASE Heed(c)
  BY <1>19 DEF Heed
<1>20. CASE Clean(c)
  BY <1>20 DEF Clean
<1>21. CASE Finish(c)
  BY <1>21 DEF Finish
<1> QED
  BY <1>1, <1>2, <1>3, <1>4, <1>5, <1>6, <1>7, <1>8, <1>9, <1>10, <1>11, <1>12, <1>13, <1>14, <1>15, <1>16, <1>17, <1>18, <1>19, <1>20, <1>21 DEF Execute

LEMMA ConsentRequest ==
    ASSUME TypeOK, Shape, Consent, NEW r \in Requests, Request(r)
    PROVE  Consent'
<1>1. \A c \in Calls : Replied({"confirm", "edit"}, c) => Replied({"confirm", "edit"}, c)'
  BY RepliedKept
<1>2. OpShape(op[r])
  BY DEF Shape
<1>3. CASE Confirm(r)
  <2>0. PICK c \in Calls : c = op[r].call
    BY <1>2, <1>3 DEF Confirm, OpShape
  <2>1. op' \in [Requests -> Ops] /\ op[r].kind \in {"confirm", "edit"}
    BY <1>2, <1>3, RequestTyped DEF Confirm, OpShape, TypeOK
  <2>2. c \in channels => Replied({"confirm", "edit"}, c)'
    <3> SUFFICES ASSUME c \in channels PROVE Replied({"confirm", "edit"}, c)'
      OBVIOUS
    <3>1. Moved(r, "ok")
      BY <1>3, <2>0 DEF Confirm
    <3>2. op'[r].pc = "ok" /\ op'[r].kind = op[r].kind /\ op'[r].call = c
      BY <1>3, <2>0, <3>1, OpMoved DEF Confirm, OpStages
    <3> QED
      BY <2>1, <3>2 DEF Replied
  <2>3. /\ channels' = channels \ {c} /\ UNCHANGED <<pc, attempts>>
        /\ \/ UNCHANGED answer
           \/ c \in channels /\ answer' = [answer EXCEPT ![c] = "confirmed"]
    BY <1>3, <2>0 DEF Confirm
  <2>4. CASE UNCHANGED answer
    BY <1>1, <2>3, <2>4 DEF Consent, TypeOK
  <2>5. CASE c \in channels /\ answer' = [answer EXCEPT ![c] = "confirmed"]
    <3>1. pc[c] \notin {"queued", "taken", "opening"} /\ Replied({"confirm", "edit"}, c)'
      BY <2>1, <2>2, <2>5 DEF Consent
    <3>2. /\ answer'[c] = "confirmed"
          /\ \A d \in Calls : d # c => answer'[d] = answer[d]
      BY <2>1, <2>5 DEF TypeOK
    <3> SUFFICES ASSUME NEW d \in Calls
                 PROVE  /\ d \in channels' => answer'[d] = "none"
                        /\ pc[d] \in {"queued", "taken", "opening"} =>
                             d \notin channels' /\ answer'[d] = "none"
                        /\ answer'[d] = "confirmed" => Replied({"confirm", "edit"}, d)'
                        /\ d \in Asks /\ (\/ pc[d] \in {"checking", "starting", "retrying", "calling"}
                                          \/ attempts[d] > 0)
                             => answer'[d] = "confirmed"
      BY <2>3 DEF Consent
    <3>3. CASE d = c
      BY <2>3, <3>1, <3>2, <3>3
    <3>4. CASE d # c
      BY <1>1, <2>3, <3>2, <3>4 DEF Consent
    <3> QED
      BY <3>3, <3>4
  <2> QED
    BY <2>3, <2>4, <2>5
<1>4. CASE Reject(r)
  BY <1>1, <1>2, <1>4 DEF Reject, Consent, TypeOK, OpShape
<1>5. CASE DropChannel(r)
  BY <1>1, <1>2, <1>5 DEF DropChannel, Consent, TypeOK, OpShape
<1>6. CASE UNCHANGED <<channels, pc, answer, attempts>>
  BY <1>1, <1>6 DEF Consent
<1> QED
  BY <1>3, <1>4, <1>5, <1>6 DEF Request, Continue, Answering, Cancelling, CancellingTurn,
                              CancelNext, TurnCancelled, CancelToken, MarkCancelled

\* A call that needs the user's consent runs only after a confirmation that was
\* accepted, for any number of calls and requests in any order.
THEOREM RunsOnlyConfirmed == Spec => []NothingRunsUnconfirmed
<1>1. Init => Consent
  BY DEF Init, Consent
<1>2. TypeOK /\ Shape /\ Consent /\ [Next]_vars => Consent'
  <2>1. ASSUME Consent, UNCHANGED vars PROVE Consent'
    BY <2>1 DEF vars, Consent, Replied
  <2> QED
    BY <2>1, ConsentExecute, ConsentRequest DEF Next, Rest
<1>3. TypeOK /\ Consent => NothingRunsUnconfirmed
  BY PipelineAssumption DEF Consent, NothingRunsUnconfirmed
<1> QED
  BY <1>1, <1>2, <1>3, PipelineTypeCorrect, PTL DEF Spec
-----------------------------------------------------------------------------
\* A cancelled call starts no attempt any more.
THEOREM StoppedStaysStopped == Spec => []StoppedStartsNothing
<1>1. Init => StoppedStartsNothing
  BY DEF Init, StoppedStartsNothing
<1>2. TypeOK /\ Shape /\ StoppedStartsNothing /\ [Next]_vars => StoppedStartsNothing'
  <2> SUFFICES ASSUME TypeOK, Shape, StoppedStartsNothing, [Next]_vars
               PROVE  StoppedStartsNothing'
    OBVIOUS
  <2>1. ASSUME NEW c \in Calls, Attempt(c) PROVE StoppedStartsNothing'
    BY <2>1 DEF Attempt, StoppedStartsNothing, TypeOK
  <2>2. ASSUME NEW r \in Requests, CancelToken(r) PROVE StoppedStartsNothing'
    <3> DEFINE c == op[r].call
    <3>1. c \in Calls /\ UNCHANGED attempts
      BY <2>2 DEF Shape, OpShape, CancelToken
    <3>2. \/ UNCHANGED <<hit, spent>>
          \/ hit' = hit \cup {c} /\ spent' = [spent EXCEPT ![c] = attempts[c]]
      BY <2>2 DEF CancelToken
    <3> HIDE DEF c
    <3> QED
      BY <3>1, <3>2 DEF StoppedStartsNothing, TypeOK
  <2>3. CASE UNCHANGED <<hit, spent, attempts>>
    BY <2>3 DEF StoppedStartsNothing
  <2> QED
    BY <2>1, <2>2, <2>3
       DEF Next, Execute, Take, Refuse, NotRegistered, Begin, OpenChannel, AskUser, Confirmed,
           Rejected, Closed, TimedOut, CancelledBefore, PassCheck, SetRunning, GiveUp, Succeed,
           Retry, Fail, Heed, Clean, Finish, Request, Continue, Answering, Cancelling,
           CancellingTurn, CancelNext, Confirm, Reject, TurnCancelled, DropChannel,
           MarkCancelled, Rest, vars
<1> QED
  BY <1>1, <1>2, PipelineTypeCorrect, PTL DEF Spec
-----------------------------------------------------------------------------
\* The inductive invariant of LeftBehind: a call has no token before it takes
\* one and after Clean.
Kept ==
    /\ LeftBehind
    /\ \A c \in tokens : pc[c] \notin {"queued", "taken", "finishing"}
    /\ \A c \in channels : pc[c] \in {"asking", "waiting", "done"}

LEMMA KeptExecute ==
    ASSUME TypeOK, Consent, Kept, NEW c \in Calls, Execute(c)
    PROVE  Kept'
<1> USE DEF Kept, LeftBehind, Consent, TypeOK
<1>1. CASE Take(c)
  BY <1>1 DEF Take
<1>2. CASE Refuse(c)
  BY <1>2 DEF Refuse
<1>3. CASE NotRegistered(c)
  BY <1>3 DEF NotRegistered
<1>4. CASE Begin(c)
  BY <1>4 DEF Begin
<1>5. CASE OpenChannel(c)
  BY <1>5 DEF OpenChannel
<1>6. CASE AskUser(c)
  BY <1>6 DEF AskUser
<1>7. CASE Confirmed(c)
  BY <1>7 DEF Confirmed
<1>8. CASE Rejected(c)
  BY <1>8 DEF Rejected
<1>9. CASE Closed(c)
  BY <1>9 DEF Closed
<1>10. CASE TimedOut(c)
  BY <1>10 DEF TimedOut
<1>11. CASE CancelledBefore(c)
  BY <1>11 DEF CancelledBefore
<1>12. CASE PassCheck(c)
  BY <1>12 DEF PassCheck
<1>13. CASE SetRunning(c)
  BY <1>13 DEF SetRunning
<1>14. CASE GiveUp(c)
  BY <1>14 DEF GiveUp
<1>15. CASE Attempt(c)
  BY <1>15 DEF Attempt
<1>16. CASE Succeed(c)
  BY <1>16 DEF Succeed, Goto
<1>17. CASE Retry(c)
  BY <1>17 DEF Retry
<1>18. CASE Fail(c)
  BY <1>18 DEF Fail
<1>19. CASE Heed(c)
  BY <1>19 DEF Heed
<1>20. CASE Clean(c)
  BY <1>20 DEF Clean
<1>21. CASE Finish(c)
  BY <1>21 DEF Finish
<1> QED
  BY <1>1, <1>2, <1>3, <1>4, <1>5, <1>6, <1>7, <1>8, <1>9, <1>10, <1>11, <1>12, <1>13, <1>14, <1>15, <1>16, <1>17, <1>18, <1>19, <1>20, <1>21 DEF Execute

\* Tokens and confirmation channels of calls that have ended are left behind by
\* the returns that LeftBehind names and by no others.
THEOREM LittleLeftBehind == Spec => []LeftBehind
<1>1. Init => Consent /\ Kept
  BY DEF Init, Consent, Kept, LeftBehind
<1>2. TypeOK /\ Shape /\ Consent /\ Kept /\ [Next]_vars => (Consent /\ Kept)'
  <2> SUFFICES ASSUME TypeOK, Shape, Consent, Kept, [Next]_vars
               PROVE  (Consent /\ Kept)'
    OBVIOUS
  <2>1. ASSUME NEW r \in Requests, Request(r) PROVE Kept'
    <3>1. /\ tokens' \subseteq tokens /\ channels' \subseteq channels
          /\ UNCHANGED <<pc, result>>
      BY <2>1 DEF Request, Continue, Answering, Cancelling, CancellingTurn, CancelNext, Confirm,
                  Reject, TurnCancelled, CancelToken, DropChannel, MarkCancelled
    <3> QED
      BY <3>1 DEF Kept, LeftBehind
  <2>2. CASE UNCHANGED vars
    BY <2>2 DEF vars, Consent, Replied, Kept, LeftBehind
  <2> QED
    BY <2>1, <2>2, ConsentExecute, ConsentRequest, KeptExecute DEF Next, Rest
<1>3. Kept => LeftBehind
  BY DEF Kept
<1> QED
  BY <1>1, <1>2, <1>3, PipelineTypeCorrect, PTL DEF Spec
-----------------------------------------------------------------------------
LEMMA InterferedKept ==
    ASSUME TypeOK, Shape, NEW r \in Requests, Request(r), NEW c \in Calls, Interfered(c)
    PROVE  Interfered(c)'
<1>1. PICK q \in Requests :
        \/ op[q].kind = "cancelTurn" /\ op[q].pc # "idle"
        \/ op[q].kind = "cancel" /\ op[q].call = c
        \/ op[q].kind = "reject" /\ op[q].pc = "ok" /\ op[q].call = c
  BY DEF Interfered
<1>2. CASE q # r
  <2>1. op'[q] = op[q]
    BY <1>2, OthersKept
  <2> QED
    BY <1>1, <2>1 DEF Interfered
<1>3. CASE q = r
  <2>1. op[r].pc \notin {"idle", "ok"} /\ op[r].kind \in {"cancelTurn", "cancel"}
    BY <1>1, <1>3, OthersKept DEF Shape, OpShape
  <2>2. op \in [Requests -> Ops] /\ op[r] \in Ops /\ OpShape(op[r])
    BY DEF TypeOK, Shape
  <2>3. \/ \E s \in OpStages \ {"idle"} : Moved(r, s)
        \/ \E d \in Calls : CancelNext(r, d)
    BY <2>1, <2>2 DEF Request, Continue, Answering, Cancelling, CancellingTurn, CancelNext,
         Confirm, Reject, TurnCancelled, CancelToken, DropChannel, MarkCancelled, OpShape, OpStages
  <2>4. CASE \E s \in OpStages \ {"idle"} : Moved(r, s)
    <3>1. op'[r].pc # "idle" /\ op'[r].kind = op[r].kind /\ op'[r].call = op[r].call
      BY <2>2, <2>4 DEF Moved, Ops
    <3> QED
      BY <1>1, <1>3, <2>1, <3>1 DEF Interfered
  <2>5. CASE \E d \in Calls : CancelNext(r, d)
    <3>1. op'[r].pc # "idle" /\ op'[r].kind = "cancelTurn"
      BY <2>2, <2>5 DEF CancelNext
    <3> QED
      BY <3>1 DEF Interfered
  <2> QED
    BY <2>3, <2>4, <2>5
<1> QED
  BY <1>2, <1>3

\* The inductive invariant of StatusTellsEnd.
Shown ==
    /\ StatusTellsEnd
    /\ \A c \in Calls :
         /\ pc[c] \in {"queued", "taken"} =>
              state[c] = "Queued" \/ (state[c] = "Cancelled" /\ Interfered(c))
         /\ pc[c] \in {"cleaning", "finishing"} => result[c] \in {"ok", "error", "cancelled"}

LEMMA ShownExecute ==
    ASSUME TypeOK, Shown, NEW c \in Calls, Execute(c)
    PROVE  Shown'
<1>0. pc \in [Calls -> Stages] /\ state \in [Calls -> States] /\ result \in [Calls -> Endings]
  BY DEF TypeOK
<1> USE <1>0 DEF Shown, StatusTellsEnd, Interfered
<1>1. CASE Take(c)
  BY <1>1 DEF Take
<1>2. CASE Refuse(c)
  BY <1>2 DEF Refuse
<1>3. CASE NotRegistered(c)
  BY <1>3 DEF NotRegistered
<1>4. CASE Begin(c)
  BY <1>4 DEF Begin
<1>5. CASE OpenChannel(c)
  BY <1>5 DEF OpenChannel
<1>6. CASE AskUser(c)
  BY <1>6 DEF AskUser
<1>7. CASE Confirmed(c)
  BY <1>7 DEF Confirmed
<1>8. CASE Rejected(c)
  BY <1>8 DEF Rejected
<1>9. CASE Closed(c)
  BY <1>9 DEF Closed
<1>10. CASE TimedOut(c)
  BY <1>10 DEF TimedOut
<1>11. CASE CancelledBefore(c)
  BY <1>11 DEF CancelledBefore
<1>12. CASE PassCheck(c)
  BY <1>12 DEF PassCheck
<1>13. CASE SetRunning(c)
  BY <1>13 DEF SetRunning
<1>14. CASE GiveUp(c)
  BY <1>14 DEF GiveUp
<1>15. CASE Attempt(c)
  BY <1>15 DEF Attempt
<1>16. CASE Succeed(c)
  <2>1. pc' = [pc EXCEPT ![c] = "cleaning"] /\ result' = [result EXCEPT ![c] = "ok"]
        /\ UNCHANGED op
    BY <1>16 DEF Succeed, Goto
  <2>2. state' \in [Calls -> States] /\ \A d \in Calls \ {c} : state'[d] = state[d]
    <3>1. UNCHANGED state \/ state' = [state EXCEPT ![c] = "Streaming"]
      BY <1>16 DEF Succeed, SetState
    <3>2. "Streaming" \in States
      BY DEF States
    <3> HIDE DEF Shown, StatusTellsEnd, Interfered
    <3>3. CASE UNCHANGED state
      BY <3>3
    <3>4. CASE state' = [state EXCEPT ![c] = "Streaming"]
      BY <3>2, <3>4
    <3> QED
      BY <3>1, <3>3, <3>4
  <2> QED
    BY <2>1, <2>2
<1>17. CASE Retry(c)
  BY <1>17 DEF Retry
<1>18. CASE Fail(c)
  BY <1>18 DEF Fail
<1>19. CASE Heed(c)
  BY <1>19 DEF Heed
<1>20. CASE Clean(c)
  BY <1>20 DEF Clean
<1>21. CASE Finish(c)
  BY <1>21 DEF Finish
<1> QED
  BY <1>1, <1>2, <1>3, <1>4, <1>5, <1>6, <1>7, <1>8, <1>9, <1>10, <1>11, <1>12, <1>13, <1>14, <1>15, <1>16, <1>17, <1>18, <1>19, <1>20, <1>21 DEF Execute

LEMMA ShownRequest ==
    ASSUME TypeOK, Shape, Shown, NEW r \in Requests, Request(r)
    PROVE  Shown'
<1>1. \A d \in Calls : Interfered(d) => Interfered(d)'
  BY InterferedKept
<1>2. OpShape(op[r])
  BY DEF Shape
<1>3. CASE UNCHANGED <<state, pc, result>>
  BY <1>1, <1>3 DEF Shown, StatusTellsEnd
<1>4. ASSUME NEW c \in Calls, Interfered(c)', UNCHANGED <<pc, result>>,
             state' = [state EXCEPT ![c] = "Cancelled"]
      PROVE  Shown'
  BY <1>1, <1>4 DEF Shown, StatusTellsEnd, TypeOK
<1>5. CASE Reject(r)
  <2>0. PICK c \in Calls : c = op[r].call
    BY <1>2, <1>5 DEF Reject, OpShape
  <2>1. op[r].kind = "reject" /\ UNCHANGED <<pc, result>>
    BY <1>5 DEF Reject
  <2>2. Interfered(c)'
    <3>1. op'[r].pc = "ok" /\ op'[r].kind = op[r].kind /\ op'[r].call = c
      BY <1>5, <2>0, OpMoved DEF Reject, OpStages
    <3> QED
      BY <2>1, <3>1 DEF Interfered
  <2>3. UNCHANGED state \/ state' = [state EXCEPT ![c] = "Cancelled"]
    BY <1>5, <2>0 DEF Reject
  <2> QED
    BY <1>3, <1>4, <2>1, <2>2, <2>3
<1>6. CASE MarkCancelled(r)
  <2>0. PICK c \in Calls : c = op[r].call
    BY <1>2, <1>6 DEF MarkCancelled, OpShape
  <2>1. /\ op[r].kind \in {"cancel", "cancelTurn"} /\ op[r].pc = "state"
        /\ UNCHANGED <<pc, result>> /\ state' = [state EXCEPT ![c] = "Cancelled"]
    BY <1>2, <1>6, <2>0 DEF MarkCancelled, OpShape
  <2>2. Interfered(c)
    BY <2>0, <2>1 DEF Interfered
  <2> QED
    BY <1>1, <1>4, <2>1, <2>2
<1> QED
  BY <1>3, <1>5, <1>6 DEF Request, Continue, Answering, Cancelling, CancellingTurn,
        CancelNext, Confirm, TurnCancelled, CancelToken, DropChannel

\* What is shown of a call that has ended is its result, or Cancelled where a
\* request that looked at it earlier came in between.
THEOREM StatusIsTrue == Spec => []StatusTellsEnd
<1>1. Init => Shown
  BY DEF Init, Shown, StatusTellsEnd
<1>2. TypeOK /\ Shape /\ Shown /\ [Next]_vars => Shown'
  <2>1. ASSUME Shown, UNCHANGED vars PROVE Shown'
    BY <2>1 DEF vars, Shown, StatusTellsEnd, Interfered
  <2> QED
    BY <2>1, ShownExecute, ShownRequest DEF Next, Rest
<1>3. Shown => StatusTellsEnd
  BY DEF Shown
<1> QED
  BY <1>1, <1>2, <1>3, PipelineTypeCorrect, PTL DEF Spec
-----------------------------------------------------------------------------
\* Every step of the pipeline is a step of ToolSchedule or leaves the schedule
\* as it is: batches bring about the order that execute_tools documents.
THEOREM PipelineFollowsSchedule == Spec => FollowsSchedule
<1> DEFINE phase == [c \in Calls |-> CASE pc[c] = "queued" -> "waits"
                                      [] pc[c] = "done"   -> "ended"
                                      [] OTHER            -> "runs"]
<1> USE DEF Schedule!Calls
<1>1. Init => Schedule!ScheduleInit
  BY DEF Init, Schedule!ScheduleInit
<1>2. TypeOK /\ [Next]_vars => [Schedule!ScheduleNext]_<<safe, phase>>
  <2> SUFFICES ASSUME TypeOK, [Next]_vars PROVE [Schedule!ScheduleNext]_<<safe, phase>>
    OBVIOUS
  <2>1. ASSUME NEW c \in Calls, Take(c) PROVE Schedule!Start(c)
    <3>1. phase[c] = "waits" /\ UNCHANGED safe /\ phase' = [phase EXCEPT ![c] = "runs"]
      BY <2>1 DEF Take, TypeOK
    <3>2. ASSUME NEW d \in 1 .. c - 1, phase[d] # "ended" PROVE d .. c \subseteq safe
      <4>1. d \in Calls /\ pc[d] # "done"
        BY <3>2, PipelineAssumption
      <4>2. \A e \in d + 1 .. c : {e - 1, e} \subseteq safe
        BY <2>1, <4>1 DEF Take, Current, InLaterBatch, OpensBatch
      <4>3. \A e \in d .. c : e \in safe
        <5> TAKE e \in d .. c
        <5>1. CASE e = d
          <6>1. d + 1 \in d + 1 .. c /\ d = (d + 1) - 1
            BY PipelineAssumption
          <6> QED
            BY <4>2, <5>1, <6>1
        <5>2. CASE e # d
          BY <4>2, <5>2
        <5> QED
          BY <5>1, <5>2
      <4> QED
        BY <4>3
    <3> QED
      BY <3>1, <3>2 DEF Schedule!Start, Schedule!MayStart
  <2>2. ASSUME NEW c \in Calls, Execute(c), pc[c] # "queued" PROVE Schedule!End(c) \/ UNCHANGED <<safe, phase>>
    <3>1. /\ UNCHANGED safe
          /\ \E s \in Stages \ {"queued"} : pc' = [pc EXCEPT ![c] = s]
          /\ pc[c] # "done"
      BY <2>2 DEF Execute, Take, Refuse, NotRegistered, Begin, OpenChannel, AskUser, Confirmed,
           Rejected, Closed, TimedOut, CancelledBefore, PassCheck, SetRunning, GiveUp, Attempt,
           Succeed, Retry, Fail, Heed, Clean, Finish, Stages
    <3>2. PICK s \in Stages \ {"queued"} : pc' = [pc EXCEPT ![c] = s]
      BY <3>1
    <3>3. CASE s = "done"
      <4>1. phase[c] = "runs" /\ phase' = [phase EXCEPT ![c] = "ended"]
        BY <2>2, <3>1, <3>2, <3>3 DEF TypeOK
      <4> QED
        BY <3>1, <4>1 DEF Schedule!End
    <3>4. CASE s # "done"
      <4>1. phase' = phase
        BY <2>2, <3>1, <3>2, <3>4 DEF TypeOK
      <4> QED
        BY <3>1, <4>1
    <3> QED
      BY <3>3, <3>4
  <2>3. ASSUME NEW c \in Calls, Execute(c), pc[c] = "queued" PROVE Take(c)
    BY <2>3 DEF Execute, Refuse, NotRegistered, Begin, OpenChannel, AskUser, Confirmed,
         Rejected, Closed, TimedOut, CancelledBefore, PassCheck, SetRunning, GiveUp, Attempt,
         Succeed, Retry, Fail, Heed, Clean, Finish
  <2>4. CASE UNCHANGED <<pc, safe>>
    BY <2>4
  <2> HIDE DEF phase
  <2>5. ASSUME NEW r \in Requests, Request(r) PROVE UNCHANGED <<pc, safe>>
    BY <2>5 DEF Request, Continue, Answering, Cancelling, CancellingTurn, CancelNext, Confirm,
         Reject, TurnCancelled, CancelToken, DropChannel, MarkCancelled
  <2> QED
    BY <2>1, <2>2, <2>3, <2>4, <2>5 DEF Next, Rest, vars, Schedule!ScheduleNext
<1> QED
  BY <1>1, <1>2, PipelineTypeCorrect, PTL DEF Spec, FollowsSchedule, Schedule!ScheduleSpec
-----------------------------------------------------------------------------
\* A call has started only when its batch's turn had come: the batches before
\* are through, and stay so.
Started == \A c \in Calls : pc[c] # "queued" => Current(c)

LEMMA CurrentKept ==
    ASSUME TypeOK, NEW c \in Calls, Current(c), [Next]_vars
    PROVE  Current(c)'
<1>1. UNCHANGED safe /\ \A d \in Calls : pc[d] = "done" => pc'[d] = "done"
  <2>1. CASE UNCHANGED vars
    BY <2>1 DEF vars, runVars, given
  <2>2. ASSUME NEW d \in Calls, Execute(d)
        PROVE  UNCHANGED safe /\ \A e \in Calls : pc[e] = "done" => pc'[e] = "done"
    BY <2>2 DEF TypeOK, Execute, Take, Refuse, NotRegistered, Begin, OpenChannel, AskUser,
         Confirmed, Rejected, Closed, TimedOut, CancelledBefore, PassCheck, SetRunning, GiveUp,
         Attempt, Succeed, Retry, Fail, Heed, Clean, Finish, Goto, End, given
  <2>3. ASSUME NEW r \in Requests, Request(r) PROVE UNCHANGED <<pc, safe>>
    BY <2>3 DEF Request, Continue, Answering, Cancelling, CancellingTurn, CancelNext, Confirm,
         Reject, TurnCancelled, CancelToken, DropChannel, MarkCancelled, runVars, given
  <2>4. CASE Rest
    BY <2>4 DEF Rest, vars, runVars, given
  <2> QED
    BY <2>1, <2>2, <2>3, <2>4 DEF Next
<1> QED
  BY <1>1 DEF Current, InLaterBatch, OpensBatch

\* A call whose tool is not safe to run concurrently runs while no other call
\* of the round does.
THEOREM UnsafeRunsAlone == Spec => []Schedule!RunsAlone
<1>1. Init => Started
  BY DEF Init, Started
<1>2. TypeOK /\ Started /\ [Next]_vars => Started'
  <2> SUFFICES ASSUME TypeOK, Started, [Next]_vars, NEW c \in Calls, pc'[c] # "queued"
               PROVE  Current(c)'
    BY DEF Started
  <2>1. CASE pc[c] # "queued"
    BY <2>1, CurrentKept DEF Started
  <2>2. CASE pc[c] = "queued"
    <3>1. Take(c)
      <4>1. CASE UNCHANGED vars
        BY <2>2, <4>1 DEF vars, runVars
      <4>2. ASSUME NEW d \in Calls, Execute(d) PROVE Take(c)
        BY <2>2, <4>2 DEF TypeOK, Execute, Take, Refuse, NotRegistered, Begin, OpenChannel,
             AskUser, Confirmed, Rejected, Closed, TimedOut, CancelledBefore, PassCheck,
             SetRunning, GiveUp, Attempt, Succeed, Retry, Fail, Heed, Clean, Finish, Goto, End
      <4>3. ASSUME NEW r \in Requests, Request(r) PROVE UNCHANGED pc
        BY <4>3 DEF Request, Continue, Answering, Cancelling, CancellingTurn, CancelNext,
             Confirm, Reject, TurnCancelled, CancelToken, DropChannel, MarkCancelled, runVars
      <4>4. CASE Rest
        BY <2>2, <4>4 DEF Rest, vars, runVars
      <4> QED
        BY <2>2, <4>1, <4>2, <4>3, <4>4 DEF Next
    <3> QED
      BY <3>1, CurrentKept DEF Take
  <2> QED
    BY <2>1, <2>2
<1>3. TypeOK /\ Started => Schedule!RunsAlone
  <2> SUFFICES ASSUME TypeOK, Started, NEW c \in Calls, NEW d \in Calls, c < d,
                      pc[c] \notin {"queued", "done"}, pc[d] \notin {"queued", "done"}
               PROVE  {c, d} \subseteq safe
    BY PipelineAssumption DEF Schedule!RunsAlone, Schedule!Calls, Calls
  <2>1. \A e \in c + 1 .. d : {e - 1, e} \subseteq safe
    BY DEF Started, Current, InLaterBatch, OpensBatch
  <2>2. c + 1 \in c + 1 .. d /\ d \in c + 1 .. d /\ (c + 1) - 1 = c
    BY PipelineAssumption DEF Calls
  <2> QED
    BY <2>1, <2>2
<1> QED
  BY <1>1, <1>2, <1>3, PipelineTypeCorrect, PTL DEF Spec
=============================================================================
