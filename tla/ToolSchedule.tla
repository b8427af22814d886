---------------------------- MODULE ToolSchedule ----------------------------
(***************************************************************************)
(* What execute_tools promises of the calls of one round                   *)
(* (agentic/tools/pipeline/tool_pipeline.rs): they run in the order the    *)
(* model asked for them, and only calls that are safe to run concurrently, *)
(* with none but such calls between them, overlap.  How batches, tokens,   *)
(* confirmations and cancellations bring that about is ToolPipeline's.     *)
(***************************************************************************)
EXTENDS Integers, FiniteSets

CONSTANT N      \* how many calls the model asked for, 1 .. N in this order

VARIABLES
    safe,      \* the calls whose tool is_concurrency_safe
    phase      \* where each is: it waits, runs (asking the user included), has ended

Calls == 1 .. N

\* The documentation of execute_tools: "Consecutive concurrency-safe calls are
\* grouped into a single batch and run in parallel; each non-safe call forms
\* its own batch and runs serially."
MayStart(c) ==
    \A d \in 1 .. c - 1 : \/ phase[d] = "ended"
                          \/ d .. c \subseteq safe

ScheduleInit == /\ safe \in SUBSET Calls
                /\ phase = [c \in Calls |-> "waits"]

Start(c) == /\ phase[c] = "waits"
            /\ MayStart(c)
            /\ phase' = [phase EXCEPT ![c] = "runs"]
            /\ UNCHANGED safe

End(c) == /\ phase[c] = "runs"
          /\ phase' = [phase EXCEPT ![c] = "ended"]
          /\ UNCHANGED safe

ScheduleNext == \E c \in Calls : Start(c) \/ End(c)

ScheduleSpec == ScheduleInit /\ [][ScheduleNext]_<<safe, phase>>
-----------------------------------------------------------------------------
\* A call that is not safe runs alone.
RunsAlone == \A c, d \in Calls :
    phase[c] = "runs" /\ phase[d] = "runs" /\ c # d => {c, d} \subseteq safe
=============================================================================
