---------------------------- MODULE MCEventQueue ----------------------------
(* Instances of EventQueue for TLC. *)
EXTENDS EventQueue, TLC

CONSTANTS t1, t2

TwoTasks == {t1, t2}

\* ToolEvent Started or ModelRoundStarted; TokenUsageUpdated, which is no
\* timeline event.
Tool    == [priority |-> High, timeline |-> TRUE]
Usage   == [priority |-> Normal, timeline |-> FALSE]

ToolAndUsage == {Tool, Usage}
=============================================================================
