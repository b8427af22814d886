----------------------------- MODULE MCCronJobs -----------------------------
(* Instances of CronJobs for TLC. *)
EXTENDS CronJobs, TLC

\* Once, every unit of time from the moment it is asked for, a cron expression
\* that has one occurrence, and a malformed one.
Once      == [kind |-> "at", at |-> 1]
Repeated  == [kind |-> "every", every |-> 1, anchor |-> None]
Last      == [kind |-> "cron", times |-> {1}]
Malformed == [kind |-> "cron", times |-> {}]

All     == {Once, Repeated, Last, Malformed}
Lasting == {Repeated, Malformed}

Refusals == {"submit", "missing"}
Crashes  == {"save", "crash", "accepted", "lose"}
=============================================================================
