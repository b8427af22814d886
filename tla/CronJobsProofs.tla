--------------------------- MODULE CronJobsProofs ---------------------------
(* What holds of CronJobs for any number of jobs, requests, faults and any   *)
(* schedules.                                                                *)
EXTENDS CronJobs, WellFoundedInduction, TLAPS

(* Times and schedules *)

LEMMA MinOf ==
    ASSUME NEW S \in SUBSET Nat, S # {}
    PROVE  Min(S) \in S /\ Min(S) \in Nat /\ \A t \in S : Min(S) <= t
<1>1. \E x \in S : \A y \in S : ~(<<y, x>> \in OpToRel(<, Nat))
  BY NatLessThanWellFounded, WFMin
<1>2. \A x, y \in Nat : x < y => <<x, y>> \in OpToRel(<, Nat)
  BY DEF OpToRel
<1>3. \E x \in S : \A y \in S : x <= y
  <2>1. PICK x \in S : \A y \in S : ~(<<y, x>> \in OpToRel(<, Nat))
    BY <1>1
  <2>2. \A y \in S : ~(y < x)
    BY <1>2, <2>1
  <2> QED
    BY <2>2
<1> QED
  BY <1>3 DEF Min

\* An interval elapses as often as it takes to be past the time x.
LEMMA Intervals ==
    ASSUME NEW x \in Nat, NEW e \in Nat \ {0}
    PROVE  (x \div e + 1) * e \in Nat /\ (x \div e + 1) * e > x
OBVIOUS

LEMMA NextRunIs ==
    ASSUME NEW s \in Schedule, NEW after \in Nat, Computes(s, after)
    PROVE  /\ NextRun(s, after) \in Times
           /\ NextRun(s, after) # None => NextRun(s, after) > after
<1>1. CASE s.kind = "at"
  <2>1. s.at \in Nat
    BY <1>1 DEF Schedule
  <2> QED
    BY <1>1, <2>1 DEF NextRun, Times, None
<1>2. CASE s.kind = "every"
  <2>1. s.every \in Nat \ {0} /\ s.anchor \in Nat
    BY <1>2 DEF Schedule
  <2>2. CASE s.anchor > after
    BY <1>2, <2>1, <2>2 DEF NextRun, Times
  <2>3. CASE ~(s.anchor > after)
    <3> DEFINE n == ((after - s.anchor) \div s.every + 1) * s.every
    <3>1. n \in Nat /\ n > after - s.anchor
      <4>1. after - s.anchor \in Nat
        BY <2>1, <2>3
      <4> QED
        BY <2>1, <4>1, Intervals
    <3>2. NextRun(s, after) = s.anchor + n
      BY <1>2, <2>3 DEF NextRun
    <3> HIDE DEF n
    <3> QED
      BY <2>1, <3>1, <3>2 DEF Times
  <2> QED
    BY <2>2, <2>3
<1>3. CASE s.kind = "cron"
  <2> DEFINE S == {t \in s.times : t > after}
  <2>1. S \in SUBSET Nat /\ S # {}
    BY <1>3 DEF Schedule, Computes
  <2>2. NextRun(s, after) = Min(S)
    BY <1>3 DEF NextRun
  <2> QED
    BY <2>1, <2>2, MinOf DEF Times
<1> QED
  BY <1>1, <1>2, <1>3 DEF Schedule

LEMMA MaterializedTyped ==
    ASSUME now \in Nat, NEW s \in Schedules \cup Schedule
    PROVE  Materialized(s) \in Schedule
<1>1. \/ s \in [kind : {"at"}, at : Nat]
      \/ s \in [kind : {"every"}, every : Nat \ {0}, anchor : Times]
      \/ s \in [kind : {"cron"}, times : SUBSET Nat]
  BY CronAssumption DEF Schedule, Times
<1>2. CASE s \in [kind : {"at"}, at : Nat]
  BY <1>2 DEF Materialized, Schedule
<1>3. CASE s \in [kind : {"cron"}, times : SUBSET Nat]
  BY <1>3 DEF Materialized, Schedule
<1>4. CASE s \in [kind : {"every"}, every : Nat \ {0}, anchor : Times]
  <2>1. CASE s.anchor = None
    <3>1. [s EXCEPT !.anchor = now] \in [kind : {"every"}, every : Nat \ {0}, anchor : Nat]
      BY <1>4
    <3> QED
      BY <1>4, <2>1, <3>1 DEF Materialized, Schedule
  <2>2. CASE s.anchor # None
    BY <1>4, <2>2 DEF Materialized, Schedule, Times
  <2> QED
    BY <2>1, <2>2
<1> QED
  BY <1>1, <1>2, <1>3, <1>4
-----------------------------------------------------------------------------
(* What becomes of a job *)

LEMMA JobTyped ==
    ASSUME NEW J \in Job
    PROVE  /\ J.enabled \in BOOLEAN /\ J.schedule \in Schedule /\ J.created \in Nat
           /\ J.next \in Times /\ J.pending \in Times /\ J.retry \in Times /\ J.active \in Times
           /\ J.enqueued \in BOOLEAN
BY DEF Job

\* The first run of a job comes later, or is that of a job that has never run.
LEMMA InitialRunIs ==
    ASSUME now \in Nat, NEW J \in Job, InitialComputes(J)
    PROVE  /\ InitialRun(J) \in Times
           /\ InitialRun(J) # None => InitialRun(J) > now \/ ~J.enqueued
<1>1. CASE OneShot(J)
  <2>1. J.schedule.at \in Nat
    BY <1>1 DEF OneShot, Job, Schedule
  <2> QED
    BY <1>1, <2>1 DEF InitialRun, Times
<1>2. CASE ~OneShot(J)
  BY <1>2, JobTyped, NextRunIs DEF InitialRun, InitialComputes
<1> QED
  BY <1>1, <1>2

LEMMA RescheduledIs ==
    ASSUME now \in Nat, NEW J \in Job, J.enabled => InitialComputes(J),
           NEW R, R = Rescheduled(J)
    PROVE  /\ R \in Job /\ R.pending = None /\ R.retry = None
           /\ R.enabled = J.enabled /\ R.active = J.active /\ R.enqueued = J.enqueued
           /\ ~R.enabled => R.next = None
           /\ R.next # None => R.next > now \/ ~R.enqueued
<1> DEFINE n == IF ~J.enabled THEN None
                ELSE IF J.active = None THEN InitialRun(J)
                ELSE IF OneShot(J) THEN None ELSE NextRun(J.schedule, now)
<1>1. n \in Times /\ (n # None => n > now \/ ~J.enqueued)
  <2>1. CASE ~J.enabled
    BY <2>1 DEF Times
  <2>2. CASE J.enabled /\ J.active = None
    BY <2>2, InitialRunIs
  <2>3. CASE J.enabled /\ J.active # None /\ OneShot(J)
    BY <2>3 DEF Times
  <2>4. CASE J.enabled /\ J.active # None /\ ~OneShot(J)
    BY <2>4, JobTyped, NextRunIs DEF InitialComputes
  <2> QED
    BY <2>1, <2>2, <2>3, <2>4
<1>2. R = [J EXCEPT !.pending = None, !.retry = None, !.next = n]
  BY DEF Rescheduled
<1>3. ~J.enabled => n = None
  OBVIOUS
<1> HIDE DEF n
<1> QED
  BY <1>1, <1>2, <1>3 DEF Job, Times

LEMMA TriggeredIs ==
    ASSUME now \in Nat, NEW J \in Job, NEW R, R = Triggered(J)
    PROVE  /\ R \in Job /\ R.enabled = J.enabled /\ R.schedule = J.schedule
           /\ R.active = J.active /\ R.enqueued = J.enqueued
           /\ \/ R.pending = J.pending /\ R.retry = J.retry
              \/ /\ J.pending = None /\ J.active = None /\ Due(J)
                 /\ R.pending = J.next /\ R.retry = None
           /\ ~Due(J) => R.next = J.next
           /\ Due(J) /\ ~Computes(J.schedule, now) => R.next = J.next
           /\ Due(J) /\ Computes(J.schedule, now) => R.next = None \/ R.next > now
<1> DEFINE K == IF J.active # None \/ J.pending # None THEN J
                ELSE [J EXCEPT !.pending = J.next, !.retry = None]
<1>1. /\ K \in Job /\ K.enabled = J.enabled /\ K.schedule = J.schedule /\ K.active = J.active
      /\ K.enqueued = J.enqueued /\ K.next = J.next
      /\ \/ K.pending = J.pending /\ K.retry = J.retry
         \/ /\ J.pending = None /\ J.active = None
            /\ K.pending = J.next /\ K.retry = None
  BY DEF Job, Times
<1>2. R = IF ~Due(J) THEN J ELSE IF ~Computes(J.schedule, now) THEN K
          ELSE [K EXCEPT !.next = NextRun(J.schedule, now)]
  BY DEF Triggered
<1> HIDE DEF K
<1>3. CASE ~Due(J)
  BY <1>2, <1>3
<1>4. CASE Due(J) /\ ~Computes(J.schedule, now)
  BY <1>1, <1>2, <1>4
<1>5. CASE Due(J) /\ Computes(J.schedule, now)
  <2> DEFINE n == NextRun(J.schedule, now)
  <2>1. n \in Times /\ (n # None => n > now)
    BY <1>5, JobTyped, NextRunIs
  <2>2. R = [K EXCEPT !.next = n]
    BY <1>2, <1>5
  <2> HIDE DEF n
  <2>3. /\ R \in Job /\ R.enabled = K.enabled /\ R.schedule = K.schedule /\ R.active = K.active
        /\ R.enqueued = K.enqueued /\ R.next = n /\ R.pending = K.pending /\ R.retry = K.retry
    BY <1>1, <2>1, <2>2 DEF Job
  <2> QED
    BY <1>1, <1>5, <2>1, <2>3
<1> QED
  BY <1>3, <1>4, <1>5

LEMMA SubmittedIs ==
    ASSUME NEW J \in Job, NEW R, R = Submitted(J)
    PROVE  /\ R \in Job /\ R.pending = None /\ R.active = J.pending /\ R.enqueued
           /\ R.next \in {J.next, None} /\ (~R.enabled => ~J.enabled \/ R.next = None)
           /\ ~J.enabled => ~R.enabled
<1> DEFINE K == [J EXCEPT !.active = J.pending, !.pending = None, !.retry = None, !.enqueued = TRUE]
<1>1. /\ K \in Job /\ K.pending = None /\ K.active = J.pending /\ K.enqueued
      /\ K.next = J.next /\ K.enabled = J.enabled
  BY DEF Job, Times
<1>2. R = IF OneShot(J) THEN [K EXCEPT !.enabled = FALSE, !.next = None] ELSE K
  BY DEF Submitted
<1> HIDE DEF K
<1> QED
  BY <1>1, <1>2 DEF Job, Times

LEMMA FailedIs ==
    ASSUME now \in Nat, NEW J \in Job, NEW R, R = Failed(J)
    PROVE  /\ R \in Job /\ R.pending = J.pending /\ R.active = J.active /\ R.enqueued = J.enqueued
           /\ R.next = J.next /\ R.enabled = J.enabled
<1> DEFINE r == Min({now + RetryDelay, MaxTime})
<1>1. r \in Times
  <2>1. {now + RetryDelay, MaxTime} \in SUBSET Nat
    BY CronAssumption
  <2> QED
    BY <2>1, MinOf DEF Times
<1>2. R = [J EXCEPT !.retry = r]
  BY DEF Failed
<1> HIDE DEF r
<1> QED
  BY <1>1, <1>2 DEF Job

LEMMA DisabledIs ==
    ASSUME NEW J \in Job, NEW R, R = Disabled(J)
    PROVE  /\ R \in Job /\ R.pending = None /\ R.active = J.active /\ R.enqueued = J.enqueued
           /\ R.next = None /\ ~R.enabled
BY DEF Disabled, Job, Times

LEMMA ToldIs ==
    ASSUME NEW J \in Job, NEW kind \in Kinds, NEW R, R = Told(J, kind)
    PROVE  /\ R \in Job /\ R.pending = J.pending /\ R.enqueued = J.enqueued
           /\ R.next = J.next /\ R.enabled = J.enabled /\ R.retry = J.retry
           /\ kind = "started" => R.active = J.active
           /\ kind = "ended" => R.active = None
<1>1. CASE kind = "started"
  BY <1>1 DEF Told
<1>2. CASE kind = "ended"
  BY <1>2 DEF Told, Job, Times
<1> QED
  BY <1>1, <1>2 DEF Kinds

\* A job that a restart finds waits for no turn, and is disabled or armed.
LEMMA ReconciledIs ==
    ASSUME now \in Nat, NEW J \in Job, Loadable(J), NEW R, R = Reconciled(J)
    PROVE  /\ R \in Job /\ R.active = None /\ R.pending \in {J.pending, None}
           /\ R.enqueued = J.enqueued /\ R.enabled = J.enabled
           /\ ~R.enabled => R.next = None
           /\ R.next # None => R.next = J.next \/ R.next > now \/ ~R.enqueued
<1> DEFINE K == IF J.active = None THEN J
                ELSE [J EXCEPT !.active = None, !.pending = None, !.retry = None]
<1>1. /\ K \in Job /\ K.active = None /\ K.pending \in {J.pending, None} /\ K.next = J.next
      /\ K.enqueued = J.enqueued /\ K.enabled = J.enabled /\ K.schedule = J.schedule
      /\ K.pending = None => J.active # None \/ J.pending = None
  BY DEF Job, Times
<1>2. R = IF ~K.enabled THEN [K EXCEPT !.next = None, !.pending = None, !.retry = None]
          ELSE IF K.pending # None THEN [K EXCEPT !.retry = IF @ = None THEN now ELSE @]
          ELSE IF K.next = None THEN [K EXCEPT !.next = InitialRun(K)]
          ELSE K
  BY DEF Reconciled
<1>3. K.enabled /\ K.pending = None /\ K.next = None => InitialComputes(K)
  BY <1>1 DEF Loadable, InitialComputes, OneShot
<1> HIDE DEF K
<1>4. CASE ~K.enabled
  BY <1>1, <1>2, <1>4 DEF Job, Times
<1>5. CASE K.enabled /\ K.pending # None
  <2>1. PICK r \in Times : R = [K EXCEPT !.retry = r]
    BY <1>1, <1>2, <1>5, JobTyped DEF Times
  <2> QED
    BY <1>1, <1>5, <2>1 DEF Job
<1>6. CASE K.enabled /\ K.pending = None /\ K.next = None
  <2>1. PICK n \in Times : R = [K EXCEPT !.next = n] /\ (n # None => n > now \/ ~K.enqueued)
    BY <1>1, <1>2, <1>3, <1>6, InitialRunIs
  <2> QED
    BY <1>1, <1>6, <2>1 DEF Job
<1>7. CASE K.enabled /\ K.pending = None /\ K.next # None
  BY <1>1, <1>2, <1>7
<1> QED
  BY <1>4, <1>5, <1>6, <1>7

\* What a request makes of a job.
LEMMA RequestIs ==
    ASSUME now \in Nat, NEW j \in Known, jobs[j] \in Job, NEW J \in Requests(j)
    PROVE  /\ J \in Job /\ J.pending = jobs[j].pending /\ J.active = jobs[j].active
           /\ J.enqueued = jobs[j].enqueued /\ J.next = jobs[j].next /\ J.retry = jobs[j].retry
<1>1. PICK enabled \in BOOLEAN : \E s \in {Materialized(r) : r \in Schedules} \cup {jobs[j].schedule} :
          J = Asked(j, enabled, s)
  BY DEF Requests
<1>2. PICK s \in {Materialized(r) : r \in Schedules} \cup {jobs[j].schedule} :
          J = Asked(j, enabled, s)
  BY <1>1
<1>3. s \in Schedule
  BY <1>2, MaterializedTyped, JobTyped
<1> QED
  BY <1>2, <1>3 DEF Asked, Job
-----------------------------------------------------------------------------
(* Types *)

\* The jobs in memory or on disk: no trigger is of a time to come.
JobsFit(f) ==
    /\ f \in [DOMAIN f -> Job] /\ DOMAIN f \subseteq 1 .. born
    /\ \A j \in DOMAIN f : f[j].pending <= now

ClockFits ==
    /\ now \in 0 .. MaxTime /\ born \in 0 .. MaxJobs
    /\ asked \in 0 .. MaxRequests /\ faults \in 0 .. MaxFaults

FlagsFit ==
    /\ permit \in BOOLEAN /\ up \in BOOLEAN /\ unsaved \in BOOLEAN
    /\ tainted \subseteq Jobs /\ lost \subseteq Jobs

LoopFits ==
    /\ loop \in [pc : {"looks", "sleeps", "processes"}, until : Times, due : SUBSET Jobs]
    /\ loop.pc # "processes" => loop.due = {}
    /\ manual \subseteq Jobs

SubmitFits ==
    submit # Nothing =>
        /\ submit \in [by : {"loop", "user"}, job : Known, at : Nat, accepted : BOOLEAN]
        /\ up /\ submit.at <= now
        /\ submit.accepted => <<submit.job, submit.at>> \in open

\* Turns and their events are of triggers that were accepted, of jobs that
\* have been created and times that have come.
TurnsFit ==
    /\ turns \subseteq [job : Jobs, at : Nat, nr : Nat, begun : BOOLEAN]
    /\ events \subseteq [job : Jobs, at : Nat, nr : Nat, kind : Kinds]
    /\ \A t \in turns : up /\ <<t.job, t.at>> \in DOMAIN accepted
    /\ \A e \in events : <<e.job, e.at>> \in DOMAIN accepted

AcceptedFits ==
    /\ accepted \in [DOMAIN accepted -> Nat \ {0}]
    /\ DOMAIN accepted \subseteq Jobs \X Nat
    /\ \A t \in DOMAIN accepted : t[1] <= born /\ t[2] <= now
    /\ doubled \cup open \subseteq DOMAIN accepted

\* What every other invariant rests on.
Base == /\ ClockFits /\ FlagsFit /\ JobsFit(jobs) /\ JobsFit(disk)
        /\ LoopFits /\ SubmitFits /\ TurnsFit /\ AcceptedFits

LEMMA BaseTyped ==
    ASSUME Base
    PROVE  /\ TypeOK
           /\ now \in Nat /\ born \in Nat /\ 1 .. born \subseteq Jobs
           /\ Known \subseteq Jobs /\ jobs \in [Known -> Job]
           /\ \A j \in Known : jobs[j] \in Job /\ jobs[j].pending <= now
<1>1. now \in Nat /\ born \in Nat /\ 1 .. born \subseteq Jobs
  BY CronAssumption DEF Base, ClockFits, Jobs
<1>2. Known \subseteq Jobs /\ jobs \in [Known -> Job] /\ DOMAIN disk \subseteq Jobs
      /\ disk \in [DOMAIN disk -> Job]
  BY <1>1 DEF Base, JobsFit, Known
<1>3. TypeOK
  BY <1>2 DEF Base, ClockFits, FlagsFit, LoopFits, SubmitFits, TurnsFit, AcceptedFits, TypeOK
<1> QED
  BY <1>1, <1>2, <1>3 DEF Base, JobsFit, Known

LEMMA FreeIs ==
    ASSUME Free
    PROVE  up /\ submit = Nothing
BY DEF Free

\* One job becomes another.
LEMMA OneJob ==
    ASSUME Base, NEW j \in Known, NEW R \in Job, R.pending <= now,
           jobs' = [jobs EXCEPT ![j] = R], UNCHANGED <<now, born>>
    PROVE  /\ JobsFit(jobs)' /\ Known' = Known /\ jobs'[j] = R
           /\ \A i \in Known : i # j => jobs'[i] = jobs[i]
<1>1. jobs \in [Known -> Job] /\ \A i \in Known : jobs[i].pending <= now
  BY BaseTyped
<1>2. jobs' \in [Known -> Job] /\ Known' = Known
  BY <1>1 DEF Known
<1>3. jobs'[j] = R /\ \A i \in Known : i # j => jobs'[i] = jobs[i]
  BY <1>1
<1> QED
  BY <1>1, <1>2, <1>3 DEF Base, JobsFit, Known

\* A save writes what is in memory, or fails and leaves the disk as it is.
LEMMA Saved ==
    ASSUME Base, NEW ok \in BOOLEAN, Persist(ok), JobsFit(jobs)', now' = now, born' \in {born, born + 1}
    PROVE  /\ JobsFit(disk)' /\ permit' \in BOOLEAN /\ unsaved' \in BOOLEAN
           /\ faults' \in 0 .. MaxFaults /\ open' \subseteq open
           /\ permit' \/ unsaved'
           /\ disk' = jobs' \/ (disk' = disk /\ open' = open)
<1>1. CASE ok
  BY <1>1 DEF Persist, JobsFit, Base, FlagsFit, ClockFits
<1>2. CASE ~ok
  <2>1. JobsFit(disk)'
    <3>1. disk' = disk
      BY <1>2 DEF Persist
    <3>2. 1 .. born \subseteq 1 .. born'
      BY BaseTyped
    <3> QED
      BY <3>1, <3>2 DEF Base, JobsFit
  <2>2. faults' \in 0 .. MaxFaults
    BY <1>2, CronAssumption DEF Persist, Fault, Base, ClockFits
  <2>3. disk' = disk /\ open' = open /\ permit' = permit /\ unsaved' = TRUE
    BY <1>2 DEF Persist
  <2>4. permit \in BOOLEAN
    BY DEF Base, FlagsFit
  <2> QED
    BY <2>1, <2>2, <2>3, <2>4
<1> QED
  BY <1>1, <1>2

\* A request that changes the jobs, with no submission under way.
LEMMA RequestKeeps ==
    ASSUME Base, Free, JobsFit(jobs)', JobsFit(disk)',
           permit' \in BOOLEAN, unsaved' \in BOOLEAN, faults' \in 0 .. MaxFaults,
           asked' \in 0 .. MaxRequests, born' \in {born, born + 1}, born' <= MaxJobs,
           open' \subseteq open, tainted' \subseteq Jobs, manual' \subseteq Jobs,
           UNCHANGED <<now, loop, submit, turns, events, accepted, up, doubled, lost>>
    PROVE  Base'
<1>1. ClockFits'
  BY CronAssumption DEF Base, ClockFits
<1>2. FlagsFit' /\ LoopFits'
  BY DEF Base, FlagsFit, LoopFits
<1>3. SubmitFits'
  BY FreeIs DEF SubmitFits
<1>4. TurnsFit'
  BY DEF Base, TurnsFit
<1>5. AcceptedFits'
  <2>1. \A t \in DOMAIN accepted : t[1] \in Int /\ t[1] <= born
    BY DEF Base, AcceptedFits, Jobs
  <2>2. \A t \in DOMAIN accepted : t[1] <= born'
    BY <2>1, BaseTyped
  <2> QED
    BY <2>2 DEF Base, AcceptedFits
<1> QED
  BY <1>1, <1>2, <1>3, <1>4, <1>5 DEF Base

LEMMA AskIs ==
    ASSUME Base, Ask
    PROVE  asked' \in 0 .. MaxRequests
BY CronAssumption DEF Ask, Base, ClockFits

\* A request that saves.
LEMMA RequestSaves ==
    ASSUME Base, NEW ok \in BOOLEAN, Persist(ok), Free, Ask, JobsFit(jobs)',
           born' \in {born, born + 1}, born' <= MaxJobs, manual' \subseteq Jobs,
           UNCHANGED <<now, loop, submit, turnVars, up, tainted, doubled, lost>>
    PROVE  Base'
<1>1. /\ JobsFit(disk)' /\ permit' \in BOOLEAN /\ unsaved' \in BOOLEAN
      /\ faults' \in 0 .. MaxFaults /\ open' \subseteq open
  BY Saved
<1>2. asked' \in 0 .. MaxRequests
  BY AskIs
<1>3. tainted' \subseteq Jobs
  BY DEF Base, FlagsFit
<1>4. UNCHANGED <<now, loop, submit, turns, events, accepted, up, doubled, lost>>
  BY DEF turnVars
<1> QED
  BY <1>1, <1>2, <1>3, <1>4, RequestKeeps

LEMMA TickBase ==
    ASSUME Base, Tick
    PROVE  Base'
<1>1. now \in Nat /\ now' = now + 1 /\ now' \in 0 .. MaxTime
  BY BaseTyped, CronAssumption DEF Tick
<1>2. UNCHANGED <<jobs, disk, permit, loop, manual, submit, turnVars, up, history>>
  BY DEF Tick
<1>3. JobsFit(jobs)' /\ JobsFit(disk)'
  <2>1. \A j \in Known : jobs[j].pending \in Times /\ jobs[j].pending <= now
    BY BaseTyped, JobTyped
  <2>2. \A j \in DOMAIN disk : disk[j].pending \in Times /\ disk[j].pending <= now
    BY JobTyped DEF Base, JobsFit
  <2>3. \A t \in Times : t <= now => t <= now'
    BY <1>1 DEF Times, None
  <2> QED
    BY <1>2, <2>1, <2>2, <2>3 DEF Base, JobsFit, history, Known
<1>4. ClockFits' /\ FlagsFit' /\ LoopFits' /\ TurnsFit'
  BY <1>1, <1>2 DEF Base, ClockFits, FlagsFit, LoopFits, TurnsFit, turnVars, history
<1>5. SubmitFits'
  BY <1>1, <1>2 DEF Base, SubmitFits, Known, history
<1>6. AcceptedFits'
  <2>1. \A t \in DOMAIN accepted : t[2] \in Nat /\ t[2] <= now
    BY DEF Base, AcceptedFits
  <2> QED
    BY <1>1, <1>2, <2>1 DEF Base, AcceptedFits, turnVars, history
<1> QED
  BY <1>3, <1>4, <1>5, <1>6 DEF Base

\* The job that is created.
LEMMA CreateIs ==
    ASSUME Base, NEW s \in Schedules, NEW enabled \in BOOLEAN, NEW ok \in BOOLEAN,
           CreateJob(s, enabled, ok)
    PROVE  \E K \in Job :
              /\ jobs' = [i \in Known \cup {born + 1} |-> IF i = born + 1 THEN K ELSE jobs[i]]
              /\ K.pending = None /\ K.active = None /\ ~K.enqueued
              /\ ~K.enabled => K.next = None
<1> DEFINE J == [enabled |-> enabled, schedule |-> Materialized(s), created |-> now,
                 next |-> None, pending |-> None, retry |-> None,
                 active |-> None, enqueued |-> FALSE]
           K == IF enabled THEN [J EXCEPT !.next = InitialRun(J)] ELSE J
<1>1. now \in Nat /\ Materialized(s) \in Schedule
  BY BaseTyped, MaterializedTyped
<1>2. J \in Job /\ J.pending = None /\ J.active = None /\ J.enqueued = FALSE /\ J.next = None
      /\ J.enabled = enabled
  BY <1>1 DEF Job, Times
<1>3. /\ enabled => InitialComputes(J)
      /\ jobs' = [i \in Known \cup {born + 1} |-> IF i = born + 1 THEN K ELSE jobs[i]]
  BY DEF CreateJob
<1> HIDE DEF J
<1>4. K \in Job /\ K.pending = None /\ K.active = None /\ ~K.enqueued /\ (~K.enabled => K.next = None)
  <2>1. CASE enabled
    <3>1. InitialRun(J) \in Times
      BY <1>1, <1>2, <1>3, <2>1, InitialRunIs
    <3> QED
      BY <1>2, <2>1, <3>1 DEF Job
  <2>2. CASE ~enabled
    BY <1>2, <2>2
  <2> QED
    BY <2>1, <2>2
<1> QED
  BY <1>3, <1>4

LEMMA CreateBase ==
    ASSUME Base, NEW s \in Schedules, NEW enabled \in BOOLEAN, NEW ok \in BOOLEAN,
           CreateJob(s, enabled, ok)
    PROVE  Base'
<1>1. PICK K \in Job :
          /\ jobs' = [i \in Known \cup {born + 1} |-> IF i = born + 1 THEN K ELSE jobs[i]]
          /\ K.pending = None
  BY CreateIs
<1>2. /\ born' = born + 1 /\ born' <= MaxJobs /\ Free /\ Ask /\ Persist(ok)
      /\ UNCHANGED <<now, loop, manual, submit, turnVars, up, tainted, doubled, lost>>
  BY CronAssumption, BaseTyped DEF CreateJob, Base, ClockFits
<1>3. JobsFit(jobs)'
  <2>1. Known' = Known \cup {born + 1} /\ jobs' \in [Known' -> Job]
    BY <1>1, BaseTyped DEF Known
  <2>2. Known' \subseteq 1 .. born'
    BY <1>2, <2>1, BaseTyped DEF Base, JobsFit, Known
  <2>3. \A j \in Known' : jobs'[j].pending <= now
    BY <1>1, <2>1, BaseTyped DEF None
  <2> QED
    BY <1>2, <2>1, <2>2, <2>3 DEF JobsFit, Known
<1>7. born' \in {born, born + 1} /\ born' <= MaxJobs /\ manual' \subseteq Jobs
  BY <1>1, <1>2, CronAssumption DEF Base, ClockFits, LoopFits
<1>8. Free /\ Ask /\ Persist(ok) /\ UNCHANGED <<now, loop, submit, turnVars, up, tainted, doubled, lost>>
  BY <1>1, <1>2
<1>9. JobsFit(jobs)'
  BY <1>2, <1>3
<1> QED
  BY <1>7, <1>8, <1>9, RequestSaves

LEMMA UpdateIs ==
    ASSUME Base, NEW j \in Jobs, NEW ok \in BOOLEAN, Update(j, ok)
    PROVE  /\ j \in Known
           /\ \E R \in Job :
                 /\ jobs' = [jobs EXCEPT ![j] = R]
                 /\ R.pending = None /\ R.retry = None
                 /\ R.active = jobs[j].active /\ R.enqueued = jobs[j].enqueued
                 /\ ~R.enabled => R.next = None
                 /\ R.next # None => R.next > now \/ ~R.enqueued
<1>1. j \in Known
  BY DEF Update
<1>2. PICK J \in Requests(j) : Acceptable(J) /\ jobs' = [jobs EXCEPT ![j] = Rescheduled(J)]
  BY DEF Update
<1>3. /\ J \in Job /\ J.active = jobs[j].active /\ J.enqueued = jobs[j].enqueued
      /\ J.enabled => InitialComputes(J)
  BY <1>1, <1>2, RequestIs, BaseTyped DEF Acceptable
<1>4. PICK R : R = Rescheduled(J)
  OBVIOUS
<1>5. /\ R \in Job /\ R.pending = None /\ R.retry = None
      /\ R.enabled = J.enabled /\ R.active = J.active /\ R.enqueued = J.enqueued
      /\ ~R.enabled => R.next = None
      /\ R.next # None => R.next > now \/ ~R.enqueued
  BY <1>3, <1>4, RescheduledIs, BaseTyped
<1> QED
  BY <1>1, <1>2, <1>3, <1>4, <1>5

LEMMA UpdateBase ==
    ASSUME Base, NEW j \in Jobs, NEW ok \in BOOLEAN, Update(j, ok)
    PROVE  Base'
<1>1. PICK R \in Job : jobs' = [jobs EXCEPT ![j] = R] /\ R.pending = None
  BY UpdateIs
<1>2. /\ Free /\ Ask /\ Persist(ok)
      /\ UNCHANGED <<now, loop, manual, submit, turnVars, up, born, tainted, doubled, lost>>
  BY DEF Update
<1>3. j \in Known /\ R.pending <= now
  BY <1>1, UpdateIs, BaseTyped DEF None
<1>4. JobsFit(jobs)'
  BY <1>1, <1>2, <1>3, OneJob
<1>7. born' \in {born, born + 1} /\ born' <= MaxJobs /\ manual' \subseteq Jobs
  BY <1>1, <1>2, CronAssumption DEF Base, ClockFits, LoopFits
<1>8. Free /\ Ask /\ Persist(ok) /\ UNCHANGED <<now, loop, submit, turnVars, up, tainted, doubled, lost>>
  BY <1>1, <1>2
<1>9. JobsFit(jobs)'
  BY <1>2, <1>4
<1> QED
  BY <1>7, <1>8, <1>9, RequestSaves

LEMMA UpdateFailsIs ==
    ASSUME Base, NEW j \in Jobs, UpdateFails(j)
    PROVE  /\ j \in Known
           /\ \E R \in Job :
                 /\ jobs' = [jobs EXCEPT ![j] = R]
                 /\ \/ R.pending = jobs[j].pending /\ R.retry = jobs[j].retry
                    \/ R.pending = None
                 /\ R.active = jobs[j].active /\ R.enqueued = jobs[j].enqueued
                 /\ R.next = jobs[j].next
<1>1. j \in Known
  BY DEF UpdateFails
<1>2. PICK J \in Requests(j) :
          \/ jobs' = [jobs EXCEPT ![j] = J]
          \/ jobs' = [jobs EXCEPT ![j] = [J EXCEPT !.pending = None, !.retry = None]]
  BY DEF UpdateFails
<1>3. /\ J \in Job /\ J.pending = jobs[j].pending /\ J.retry = jobs[j].retry
      /\ J.active = jobs[j].active /\ J.enqueued = jobs[j].enqueued /\ J.next = jobs[j].next
  BY <1>1, RequestIs, BaseTyped
<1>4. CASE jobs' = [jobs EXCEPT ![j] = J]
  BY <1>1, <1>3, <1>4
<1>5. CASE jobs' = [jobs EXCEPT ![j] = [J EXCEPT !.pending = None, !.retry = None]]
  <2>1. PICK R : R = [J EXCEPT !.pending = None, !.retry = None]
    OBVIOUS
  <2>2. /\ R \in Job /\ R.pending = None /\ R.active = J.active /\ R.enqueued = J.enqueued
        /\ R.next = J.next
    BY <1>3, <2>1 DEF Job, Times
  <2> QED
    BY <1>1, <1>3, <1>5, <2>1, <2>2
<1> QED
  BY <1>2, <1>4, <1>5

LEMMA UpdateFailsBase ==
    ASSUME Base, NEW j \in Jobs, UpdateFails(j)
    PROVE  Base'
<1>1. PICK R \in Job : jobs' = [jobs EXCEPT ![j] = R] /\ R.pending \in {jobs[j].pending, None}
  BY UpdateFailsIs
<1>2. /\ Free /\ Ask /\ tainted' = tainted \cup {j}
      /\ UNCHANGED <<now, disk, permit, loop, manual, submit, turnVars, up, born, unsaved, open,
                     faults, doubled, lost>>
  BY DEF UpdateFails
<1>3. j \in Known /\ R.pending <= now
  BY <1>1, UpdateFailsIs, BaseTyped DEF None
<1>4. JobsFit(jobs)' /\ JobsFit(disk)'
  BY <1>1, <1>2, <1>3, OneJob DEF Base, JobsFit
<1>5. /\ permit \in BOOLEAN /\ unsaved \in BOOLEAN /\ faults \in 0 .. MaxFaults
      /\ tainted \subseteq Jobs /\ manual \subseteq Jobs /\ born \in 0 .. MaxJobs
  BY DEF Base, FlagsFit, ClockFits, LoopFits
<1>6. /\ permit' \in BOOLEAN /\ unsaved' \in BOOLEAN /\ faults' \in 0 .. MaxFaults
      /\ tainted' \subseteq Jobs /\ manual' \subseteq Jobs /\ born' = born /\ born' <= MaxJobs
      /\ open' \subseteq open
  BY <1>2, <1>5, CronAssumption
<1>7. asked' \in 0 .. MaxRequests
  BY <1>2, AskIs
<1>8. UNCHANGED <<now, loop, submit, turns, events, accepted, up, doubled, lost>>
  BY <1>2 DEF turnVars
<1>9. Free /\ born' \in {born, born + 1} /\ born' <= MaxJobs
  BY <1>2, <1>6
<1> HIDE <1>2, <1>5
<1> QED
  BY <1>4, <1>6, <1>7, <1>8, <1>9, RequestKeeps

LEMMA DeleteBase ==
    ASSUME Base, NEW j \in Jobs, NEW ok \in BOOLEAN, DeleteJob(j, ok)
    PROVE  Base'
<1>1. /\ Free /\ Ask /\ Persist(ok) /\ jobs' = [i \in Known \ {j} |-> jobs[i]]
      /\ UNCHANGED <<now, loop, manual, submit, turnVars, up, born, tainted, doubled, lost>>
  BY DEF DeleteJob
<1>2. JobsFit(jobs)'
  BY <1>1, BaseTyped DEF Base, JobsFit, Known
<1>7. born' \in {born, born + 1} /\ born' <= MaxJobs /\ manual' \subseteq Jobs
  BY <1>1, <1>2, CronAssumption DEF Base, ClockFits, LoopFits
<1>8. Free /\ Ask /\ Persist(ok) /\ UNCHANGED <<now, loop, submit, turnVars, up, tainted, doubled, lost>>
  BY <1>1, <1>2
<1>9. JobsFit(jobs)'
  BY <1>1, <1>2
<1> QED
  BY <1>7, <1>8, <1>9, RequestSaves

LEMMA RunNowIs ==
    ASSUME Base, NEW j \in Jobs, NEW ok \in BOOLEAN, RunJobNow(j, ok)
    PROVE  /\ j \in Known
           /\ \E R \in Job :
                 /\ jobs' = [jobs EXCEPT ![j] = R]
                 /\ R.pending = now /\ R.retry = None
                 /\ R.active = jobs[j].active /\ R.enqueued = jobs[j].enqueued
                 /\ R.next = jobs[j].next /\ R.enabled = jobs[j].enabled
<1>1. j \in Known /\ jobs' = [jobs EXCEPT ![j].pending = now, ![j].retry = None]
  BY DEF RunJobNow
<1>2. PICK R : R = [jobs[j] EXCEPT !.pending = now, !.retry = None]
  OBVIOUS
<1>3. /\ R \in Job /\ R.pending = now /\ R.retry = None
      /\ R.active = jobs[j].active /\ R.enqueued = jobs[j].enqueued
      /\ R.next = jobs[j].next /\ R.enabled = jobs[j].enabled
  BY <1>1, <1>2, BaseTyped DEF Job, Times
<1>4. jobs' = [jobs EXCEPT ![j] = R]
  BY <1>1, <1>2, BaseTyped
<1> QED
  BY <1>1, <1>3, <1>4

LEMMA RunNowBase ==
    ASSUME Base, NEW j \in Jobs, NEW ok \in BOOLEAN, RunJobNow(j, ok)
    PROVE  Base'
<1>1. PICK R \in Job : jobs' = [jobs EXCEPT ![j] = R] /\ R.pending = now
  BY RunNowIs
<1>2. /\ Free /\ Ask /\ Persist(ok) /\ manual' \subseteq manual \cup {j}
      /\ UNCHANGED <<now, loop, submit, turnVars, up, born, tainted, doubled, lost>>
  BY DEF RunJobNow
<1>3. j \in Known /\ R.pending <= now
  BY <1>1, RunNowIs, BaseTyped
<1>4. JobsFit(jobs)'
  BY <1>1, <1>2, <1>3, OneJob
<1>7. born' \in {born, born + 1} /\ born' <= MaxJobs /\ manual' \subseteq Jobs
  BY <1>1, <1>2, CronAssumption DEF Base, ClockFits, LoopFits
<1>8. Free /\ Ask /\ Persist(ok) /\ UNCHANGED <<now, loop, submit, turnVars, up, tainted, doubled, lost>>
  BY <1>1, <1>2
<1>9. JobsFit(jobs)'
  BY <1>2, <1>4
<1> QED
  BY <1>7, <1>8, <1>9, RequestSaves

\* A step of the loop, of the processing of a job or of its submission.
LEMMA ProcessKeeps ==
    ASSUME Base, JobsFit(jobs)', JobsFit(disk)', LoopFits', SubmitFits',
           permit' \in BOOLEAN, unsaved' \in BOOLEAN, faults' \in 0 .. MaxFaults,
           open' \subseteq open, doubled' \subseteq DOMAIN accepted,
           UNCHANGED <<now, turns, events, accepted, up, born, asked, tainted, lost>>
    PROVE  Base'
<1>1. ClockFits' /\ FlagsFit' /\ TurnsFit'
  BY DEF Base, ClockFits, FlagsFit, TurnsFit
<1>2. AcceptedFits'
  BY DEF Base, AcceptedFits
<1> QED
  BY <1>1, <1>2 DEF Base

LEMMA RetryAtIs ==
    ASSUME NEW J \in Job
    PROVE  RetryAt(J) \in Times /\ (RetryAt(J) = None <=> J.pending = None)
BY JobTyped DEF RetryAt, Times, None

LEMMA WakeTimesAre ==
    ASSUME NEW J \in Job
    PROVE  WakeTimes(J) \in SUBSET Nat
BY JobTyped, RetryAtIs DEF WakeTimes, Times

\* What the loop does: it has jobs to process, or sleeps until the first wake time.
LEMMA LookIs ==
    ASSUME Base, Look
    PROVE  /\ LoopFits'
           /\ loop'.pc = "sleeps" =>
                \A j \in Known : \A t \in WakeTimes(jobs[j]) :
                    t \in Nat /\ loop'.until # None /\ loop'.until <= t
<1>1. /\ loop' = IF DueJobs # {} THEN [pc |-> "processes", until |-> None, due |-> DueJobs]
                 ELSE [pc |-> "sleeps", due |-> {},
                       until |-> IF Wakeups = {} THEN None ELSE Min(Wakeups)]
      /\ manual' = manual
  BY DEF Look
<1>2. Wakeups \in SUBSET Nat
  <2>1. \A j \in Known : WakeTimes(jobs[j]) \in SUBSET Nat
    BY BaseTyped, WakeTimesAre
  <2> QED
    BY <2>1 DEF Wakeups
<1>3. DueJobs \in SUBSET Jobs
  BY BaseTyped DEF DueJobs
<1>4. \A j \in Known : \A t \in WakeTimes(jobs[j]) : t \in Wakeups
  BY DEF Wakeups
<1>5. manual' \subseteq Jobs
  BY <1>1 DEF Base, LoopFits
<1>6. CASE DueJobs # {}
  <2>1. loop' = [pc |-> "processes", until |-> None, due |-> DueJobs]
    BY <1>1, <1>6
  <2> QED
    BY <1>3, <1>5, <2>1 DEF LoopFits, Times
<1>7. CASE DueJobs = {} /\ Wakeups = {}
  <2>1. loop' = [pc |-> "sleeps", due |-> {}, until |-> None]
    BY <1>1, <1>7
  <2> QED
    BY <1>4, <1>5, <1>7, <2>1 DEF LoopFits, Times
<1>8. CASE DueJobs = {} /\ Wakeups # {}
  <2>1. Min(Wakeups) \in Nat /\ \A t \in Wakeups : Min(Wakeups) <= t
    BY <1>2, <1>8, MinOf
  <2>2. loop' = [pc |-> "sleeps", due |-> {}, until |-> Min(Wakeups)]
    BY <1>1, <1>8
  <2>3. LoopFits'
    BY <1>5, <2>1, <2>2 DEF LoopFits, Times
  <2>4. PICK m \in Nat : loop'.until = m /\ \A t \in Wakeups : m <= t
    BY <2>1, <2>2
  <2>5. \A t \in Wakeups : t \in Nat /\ loop'.until # None /\ loop'.until <= t
    BY <1>2, <2>4 DEF None
  <2> QED
    BY <1>4, <2>3, <2>5
<1> QED
  BY <1>6, <1>7, <1>8

LEMMA JobsSame ==
    ASSUME Base, UNCHANGED <<now, jobs, disk, born>>
    PROVE  JobsFit(jobs)' /\ JobsFit(disk)'
BY DEF Base, JobsFit

LEMMA LoopBase ==
    ASSUME Base, Loop
    PROVE  Base'
<1>1. UNCHANGED <<now, jobs, disk, submit, turns, events, accepted, up, born, asked, tainted, open,
                  faults, doubled, lost>>
  BY DEF Loop, Look, Notified, Overslept, Processed, turnVars, history
<1>2. LoopFits'
  <2>1. CASE Look
    BY <2>1, LookIs
  <2>2. CASE Notified \/ Overslept \/ Processed
    <3>1. loop' = Looking /\ manual' = manual
      BY <2>2 DEF Notified, Overslept, Processed
    <3> QED
      BY <3>1 DEF Base, LoopFits, Looking, Times
  <2> QED
    BY <2>1, <2>2 DEF Loop
<1>3. permit' \in BOOLEAN /\ unsaved' \in BOOLEAN
  BY DEF Base, FlagsFit, Loop, Look, Notified, Overslept, Processed, history
<1>4. SubmitFits'
  BY <1>1 DEF Base, SubmitFits, Known
<1>5. faults' \in 0 .. MaxFaults /\ open' \subseteq open /\ doubled' \subseteq DOMAIN accepted
  BY <1>1 DEF Base, ClockFits, AcceptedFits
<1> QED
  BY <1>1, <1>2, <1>3, <1>4, <1>5, JobsSame, ProcessKeeps

LEMMA ReturnFits ==
    ASSUME Base, NEW by, NEW j, NEW ok \in BOOLEAN, Return(by, j, ok)
    PROVE  LoopFits'
<1>1. loop \in [pc : {"looks", "sleeps", "processes"}, until : Times, due : SUBSET Jobs]
      /\ (loop.pc # "processes" => loop.due = {}) /\ manual \subseteq Jobs
  BY DEF Base, LoopFits
<1>2. manual' \subseteq Jobs
  BY <1>1 DEF Return
<1>3. loop' = loop \/ loop' = Looking \/ loop' = [loop EXCEPT !.due = @ \ {j}]
  BY DEF Return
<1> QED
  BY <1>1, <1>2, <1>3 DEF LoopFits, Looking, Times

\* The due run of a job becomes its trigger, which is not of a time to come.
LEMMA TriggerFits ==
    ASSUME Base, NEW j \in Known, NEW R, R = Triggered(jobs[j])
    PROVE  R \in Job /\ R.pending <= now
<1>1. jobs[j] \in Job /\ jobs[j].pending <= now /\ now \in Nat
  BY BaseTyped
<1> QED
  BY <1>1, TriggeredIs DEF Due

LEMMA ProcessFailsBase ==
    ASSUME Base, NEW j \in Jobs, NEW by \in {"loop", "user"}, ProcessFails(by, j)
    PROVE  Base'
<1>1. /\ j \in Known /\ Free /\ Return(by, j, FALSE)
      /\ jobs' = [jobs EXCEPT ![j] = Triggered(jobs[j])]
      /\ UNCHANGED <<now, disk, permit, submit, turns, events, accepted, up, born, asked, faults,
                     tainted, unsaved, open, doubled, lost>>
  BY DEF ProcessFails, turnVars, history
<1>2. PICK R : R = Triggered(jobs[j])
  OBVIOUS
<1>3. JobsFit(jobs)' /\ JobsFit(disk)'
  BY <1>1, <1>2, TriggerFits, OneJob DEF Base, JobsFit
<1>4. LoopFits'
  BY <1>1, ReturnFits
<1>5. SubmitFits'
  BY <1>1, FreeIs DEF SubmitFits
<1>6. /\ permit' \in BOOLEAN /\ unsaved' \in BOOLEAN /\ faults' \in 0 .. MaxFaults
      /\ open' \subseteq open /\ doubled' \subseteq DOMAIN accepted
  BY <1>1 DEF Base, FlagsFit, ClockFits, AcceptedFits
<1> QED
  BY <1>1, <1>3, <1>4, <1>5, <1>6, ProcessKeeps

LEMMA ProcessTriggersBase ==
    ASSUME Base, NEW j \in Jobs, NEW by \in {"loop", "user"}, ProcessTriggers(by, j)
    PROVE  Base'
<1>1. /\ j \in Known /\ Free
      /\ jobs' = [jobs EXCEPT ![j] = Triggered(jobs[j])]
      /\ UNCHANGED <<now, permit, turns, events, accepted, up, born, asked, tainted, doubled, lost>>
  BY DEF ProcessTriggers, turnVars
<1>2. PICK R : R = Triggered(jobs[j])
  OBVIOUS
<1>3. R \in Job /\ R.pending <= now /\ jobs' = [jobs EXCEPT ![j] = R]
  BY <1>1, <1>2, TriggerFits
<1>4. JobsFit(jobs)' /\ Known' = Known /\ jobs'[j] = R
  BY <1>1, <1>3, OneJob
<1>5. JobsFit(disk)'
  <2>1. disk' = jobs' \/ disk' = disk
    BY DEF ProcessTriggers
  <2> QED
    BY <1>1, <1>4, <2>1 DEF Base, JobsFit
<1>6. /\ permit' \in BOOLEAN /\ unsaved' \in BOOLEAN /\ faults' \in 0 .. MaxFaults
      /\ open' \subseteq open /\ doubled' \subseteq DOMAIN accepted
  <2>1. permit' \in BOOLEAN /\ unsaved' \in BOOLEAN /\ doubled' \subseteq DOMAIN accepted
    BY <1>1 DEF Base, FlagsFit, AcceptedFits, ProcessTriggers
  <2>2. open' \subseteq open
    <3>1. open' \in {open, {}}
      BY DEF ProcessTriggers
    <3> QED
      BY <3>1
  <2>3. faults' = faults \/ Fault("save")
    BY DEF ProcessTriggers
  <2>4. faults' \in 0 .. MaxFaults
    BY <2>3, CronAssumption DEF Fault, Base, ClockFits
  <2> QED
    BY <2>1, <2>2, <2>4
<1>7. \/ Submittable(R) /\ UNCHANGED <<loop, manual>>
         /\ submit' = [by |-> by, job |-> j, at |-> R.pending, accepted |-> FALSE]
      \/ submit' = submit /\ \E ok \in BOOLEAN : Return(by, j, ok)
  BY <1>4 DEF ProcessTriggers
<1>8. LoopFits'
  BY <1>7, ReturnFits DEF Base, LoopFits
<1>9. SubmitFits'
  <2>1. CASE submit' = submit
    BY <1>1, <2>1, FreeIs DEF SubmitFits
  <2>2. CASE Submittable(R) /\ submit' = [by |-> by, job |-> j, at |-> R.pending, accepted |-> FALSE]
    <3>1. R.pending \in Nat
      BY <1>3, <2>2, JobTyped DEF Submittable, PendingDue, Times
    <3>2. up' /\ now' = now
      BY <1>1, FreeIs
    <3> QED
      BY <1>1, <1>3, <1>4, <2>2, <3>1, <3>2 DEF SubmitFits
  <2> QED
    BY <1>7, <2>1, <2>2
<1> QED
  BY <1>1, <1>4, <1>5, <1>6, <1>8, <1>9, ProcessKeeps

LEMMA ProcessNothingBase ==
    ASSUME Base, NEW j \in Jobs, NEW by \in {"loop", "user"}, ProcessNothing(by, j)
    PROVE  Base'
<1>1. /\ Return(by, j, TRUE)
      /\ UNCHANGED <<now, jobs, disk, permit, submit, turns, events, accepted, up, born, asked,
                     faults, tainted, unsaved, open, doubled, lost>>
  BY DEF ProcessNothing, turnVars, history
<1>2. LoopFits'
  BY <1>1, ReturnFits
<1>3. SubmitFits'
  BY <1>1 DEF Base, SubmitFits, Known
<1>4. /\ permit' \in BOOLEAN /\ unsaved' \in BOOLEAN /\ faults' \in 0 .. MaxFaults
      /\ open' \subseteq open /\ doubled' \subseteq DOMAIN accepted
  BY <1>1 DEF Base, FlagsFit, ClockFits, AcceptedFits
<1> QED
  BY <1>1, <1>2, <1>3, <1>4, JobsSame, ProcessKeeps

\* The trigger under submission is of a job there is and a time that has come.
LEMMA SubmissionIs ==
    ASSUME Base, submit # Nothing
    PROVE  /\ submit.job \in Known /\ submit.job \in Jobs /\ submit.job <= born
           /\ submit.at \in Nat /\ submit.at <= now /\ up /\ submit.accepted \in BOOLEAN
           /\ submit.by \in {"loop", "user"}
           /\ submit.accepted => <<submit.job, submit.at>> \in open
<1>1. submit \in [by : {"loop", "user"}, job : Known, at : Nat, accepted : BOOLEAN]
  BY DEF Base, SubmitFits
<1>2. submit.job \in Known /\ submit.job \in 1 .. born
  BY <1>1 DEF Base, JobsFit, Known
<1> QED
  BY <1>1, <1>2, BaseTyped DEF Base, SubmitFits

LEMMA NothingIs == Nothing.accepted = FALSE /\ Nothing.job \notin Jobs
BY CronAssumption DEF Nothing, None, Jobs

\* What an acceptance adds.
LEMMA AcceptIs ==
    ASSUME Base, Accept
    PROVE  \E n \in Nat \ {0} :
              LET t == <<submit.job, submit.at>>
              IN  /\ n = IF t \in DOMAIN accepted THEN accepted[t] + 1 ELSE 1
                  /\ accepted' = [u \in DOMAIN accepted \cup {t} |->
                                    IF u = t THEN n ELSE accepted[u]]
                  /\ turns' = turns \cup {[job |-> submit.job, at |-> submit.at, nr |-> n,
                                           begun |-> FALSE]}
                  /\ submit' = [submit EXCEPT !.accepted = TRUE]
                  /\ open' = open \cup {t}
<1> DEFINE t == <<submit.job, submit.at>>
           n == IF t \in DOMAIN accepted THEN accepted[t] + 1 ELSE 1
<1>1. n \in Nat \ {0}
  <2>1. \A u \in DOMAIN accepted : accepted[u] \in Nat
    BY DEF Base, AcceptedFits
  <2> HIDE DEF t
  <2> QED
    BY <2>1
<1>2. /\ accepted' = [u \in DOMAIN accepted \cup {t} |-> IF u = t THEN n ELSE accepted[u]]
      /\ turns' = turns \cup {[job |-> submit.job, at |-> submit.at, nr |-> n, begun |-> FALSE]}
      /\ submit' = [submit EXCEPT !.accepted = TRUE] /\ open' = open \cup {t}
  BY DEF Accept
<1> QED
  BY <1>1, <1>2

LEMMA AcceptBase ==
    ASSUME Base, Accept
    PROVE  Base'
<1> DEFINE t == <<submit.job, submit.at>>
<1>1. /\ submit # Nothing /\ ~submit.accepted
      /\ UNCHANGED <<now, jobs, disk, permit, loop, manual, events, up, born, asked, tainted,
                     unsaved, faults, doubled, lost>>
  BY DEF Accept
<1>2. PICK n \in Nat \ {0} :
          /\ accepted' = [u \in DOMAIN accepted \cup {t} |-> IF u = t THEN n ELSE accepted[u]]
          /\ turns' = turns \cup {[job |-> submit.job, at |-> submit.at, nr |-> n, begun |-> FALSE]}
          /\ submit' = [submit EXCEPT !.accepted = TRUE]
          /\ open' = open \cup {t}
  BY AcceptIs
<1>3. ClockFits' /\ FlagsFit' /\ LoopFits' /\ JobsFit(jobs)' /\ JobsFit(disk)'
  BY <1>1, JobsSame DEF Base, ClockFits, FlagsFit, LoopFits
<1>4. DOMAIN accepted' = DOMAIN accepted \cup {t}
  BY <1>2
<1>5. SubmitFits'
  <2>1. submit' \in [by : {"loop", "user"}, job : Known, at : Nat, accepted : BOOLEAN]
        /\ submit'.job = submit.job /\ submit'.at = submit.at
    BY <1>1, <1>2 DEF Base, SubmitFits
  <2>2. <<submit'.job, submit'.at>> \in open'
    BY <1>2, <2>1
  <2> QED
    BY <1>1, <2>1, <2>2, SubmissionIs DEF SubmitFits, Known
<1>6. TurnsFit'
  <2>1. [job |-> submit.job, at |-> submit.at, nr |-> n, begun |-> FALSE]
            \in [job : Jobs, at : Nat, nr : Nat, begun : BOOLEAN]
    BY <1>1, SubmissionIs
  <2>2. turns' \subseteq [job : Jobs, at : Nat, nr : Nat, begun : BOOLEAN]
        /\ events' \subseteq [job : Jobs, at : Nat, nr : Nat, kind : Kinds]
    BY <1>1, <1>2, <2>1 DEF Base, TurnsFit
  <2>3. \A u \in turns' : up' /\ <<u.job, u.at>> \in DOMAIN accepted'
    <3>1. PICK v : v = [job |-> submit.job, at |-> submit.at, nr |-> n, begun |-> FALSE]
      OBVIOUS
    <3>2. <<v.job, v.at>> \in DOMAIN accepted' /\ turns' = turns \cup {v}
      BY <1>2, <1>4, <3>1
    <3>3. up' /\ \A u \in turns : <<u.job, u.at>> \in DOMAIN accepted
      BY <1>1, SubmissionIs DEF Base, TurnsFit
    <3> HIDE DEF t
    <3> QED
      BY <1>4, <3>2, <3>3
  <2>4. \A e \in events' : <<e.job, e.at>> \in DOMAIN accepted'
    BY <1>1, <1>4 DEF Base, TurnsFit
  <2> QED
    BY <2>2, <2>3, <2>4 DEF TurnsFit
<1>7. AcceptedFits'
  <2>1. t \in Jobs \X Nat /\ t[1] <= born /\ t[2] <= now
    BY <1>1, SubmissionIs
  <2> HIDE DEF t
  <2>2. accepted' \in [DOMAIN accepted' -> Nat \ {0}]
    BY <1>2, <1>4 DEF Base, AcceptedFits
  <2>3. DOMAIN accepted' \subseteq Jobs \X Nat
        /\ \A u \in DOMAIN accepted' : u[1] <= born /\ u[2] <= now
    BY <1>4, <2>1 DEF Base, AcceptedFits
  <2>4. doubled' \cup open' \subseteq DOMAIN accepted'
    BY <1>1, <1>2, <1>4 DEF Base, AcceptedFits
  <2> QED
    BY <1>1, <2>2, <2>3, <2>4 DEF AcceptedFits
<1> QED
  BY <1>3, <1>5, <1>6, <1>7 DEF Base

\* The submission ends with the job as the result leaves it.
LEMMA SettleKeeps ==
    ASSUME Base, NEW how \in Job, how.pending <= now, NEW ok \in BOOLEAN, Settle(how, ok),
           doubled' \subseteq DOMAIN accepted
    PROVE  Base'
<1>1. /\ submit # Nothing /\ jobs' = [jobs EXCEPT ![submit.job] = how]
      /\ Persist(ok) /\ Return(submit.by, submit.job, ok) /\ submit' = Nothing
      /\ UNCHANGED <<now, turns, events, accepted, up, born, asked, tainted, lost>>
  BY DEF Settle, turnVars
<1>2. JobsFit(jobs)'
  BY <1>1, SubmissionIs, OneJob
<1>3. /\ JobsFit(disk)' /\ permit' \in BOOLEAN /\ unsaved' \in BOOLEAN
      /\ faults' \in 0 .. MaxFaults /\ open' \subseteq open
  BY <1>1, <1>2, Saved
<1>4. LoopFits' /\ SubmitFits'
  BY <1>1, ReturnFits DEF SubmitFits
<1> QED
  BY <1>1, <1>2, <1>3, <1>4, ProcessKeeps

LEMMA SubmissionBase ==
    ASSUME Base, Submission
    PROVE  Base'
<1>1. CASE Accept
  BY <1>1, AcceptBase
<1>2. ASSUME NEW ok \in BOOLEAN, SubmitSucceeds(ok)
      PROVE  Base'
  <2>1. submit # Nothing /\ Settle(Submitted(jobs[submit.job]), ok) /\ doubled' = doubled
    BY <1>2 DEF SubmitSucceeds, Settle
  <2>2. PICK R : R = Submitted(jobs[submit.job])
    OBVIOUS
  <2>3. R \in Job /\ R.pending <= now
    BY <2>1, <2>2, SubmissionIs, BaseTyped, SubmittedIs DEF None
  <2> QED
    BY <2>1, <2>2, <2>3, SettleKeeps DEF Base, AcceptedFits
<1>3. ASSUME NEW ok \in BOOLEAN, SubmitFails(ok)
      PROVE  Base'
  <2>1. /\ submit # Nothing /\ doubled' = doubled
        /\ \/ Settle(Failed(jobs[submit.job]), ok)
           \/ Settle(Disabled(jobs[submit.job]), ok)
    BY <1>3 DEF SubmitFails
  <2>2. PICK F, D : F = Failed(jobs[submit.job]) /\ D = Disabled(jobs[submit.job])
    OBVIOUS
  <2>3. F \in Job /\ F.pending <= now /\ D \in Job /\ D.pending <= now
    BY <2>1, <2>2, SubmissionIs, BaseTyped, FailedIs, DisabledIs DEF None
  <2> QED
    BY <2>1, <2>2, <2>3, SettleKeeps DEF Base, AcceptedFits
<1>4. ASSUME NEW ok \in BOOLEAN, SubmitFailsAccepted(ok)
      PROVE  Base'
  <2>1. /\ submit # Nothing /\ submit.accepted /\ Settle(Failed(jobs[submit.job]), ok)
        /\ doubled' = doubled \cup {<<submit.job, submit.at>>}
    BY <1>4 DEF SubmitFailsAccepted, Settle
  <2>2. PICK F : F = Failed(jobs[submit.job])
    OBVIOUS
  <2>3. F \in Job /\ F.pending <= now
    BY <2>1, <2>2, SubmissionIs, BaseTyped, FailedIs
  <2>4. doubled' \subseteq DOMAIN accepted
    BY <2>1, SubmissionIs DEF Base, AcceptedFits
  <2> QED
    BY <2>1, <2>2, <2>3, <2>4, SettleKeeps
<1> QED
  BY <1>1, <1>2, <1>3, <1>4 DEF Submission

LEMMA TurnBase ==
    ASSUME Base, NEW t \in turns, Begin(t) \/ Finish(t) \/ Vanish(t)
    PROVE  Base'
<1>1. /\ t \in [job : Jobs, at : Nat, nr : Nat, begun : BOOLEAN]
      /\ <<t.job, t.at>> \in DOMAIN accepted /\ up
  BY DEF Base, TurnsFit
<1>2. /\ UNCHANGED <<now, jobs, disk, permit, loop, manual, submit, accepted, up, born, asked, tainted,
                     unsaved, open, doubled>>
      /\ lost' \in {lost, lost \cup {t.job}}
      /\ faults' = faults \/ Fault("lose")
  BY DEF Begin, Finish, Vanish, history
<1>3. \A u \in turns' : u \in turns \/ u = [t EXCEPT !.begun = TRUE]
  BY DEF Begin, Finish, Vanish
<1>4. \A e \in events' : e \in events \/ \E kind \in Kinds :
          e = [job |-> t.job, at |-> t.at, nr |-> t.nr, kind |-> kind]
  BY DEF Begin, Finish, Vanish, Report, Kinds
<1>5. faults' \in 0 .. MaxFaults
  BY <1>2, CronAssumption DEF Fault, Base, ClockFits
<1>6. ClockFits' /\ FlagsFit' /\ LoopFits' /\ JobsFit(jobs)' /\ JobsFit(disk)'
  BY <1>1, <1>2, <1>5, JobsSame DEF Base, ClockFits, FlagsFit, LoopFits
<1>7. SubmitFits' /\ AcceptedFits'
  BY <1>2 DEF Base, SubmitFits, AcceptedFits, Known
<1>8. TurnsFit'
  <2>1. PICK u : u = [t EXCEPT !.begun = TRUE]
    OBVIOUS
  <2>2. u \in [job : Jobs, at : Nat, nr : Nat, begun : BOOLEAN] /\ u.job = t.job /\ u.at = t.at
    BY <1>1, <2>1
  <2>3. \A e \in events' : /\ e \in [job : Jobs, at : Nat, nr : Nat, kind : Kinds]
                           /\ <<e.job, e.at>> \in DOMAIN accepted
    <3>1. ASSUME NEW kind \in Kinds, NEW e,
                 e = [job |-> t.job, at |-> t.at, nr |-> t.nr, kind |-> kind]
          PROVE  /\ e \in [job : Jobs, at : Nat, nr : Nat, kind : Kinds]
                 /\ e.job = t.job /\ e.at = t.at
      BY <1>1, <3>1
    <3>2. \A e \in events : /\ e \in [job : Jobs, at : Nat, nr : Nat, kind : Kinds]
                            /\ <<e.job, e.at>> \in DOMAIN accepted
      BY DEF Base, TurnsFit
    <3> QED
      BY <1>1, <1>4, <3>1, <3>2
  <2>4. \A v \in turns' : /\ v \in [job : Jobs, at : Nat, nr : Nat, begun : BOOLEAN]
                          /\ up /\ <<v.job, v.at>> \in DOMAIN accepted
    BY <1>1, <1>3, <2>1, <2>2 DEF Base, TurnsFit
  <2> QED
    BY <1>2, <2>3, <2>4 DEF TurnsFit
<1> QED
  BY <1>6, <1>7, <1>8 DEF Base

\* A handler finds the job, and that it waits for the turn, or changes nothing.
LEMMA HandleIs ==
    ASSUME Base, NEW e \in events, NEW ok \in BOOLEAN, Handle(e, ok)
    PROVE  \/ UNCHANGED <<jobs, disk, permit, unsaved, open, faults>>
           \/ /\ e.job \in Known /\ jobs[e.job].active = e.at /\ Persist(ok)
              /\ \E R \in Job :
                    /\ jobs' = [jobs EXCEPT ![e.job] = R]
                    /\ R.pending = jobs[e.job].pending /\ R.enqueued = jobs[e.job].enqueued
                    /\ R.next = jobs[e.job].next /\ R.enabled = jobs[e.job].enabled
                    /\ R.retry = jobs[e.job].retry
                    /\ e.kind = "started" => R.active = jobs[e.job].active
                    /\ e.kind = "ended" => R.active = None
<1>1. CASE ~(e.job \in Known /\ jobs[e.job].active = e.at)
  BY <1>1 DEF Handle
<1>2. CASE e.job \in Known /\ jobs[e.job].active = e.at
  <2>1. PICK R : R = Told(jobs[e.job], e.kind)
    OBVIOUS
  <2>2. jobs' = [jobs EXCEPT ![e.job] = R] /\ Persist(ok)
    BY <1>2, <2>1 DEF Handle
  <2>3. e.kind \in Kinds
    BY DEF Base, TurnsFit
  <2>4. /\ R \in Job /\ R.pending = jobs[e.job].pending /\ R.enqueued = jobs[e.job].enqueued
        /\ R.next = jobs[e.job].next /\ R.enabled = jobs[e.job].enabled
        /\ R.retry = jobs[e.job].retry
        /\ e.kind = "started" => R.active = jobs[e.job].active
        /\ e.kind = "ended" => R.active = None
    <3>1. jobs[e.job] \in Job
      BY <1>2, BaseTyped
    <3> QED
      BY <2>1, <2>3, <3>1, ToldIs
  <2> QED
    BY <1>2, <2>2, <2>4
<1> QED
  BY <1>1, <1>2

LEMMA HandleBase ==
    ASSUME Base, NEW e \in events, NEW ok \in BOOLEAN, Handle(e, ok)
    PROVE  Base'
<1>1. /\ Free /\ events' \subseteq events
      /\ UNCHANGED <<now, loop, manual, submit, turns, accepted, up, born, asked, tainted, doubled,
                     lost>>
  BY DEF Handle
<1>2. /\ JobsFit(jobs)' /\ JobsFit(disk)' /\ permit' \in BOOLEAN /\ unsaved' \in BOOLEAN
      /\ faults' \in 0 .. MaxFaults /\ open' \subseteq open
  <2>1. CASE UNCHANGED <<jobs, disk, permit, unsaved, open, faults>>
    BY <1>1, <2>1, JobsSame DEF Base, FlagsFit, ClockFits
  <2>2. CASE ~UNCHANGED <<jobs, disk, permit, unsaved, open, faults>>
    <3>1. e.job \in Known /\ Persist(ok)
      BY <2>2, HandleIs
    <3>2. PICK R \in Job : /\ jobs' = [jobs EXCEPT ![e.job] = R]
                           /\ R.pending = jobs[e.job].pending
      BY <2>2, HandleIs
    <3>3. JobsFit(jobs)'
      BY <1>1, <3>1, <3>2, BaseTyped, OneJob
    <3> QED
      BY <1>1, <3>1, <3>3, Saved
  <2> QED
    BY <2>1, <2>2
<1>3. ClockFits' /\ FlagsFit' /\ LoopFits'
  BY <1>1, <1>2 DEF Base, ClockFits, FlagsFit, LoopFits
<1>4. TurnsFit' /\ AcceptedFits'
  BY <1>1, <1>2 DEF Base, TurnsFit, AcceptedFits
<1>5. SubmitFits'
  BY <1>1, FreeIs DEF SubmitFits
<1> QED
  BY <1>2, <1>3, <1>4, <1>5 DEF Base

\* A restart finds the jobs as they were saved.
LEMMA RestartIs ==
    ASSUME Base, Restart
    PROVE  \/ up' = FALSE /\ jobs' = jobs /\ disk' = disk
           \/ /\ up' = up /\ disk' = jobs' /\ Known' = DOMAIN disk
              /\ \A j \in DOMAIN disk :
                    /\ disk[j] \in Job /\ disk[j].pending <= now
                    /\ jobs'[j] \in Job /\ jobs'[j].active = None
                    /\ jobs'[j].pending \in {disk[j].pending, None}
                    /\ jobs'[j].enqueued = disk[j].enqueued
                    /\ ~jobs'[j].enabled => jobs'[j].next = None
                    /\ jobs'[j].next # None =>
                          jobs'[j].next = disk[j].next \/ jobs'[j].next > now \/ ~jobs'[j].enqueued
<1>1. CASE \A j \in DOMAIN disk : Loadable(disk[j])
  <2>1. jobs' = [j \in DOMAIN disk |-> Reconciled(disk[j])] /\ disk' = jobs' /\ up' = up
    BY <1>1 DEF Restart
  <2>2. ASSUME NEW j \in DOMAIN disk
        PROVE  /\ disk[j] \in Job /\ disk[j].pending <= now
               /\ jobs'[j] \in Job /\ jobs'[j].active = None
               /\ jobs'[j].pending \in {disk[j].pending, None}
               /\ jobs'[j].enqueued = disk[j].enqueued
               /\ ~jobs'[j].enabled => jobs'[j].next = None
               /\ jobs'[j].next # None =>
                     jobs'[j].next = disk[j].next \/ jobs'[j].next > now \/ ~jobs'[j].enqueued
    <3>1. disk[j] \in Job /\ disk[j].pending <= now /\ Loadable(disk[j]) /\ now \in Nat
      BY <1>1, BaseTyped DEF Base, JobsFit
    <3>2. PICK R : R = Reconciled(disk[j])
      OBVIOUS
    <3>3. jobs'[j] = R
      BY <2>1, <3>2
    <3> QED
      BY <3>1, <3>2, <3>3, ReconciledIs
  <2>3. Known' = DOMAIN disk
    BY <2>1 DEF Known
  <2> QED
    BY <2>1, <2>2, <2>3
<1>2. CASE ~(\A j \in DOMAIN disk : Loadable(disk[j]))
  BY <1>2 DEF Restart
<1> QED
  BY <1>1, <1>2

LEMMA RestartBase ==
    ASSUME Base, Restart
    PROVE  Base'
<1>1. /\ Fault("crash") /\ up
      /\ turns' = {} /\ events' = {} /\ manual' = {} /\ submit' = Nothing
      /\ permit' = FALSE /\ unsaved' = FALSE /\ loop' = Looking
      /\ doubled' = doubled \cup open /\ open' = {}
      /\ UNCHANGED <<now, accepted, born, asked, tainted, lost>>
  BY DEF Restart
<1>2. JobsFit(jobs)' /\ JobsFit(disk)' /\ up' \in BOOLEAN
  <2>1. CASE up' = FALSE /\ jobs' = jobs /\ disk' = disk
    BY <1>1, <2>1, JobsSame
  <2>2. CASE up' # FALSE \/ jobs' # jobs \/ disk' # disk
    <3>1. up' = up /\ disk' = jobs' /\ Known' = DOMAIN disk
      BY <2>2, RestartIs
    <3>2. \A j \in DOMAIN disk : jobs'[j] \in Job /\ jobs'[j].pending <= now
      <4>1. \A j \in DOMAIN disk : /\ jobs'[j] \in Job /\ disk[j].pending <= now
                                   /\ jobs'[j].pending \in {disk[j].pending, None}
        BY <2>2, RestartIs
      <4>2. None <= now
        BY BaseTyped DEF None
      <4> QED
        BY <4>1, <4>2
    <3>3. jobs' \in [DOMAIN disk -> Job] /\ DOMAIN disk \subseteq 1 .. born
      <4>1. jobs' = [j \in DOMAIN disk |-> Reconciled(disk[j])]
        BY <2>2 DEF Restart
      <4> QED
        BY <3>2, <4>1 DEF Base, JobsFit
    <3> QED
      BY <1>1, <3>1, <3>2, <3>3 DEF JobsFit, Known, Base, FlagsFit
  <2> QED
    BY <2>1, <2>2
<1>3. ClockFits' /\ FlagsFit' /\ LoopFits'
  <2>1. faults' \in 0 .. MaxFaults
    BY <1>1, CronAssumption DEF Fault, Base, ClockFits
  <2>2. ClockFits'
    BY <1>1, <2>1 DEF Base, ClockFits
  <2>3. FlagsFit'
    BY <1>1, <1>2 DEF Base, FlagsFit
  <2>4. LoopFits'
    BY <1>1 DEF LoopFits, Looking, Times
  <2> QED
    BY <2>2, <2>3, <2>4
<1>4. TurnsFit' /\ AcceptedFits' /\ SubmitFits'
  BY <1>1 DEF Base, TurnsFit, AcceptedFits, SubmitFits
<1> QED
  BY <1>2, <1>3, <1>4 DEF Base

LEMMA InitBase ==
    ASSUME Init
    PROVE  Base
<1>1. jobs = [j \in {} |-> None] /\ disk = jobs
  BY DEF Init
<1>2. JobsFit(jobs) /\ JobsFit(disk)
  BY <1>1 DEF JobsFit
<1>3. ClockFits /\ FlagsFit
  <2>1. ClockFits
    BY CronAssumption DEF Init, ClockFits
  <2>2. FlagsFit
    BY DEF Init, FlagsFit
  <2> QED
    BY <2>1, <2>2
<1>4. LoopFits /\ SubmitFits /\ TurnsFit
  BY DEF Init, LoopFits, SubmitFits, TurnsFit, Looking, Times
<1>5. AcceptedFits
  BY DEF Init, AcceptedFits
<1> QED
  BY <1>2, <1>3, <1>4, <1>5 DEF Base

LEMMA RestBase ==
    ASSUME Base, UNCHANGED vars
    PROVE  Base'
<1>1. UNCHANGED <<now, jobs, disk, permit, loop, manual, submit, turns, events, accepted, up, born, asked,
                  faults, tainted, unsaved, open, doubled, lost>>
  BY DEF vars, turnVars, history
<1>2. ClockFits' /\ FlagsFit' /\ LoopFits' /\ JobsFit(jobs)' /\ JobsFit(disk)'
  BY <1>1, JobsSame DEF Base, ClockFits, FlagsFit, LoopFits
<1>3. SubmitFits' /\ TurnsFit' /\ AcceptedFits'
  BY <1>1 DEF Base, SubmitFits, TurnsFit, AcceptedFits, Known
<1> QED
  BY <1>2, <1>3 DEF Base

LEMMA BaseStep ==
    ASSUME Base, [Next]_vars
    PROVE  Base'
<1>1. CASE Tick
  BY <1>1, TickBase
<1>2. CASE User
  BY <1>2, CreateBase, UpdateBase, DeleteBase, RunNowBase, UpdateFailsBase DEF User
<1>3. CASE Loop
  BY <1>3, LoopBase
<1>4. CASE Process
  BY <1>4, ProcessNothingBase, ProcessFailsBase, ProcessTriggersBase DEF Process
<1>5. CASE Submission
  BY <1>5, SubmissionBase
<1>6. CASE Turn \/ \E t \in turns : Vanish(t)
  BY <1>6, TurnBase DEF Turn
<1>7. CASE \E e \in events, ok \in BOOLEAN : Handle(e, ok)
  BY <1>7, HandleBase
<1>8. CASE Restart
  BY <1>8, RestartBase
<1>9. CASE Rest \/ UNCHANGED vars
  BY <1>9, RestBase DEF Rest
<1> QED
  BY <1>1, <1>2, <1>3, <1>4, <1>5, <1>6, <1>7, <1>8, <1>9 DEF Next

LEMMA BaseHolds == Spec => []Base
<1> QED
  BY InitBase, BaseStep, PTL DEF Spec

\* Every variable keeps its type: the jobs in memory and on disk, the trigger
\* that is being submitted, which is always that of a job there is, and the
\* turns, which are all of accepted triggers.
THEOREM CronTypeCorrect == Spec => []TypeOK
<1>1. Base => TypeOK
  BY BaseTyped
<1> QED
  BY <1>1, BaseHolds, PTL
-----------------------------------------------------------------------------
(* What a step makes of a job while no submission holds the locks *)

\* The job is new.
IsNew(j) ==
    /\ j \notin Known /\ j > born
    /\ jobs'[j].pending = None /\ jobs'[j].active = None
    /\ ~jobs'[j].enabled => jobs'[j].next = None

\* Its trigger stays, is withdrawn, is the due run or that of a user; a run
\* that is scheduled comes later, or is the first of a job that has never run.
Becomes(j) ==
    /\ j \in Known
    /\ jobs'[j].enqueued = jobs[j].enqueued
    /\ \/ jobs'[j].pending \in {None, jobs[j].pending, jobs[j].next}
       \/ <<j, jobs'[j].pending>> \notin DOMAIN accepted
    /\ jobs'[j].next # None =>
           jobs'[j].next = jobs[j].next \/ jobs'[j].next > now \/ ~jobs[j].enqueued
    /\ ~jobs'[j].enabled => \/ jobs'[j].next = None \/ j \in tainted'
                            \/ ~jobs[j].enabled /\ jobs[j].next # None
    /\ \/ jobs'[j].active = jobs[j].active
       \/ /\ jobs'[j].active = None
          /\ \E e \in events : e.job = j /\ e.at = jobs[j].active /\ e.kind = "ended"

\* A submission starts with the trigger of a job that waits for no turn.
Starts ==
    submit' # Nothing =>
        /\ ~submit'.accepted /\ submit'.job \in Known'
        /\ jobs'[submit'.job].pending = submit'.at /\ jobs'[submit'.job].active = None
        /\ jobs'[submit'.job].next # submit'.at

\* The end of a turn is handled: its job does not wait for it any longer.
Handled ==
    /\ events' \subseteq events
    /\ \A e \in events \ events' :
          e.kind = "ended" /\ e.job \in Known' => jobs'[e.job].active # e.at

Revised ==
    /\ Free /\ \A j \in Known' : IsNew(j) \/ Becomes(j)
    /\ Starts /\ Handled
    /\ disk' = jobs' \/ (disk' = disk /\ open' = open)
    /\ tainted \subseteq tainted'
    /\ UNCHANGED <<turns, accepted, doubled, lost, up>>

LEMMA SameBecomes ==
    ASSUME NEW j \in Known, jobs'[j] = jobs[j]
    PROVE  Becomes(j)
BY DEF Becomes

\* A job that is replaced by one that fits, the others being left alone.
LEMMA OneRevised ==
    ASSUME Base, NEW j \in Known, NEW R \in Job, R.pending <= now,
           jobs' = [jobs EXCEPT ![j] = R], UNCHANGED <<now, born>>,
           jobs'[j] = R => Becomes(j)
    PROVE  \A i \in Known' : IsNew(i) \/ Becomes(i)
BY OneJob, SameBecomes

\* A request that saves.
LEMMA SavedRevises ==
    ASSUME Base, NEW ok \in BOOLEAN, Persist(ok), Free,
           \A j \in Known' : IsNew(j) \/ Becomes(j),
           Handled, UNCHANGED <<submit, turns, accepted, up, tainted, doubled, lost>>
    PROVE  Revised
<1>1. disk' = jobs' \/ (disk' = disk /\ open' = open)
  BY DEF Persist
<1> QED
  BY <1>1, FreeIs DEF Revised, Starts

LEMMA CreateRevises ==
    ASSUME Base, NEW s \in Schedules, NEW enabled \in BOOLEAN, NEW ok \in BOOLEAN,
           CreateJob(s, enabled, ok)
    PROVE  Revised
<1>1. PICK K \in Job :
          /\ jobs' = [i \in Known \cup {born + 1} |-> IF i = born + 1 THEN K ELSE jobs[i]]
          /\ K.pending = None /\ K.active = None /\ (~K.enabled => K.next = None)
  BY CreateIs
<1>2. born + 1 \notin Known /\ born + 1 > born
  BY BaseTyped DEF Base, JobsFit, Known
<1>3. /\ Known' = Known \cup {born + 1} /\ jobs'[born + 1] = K
      /\ \A j \in Known : jobs'[j] = jobs[j]
  BY <1>1, <1>2 DEF Known
<1>4. IsNew(born + 1)
  BY <1>1, <1>2, <1>3 DEF IsNew
<1>5. Free /\ Persist(ok) /\ UNCHANGED <<submit, turns, accepted, up, tainted, doubled, lost>> /\ Handled
  BY DEF CreateJob, turnVars, Handled
<1> QED
  BY <1>3, <1>4, <1>5, SameBecomes, SavedRevises

LEMMA UpdateRevises ==
    ASSUME Base, NEW j \in Jobs, NEW ok \in BOOLEAN, Update(j, ok)
    PROVE  Revised
<1>1. PICK R \in Job : /\ jobs' = [jobs EXCEPT ![j] = R]
                       /\ R.pending = None /\ R.retry = None
                       /\ R.active = jobs[j].active /\ R.enqueued = jobs[j].enqueued
                       /\ ~R.enabled => R.next = None
                       /\ R.next # None => R.next > now \/ ~R.enqueued
  BY UpdateIs
<1>2. /\ Free /\ Persist(ok) /\ UNCHANGED <<now, born>>
      /\ UNCHANGED <<submit, turns, accepted, up, tainted, doubled, lost>> /\ Handled
  BY DEF Update, turnVars, Handled
<1>3. j \in Known /\ R.pending <= now
  BY <1>1, UpdateIs, BaseTyped DEF None
<1>4. jobs'[j] = R => Becomes(j)
  BY <1>1, <1>3 DEF Becomes
<1>5. \A i \in Known' : IsNew(i) \/ Becomes(i)
  BY <1>1, <1>2, <1>3, <1>4, OneRevised
<1> QED
  BY <1>2, <1>5, SavedRevises

LEMMA UpdateFailsRevises ==
    ASSUME Base, NEW j \in Jobs, UpdateFails(j)
    PROVE  Revised
<1>1. PICK R \in Job : /\ jobs' = [jobs EXCEPT ![j] = R]
                       /\ R.pending \in {jobs[j].pending, None}
                       /\ R.active = jobs[j].active /\ R.enqueued = jobs[j].enqueued
                       /\ R.next = jobs[j].next
  BY UpdateFailsIs
<1>2. /\ Free /\ tainted' = tainted \cup {j}
      /\ UNCHANGED <<now, born, disk, open, submit, turnVars, up, doubled, lost>>
  BY DEF UpdateFails
<1>3. j \in Known /\ R.pending <= now
  BY <1>1, UpdateFailsIs, BaseTyped DEF None
<1>4. jobs'[j] = R => Becomes(j)
  BY <1>1, <1>2, <1>3 DEF Becomes
<1>5. \A i \in Known' : IsNew(i) \/ Becomes(i)
  BY <1>1, <1>2, <1>3, <1>4, OneRevised
<1> QED
  BY <1>2, <1>5, FreeIs DEF Revised, Starts, Handled, turnVars

LEMMA DeleteRevises ==
    ASSUME Base, NEW j \in Jobs, NEW ok \in BOOLEAN, DeleteJob(j, ok)
    PROVE  Revised
<1>1. jobs' = [i \in Known \ {j} |-> jobs[i]]
  BY DEF DeleteJob
<1>2. \A i \in Known' : i \in Known /\ jobs'[i] = jobs[i]
  BY <1>1 DEF Known
<1>3. Free /\ Persist(ok) /\ UNCHANGED <<submit, turns, accepted, up, tainted, doubled, lost>> /\ Handled
  BY DEF DeleteJob, turnVars, Handled
<1> QED
  BY <1>2, <1>3, SameBecomes, SavedRevises

LEMMA RunNowRevises ==
    ASSUME Base, NEW j \in Jobs, NEW ok \in BOOLEAN, RunJobNow(j, ok)
    PROVE  Revised
<1>1. PICK R \in Job : /\ jobs' = [jobs EXCEPT ![j] = R] /\ R.pending = now
                       /\ R.active = jobs[j].active /\ R.enqueued = jobs[j].enqueued
                       /\ R.next = jobs[j].next /\ R.enabled = jobs[j].enabled
  BY RunNowIs
<1>2. /\ Free /\ Persist(ok) /\ UNCHANGED <<now, born>>
      /\ UNCHANGED <<submit, turns, accepted, up, tainted, doubled, lost>> /\ Handled
      /\ <<j, now>> \notin DOMAIN accepted
  BY DEF RunJobNow, turnVars, Handled
<1>3. j \in Known /\ R.pending <= now
  BY <1>1, RunNowIs, BaseTyped
<1>4. jobs'[j] = R => Becomes(j)
  BY <1>1, <1>2, <1>3 DEF Becomes
<1>5. \A i \in Known' : IsNew(i) \/ Becomes(i)
  BY <1>1, <1>2, <1>3, <1>4, OneRevised
<1> QED
  BY <1>2, <1>5, SavedRevises

\* A job whose due run becomes its trigger.
LEMMA TriggerBecomes ==
    ASSUME Base, NEW j \in Known, jobs' = [jobs EXCEPT ![j] = Triggered(jobs[j])],
           UNCHANGED <<now, born>>
    PROVE  /\ \A i \in Known' : IsNew(i) \/ Becomes(i)
           /\ Known' = Known /\ jobs'[j] = Triggered(jobs[j])
           /\ Due(jobs[j]) => jobs'[j].next = None \/ jobs'[j].next > now
                                  \/ ~Computes(jobs[j].schedule, now)
<1>1. PICK R : R = Triggered(jobs[j])
  OBVIOUS
<1>2. R \in Job /\ R.pending <= now
  BY <1>1, TriggerFits
<1>3. /\ R.enabled = jobs[j].enabled /\ R.active = jobs[j].active
      /\ R.enqueued = jobs[j].enqueued
      /\ R.pending \in {jobs[j].pending, jobs[j].next}
      /\ R.next = jobs[j].next \/ R.next = None \/ R.next > now
      /\ ~Due(jobs[j]) => R.next = jobs[j].next
      /\ Due(jobs[j]) /\ Computes(jobs[j].schedule, now) => R.next = None \/ R.next > now
  <2>1. now \in Nat /\ jobs[j] \in Job
    BY BaseTyped
  <2> QED
    BY <1>1, <2>1, TriggeredIs
<1>4. jobs'[j] = R /\ Known' = Known
  BY <1>1, <1>2, OneJob
<1>5. Becomes(j)
  <2>1. ~R.enabled => R.next = None \/ (~jobs[j].enabled /\ jobs[j].next # None)
    BY <1>3 DEF Due
  <2> QED
    BY <1>3, <1>4, <2>1 DEF Becomes
<1>6. \A i \in Known' : IsNew(i) \/ Becomes(i)
  BY <1>1, <1>2, <1>5, OneRevised
<1> QED
  BY <1>1, <1>3, <1>4, <1>6

LEMMA ProcessRevises ==
    ASSUME Base, NEW j \in Jobs, NEW by \in {"loop", "user"},
           ProcessFails(by, j) \/ ProcessTriggers(by, j)
    PROVE  Revised
<1>1. /\ Free /\ j \in Known /\ jobs' = [jobs EXCEPT ![j] = Triggered(jobs[j])]
      /\ UNCHANGED <<now, born, tainted>> /\ UNCHANGED <<turns, accepted, doubled, lost, up>>
      /\ events' = events
  BY DEF ProcessFails, ProcessTriggers, turnVars, history
<1>2. \/ submit' = submit
      \/ /\ ProcessTriggers(by, j) /\ Submittable(jobs'[j])
         /\ submit' = [by |-> by, job |-> j, at |-> jobs'[j].pending, accepted |-> FALSE]
  BY DEF ProcessFails, ProcessTriggers
<1>3. disk' = jobs' \/ (disk' = disk /\ open' = open)
  BY DEF ProcessFails, ProcessTriggers, history
<1>4. Starts
  <2>1. CASE submit' = submit
    BY <1>1, <2>1, FreeIs DEF Starts
  <2>2. CASE /\ ProcessTriggers(by, j) /\ Submittable(jobs'[j])
             /\ submit' = [by |-> by, job |-> j, at |-> jobs'[j].pending, accepted |-> FALSE]
    <3>1. Due(jobs[j]) => Computes(jobs[j].schedule, now)
      BY <2>2 DEF ProcessTriggers
    <3>2. PICK R : R = Triggered(jobs[j])
      OBVIOUS
    <3>3. R \in Job /\ R.pending <= now /\ jobs'[j] = R /\ now \in Nat
      BY <1>1, <3>2, TriggerFits, TriggerBecomes, BaseTyped
    <3>4. R.next = None \/ R.next > now
      <4>1. CASE Due(jobs[j])
        BY <1>1, <3>1, <3>3, <4>1, TriggerBecomes
      <4>2. CASE ~Due(jobs[j])
        <5>1. R = jobs[j]
          BY <3>2, <4>2 DEF Triggered
        <5> QED
          BY <3>3, <4>2, <5>1, JobTyped DEF Due, Times
      <4> QED
        BY <4>1, <4>2
    <3>5. R.pending \in Nat /\ R.active = None
      BY <2>2, <3>3, JobTyped, <1>1 DEF Submittable, PendingDue, Times
    <3>6. R.next # R.pending
      BY <3>3, <3>4, <3>5 DEF None
    <3>7. /\ submit'.accepted = FALSE /\ submit'.job = j /\ submit'.at = R.pending
          /\ j \in Known'
      BY <1>1, <2>2, <3>3, TriggerBecomes
    <3> QED
      BY <3>3, <3>5, <3>6, <3>7 DEF Starts
  <2> QED
    BY <1>2, <2>1, <2>2
<1> QED
  BY <1>1, <1>3, <1>4, TriggerBecomes DEF Revised, Handled

LEMMA HandleRevises ==
    ASSUME Base, NEW e \in events, NEW ok \in BOOLEAN, Handle(e, ok)
    PROVE  Revised
<1>1. /\ Free /\ UNCHANGED <<now, born, submit, turns, accepted, up, tainted, doubled, lost>>
      /\ events' = events \ {e}
  BY DEF Handle
<1>2. CASE UNCHANGED <<jobs, disk, permit, unsaved, open, faults>>
  <2>1. \A j \in Known' : Becomes(j)
    BY <1>2, SameBecomes DEF Known
  <2>2. ASSUME e.kind = "ended", e.job \in Known, jobs[e.job].active = e.at
        PROVE  FALSE
    <3>1. jobs'[e.job] = Told(jobs[e.job], "ended")
      BY <2>2, BaseTyped DEF Handle
    <3>2. jobs[e.job] \in Job /\ "ended" \in Kinds
      BY <2>2, BaseTyped DEF Kinds
    <3>3. jobs'[e.job].active = None
      <4>1. PICK R : R = Told(jobs[e.job], "ended")
        OBVIOUS
      <4> QED
        BY <3>1, <3>2, <4>1, ToldIs
    <3>4. e.at \in Nat
      BY DEF Base, TurnsFit
    <3> QED
      BY <1>2, <2>2, <3>3, <3>4 DEF None
  <2>3. Handled
    BY <1>1, <1>2, <2>2 DEF Handled, Known
  <2> QED
    BY <1>1, <1>2, <2>1, <2>3, FreeIs DEF Revised, Starts
<1>3. CASE ~UNCHANGED <<jobs, disk, permit, unsaved, open, faults>>
  <2>1. e.job \in Known /\ jobs[e.job].active = e.at /\ Persist(ok)
    BY <1>3, HandleIs
  <2>6. e.kind \in Kinds
    BY DEF Base, TurnsFit
  <2>2. PICK R \in Job : /\ jobs' = [jobs EXCEPT ![e.job] = R]
                         /\ R.pending = jobs[e.job].pending
                         /\ R.enqueued = jobs[e.job].enqueued /\ R.next = jobs[e.job].next
                         /\ R.enabled = jobs[e.job].enabled
                         /\ e.kind = "started" => R.active = jobs[e.job].active
                         /\ e.kind = "ended" => R.active = None
    BY <1>3, HandleIs
  <2>3. jobs'[e.job] = R => Becomes(e.job)
    BY <2>1, <2>2, <2>6 DEF Becomes, Kinds
  <2>4. R.pending <= now
    BY <2>1, <2>2, BaseTyped
  <2>5. \A i \in Known' : IsNew(i) \/ Becomes(i)
    BY <1>1, <2>1, <2>2, <2>3, <2>4, OneRevised
  <2>7. Handled
    <3>1. e.at \in Nat
      BY DEF Base, TurnsFit
    <3>2. jobs'[e.job] = R
      BY <2>1, <2>2, BaseTyped
    <3> QED
      BY <1>1, <2>2, <3>1, <3>2 DEF Handled, None
  <2> QED
    BY <1>1, <2>1, <2>5, <2>7, SavedRevises
<1> QED
  BY <1>2, <1>3

\* The submission under way ends.
Trigger == <<submit.job, submit.at>>

Settles ==
    /\ submit # Nothing /\ submit' = Nothing
    /\ Known' = Known /\ \A i \in Known : i # submit.job => jobs'[i] = jobs[i]
    /\ LET J == jobs[submit.job]
           R == jobs'[submit.job]
       IN  /\ R.next \in {J.next, None} /\ (~R.enabled => ~J.enabled \/ R.next = None)
           /\ \/ /\ submit.accepted /\ doubled' = doubled
                 /\ R.pending = None /\ R.active = J.pending /\ R.enqueued
              \/ /\ R.pending \in {J.pending, None} /\ R.active = J.active
                 /\ R.enqueued = J.enqueued
                 /\ doubled' = IF submit.accepted THEN doubled \cup {Trigger} ELSE doubled
    /\ disk' = jobs' \/ (disk' = disk /\ open' = open)
    /\ permit' \/ unsaved'
    /\ UNCHANGED <<turns, events, accepted, up, tainted, lost>>

LEMMA SettleIs ==
    ASSUME Base, NEW how \in Job, how.pending <= now, NEW ok \in BOOLEAN, Settle(how, ok)
    PROVE  /\ submit # Nothing /\ submit' = Nothing
           /\ Known' = Known /\ \A i \in Known : i # submit.job => jobs'[i] = jobs[i]
           /\ jobs'[submit.job] = how
           /\ disk' = jobs' \/ (disk' = disk /\ open' = open)
           /\ permit' \/ unsaved'
           /\ UNCHANGED <<turns, events, accepted, up, tainted, lost>>
<1>1. /\ submit # Nothing /\ jobs' = [jobs EXCEPT ![submit.job] = how]
      /\ Persist(ok) /\ submit' = Nothing
      /\ UNCHANGED <<now, born>> /\ UNCHANGED <<turns, events, accepted, up, tainted, lost>>
  BY DEF Settle, turnVars
<1>2. submit.job \in Known
  BY <1>1, SubmissionIs
<1>3. /\ Known' = Known /\ jobs'[submit.job] = how
      /\ \A i \in Known : i # submit.job => jobs'[i] = jobs[i]
  BY <1>1, <1>2, OneJob
<1>4. disk' = jobs' \/ (disk' = disk /\ open' = open)
  BY <1>1 DEF Persist
<1>5. permit' \/ unsaved'
  BY <1>1 DEF Persist
<1> QED
  BY <1>1, <1>3, <1>4, <1>5

LEMMA SubmissionSettles ==
    ASSUME Base, Submission
    PROVE  Accept \/ Settles
<1>1. ASSUME NEW ok \in BOOLEAN, SubmitSucceeds(ok)
      PROVE  Settles
  <2>1. submit # Nothing /\ submit.accepted /\ doubled' = doubled
    BY <1>1 DEF SubmitSucceeds, Settle
  <2>2. PICK R : R = Submitted(jobs[submit.job])
    OBVIOUS
  <2>3. /\ R \in Job /\ R.pending = None /\ R.active = jobs[submit.job].pending /\ R.enqueued
        /\ R.next \in {jobs[submit.job].next, None}
        /\ ~R.enabled => ~jobs[submit.job].enabled \/ R.next = None
    BY <2>1, <2>2, SubmissionIs, BaseTyped, SubmittedIs
  <2>4. Settle(R, ok) /\ R.pending <= now
    BY <1>1, <2>2, <2>3, BaseTyped DEF SubmitSucceeds, None
  <2> QED
    BY <2>1, <2>3, <2>4, SettleIs DEF Settles
<1>2. ASSUME NEW ok \in BOOLEAN, SubmitFails(ok) \/ SubmitFailsAccepted(ok)
      PROVE  Settles
  <2>1. PICK F, D : F = Failed(jobs[submit.job]) /\ D = Disabled(jobs[submit.job])
    OBVIOUS
  <2>2. /\ submit # Nothing /\ (Settle(F, ok) \/ Settle(D, ok))
        /\ doubled' = IF submit.accepted THEN doubled \cup {Trigger} ELSE doubled
    BY <1>2, <2>1 DEF SubmitFails, SubmitFailsAccepted, Settle, Trigger
  <2>3. jobs[submit.job] \in Job /\ jobs[submit.job].pending <= now /\ now \in Nat
    BY <2>2, SubmissionIs, BaseTyped
  <2>4. /\ F \in Job /\ F.pending = jobs[submit.job].pending /\ F.active = jobs[submit.job].active
        /\ F.enqueued = jobs[submit.job].enqueued
        /\ F.next = jobs[submit.job].next /\ F.enabled = jobs[submit.job].enabled
    BY <2>1, <2>3, FailedIs
  <2>5. /\ D \in Job /\ D.pending = None /\ D.active = jobs[submit.job].active
        /\ D.enqueued = jobs[submit.job].enqueued /\ D.next = None
    BY <2>1, <2>3, DisabledIs
  <2>6. F.pending <= now /\ D.pending <= now
    BY <2>3, <2>4, <2>5 DEF None
  <2>7. CASE Settle(F, ok)
    BY <2>2, <2>4, <2>6, <2>7, SettleIs DEF Settles
  <2>8. CASE Settle(D, ok)
    BY <2>2, <2>5, <2>6, <2>8, SettleIs DEF Settles
  <2> QED
    BY <2>2, <2>7, <2>8
<1> QED
  BY <1>1, <1>2 DEF Submission

\* Neither the jobs nor their turns change.
Idle == UNCHANGED <<jobs, disk, submit, turns, events, accepted, up, tainted, open, doubled, lost>>

\* A turn begins, ends with a report, or is lost.
Moves(t) ==
    /\ \/ /\ turns' = (turns \ {t}) \cup {[t EXCEPT !.begun = TRUE]}
          /\ events \subseteq events' /\ \A e \in events' \ events : e.kind = "started"
          /\ UNCHANGED lost
       \/ /\ turns' = turns \ {t}
          /\ events' = events \cup {[job |-> t.job, at |-> t.at, nr |-> t.nr, kind |-> "ended"]}
          /\ UNCHANGED lost
       \/ turns' = turns \ {t} /\ lost' = lost \cup {t.job} /\ UNCHANGED events
    /\ UNCHANGED <<jobs, disk, submit, accepted, up, tainted, open, doubled>>

LEMMA MovesIs ==
    ASSUME NEW t \in turns, Begin(t) \/ Finish(t) \/ Vanish(t)
    PROVE  Moves(t)
<1>1. CASE Begin(t)
  BY <1>1 DEF Begin, Report, Moves, history
<1>2. CASE Finish(t)
  BY <1>2 DEF Finish, Report, Moves, history
<1>3. CASE Vanish(t)
  BY <1>3 DEF Vanish, Moves
<1> QED
  BY <1>1, <1>2, <1>3

\* What a step does to the jobs and their turns.
LEMMA StepIs ==
    ASSUME Base, [Next]_vars
    PROVE  \/ Revised \/ Idle \/ Accept \/ Settles \/ Restart
           \/ \E t \in turns : Moves(t)
<1>1. CASE Tick
  BY <1>1 DEF Tick, Idle, turnVars, history
<1>2. CASE User
  BY <1>2, CreateRevises, UpdateRevises, DeleteRevises, RunNowRevises, UpdateFailsRevises DEF User
<1>3. CASE Loop
  BY <1>3 DEF Loop, Look, Notified, Overslept, Processed, Idle, turnVars, history
<1>4. CASE Process
  <2>1. PICK j \in Jobs, by \in {"loop", "user"} :
            ProcessNothing(by, j) \/ ProcessFails(by, j) \/ ProcessTriggers(by, j)
    BY <1>4 DEF Process
  <2>2. CASE ProcessNothing(by, j)
    BY <2>2 DEF ProcessNothing, Idle, turnVars, history
  <2> QED
    BY <2>1, <2>2, ProcessRevises
<1>5. CASE Submission
  BY <1>5, SubmissionSettles
<1>6. CASE Turn \/ \E t \in turns : Vanish(t)
  BY <1>6, MovesIs DEF Turn
<1>7. CASE \E e \in events, ok \in BOOLEAN : Handle(e, ok)
  BY <1>7, HandleRevises
<1>8. CASE Restart
  BY <1>8
<1>9. CASE Rest \/ UNCHANGED vars
  BY <1>9 DEF Rest, vars, Idle, turnVars, history
<1> QED
  BY <1>1, <1>2, <1>3, <1>4, <1>5, <1>6, <1>7, <1>8, <1>9 DEF Next
-----------------------------------------------------------------------------
(* Disabled jobs rest *)

\* What SkippedIsNotDue rests on: no run is left in a disabled job.
DisabledRests == \A j \in Known \ tainted : ~jobs[j].enabled => jobs[j].next = None

LEMMA DisabledRestsStep ==
    ASSUME Base, DisabledRests, [Next]_vars
    PROVE  DisabledRests'
<1>1. CASE Revised
  <2>1. ASSUME NEW j \in Known' \ tainted', ~jobs'[j].enabled
        PROVE  jobs'[j].next = None
    <3>1. CASE IsNew(j)
      BY <2>1, <3>1 DEF IsNew
    <3>2. CASE Becomes(j)
      BY <1>1, <2>1, <3>2 DEF Becomes, Revised, DisabledRests
    <3> QED
      BY <1>1, <3>1, <3>2 DEF Revised
  <2> QED
    BY <2>1 DEF DisabledRests, Known
<1>2. CASE Idle \/ Accept \/ \E t \in turns : Moves(t)
  <2>1. UNCHANGED <<jobs, tainted>>
    BY <1>2 DEF Idle, Accept, Moves
  <2> QED
    BY <2>1 DEF DisabledRests, Known
<1>3. CASE Settles
  <2>1. Known' = Known /\ tainted' = tainted
    BY <1>3 DEF Settles
  <2>2. \A j \in Known : jobs'[j] = jobs[j] \/
            (~jobs'[j].enabled => (~jobs[j].enabled /\ jobs'[j].next \in {jobs[j].next, None})
                                     \/ jobs'[j].next = None)
    BY <1>3 DEF Settles
  <2> QED
    BY <2>1, <2>2 DEF DisabledRests, Known
<1>4. CASE Restart
  <2>1. tainted' = tainted
    BY <1>4 DEF Restart
  <2>2. CASE jobs' = jobs
    BY <2>1, <2>2 DEF DisabledRests, Known
  <2>3. CASE jobs' # jobs
    <3>1. Known' = DOMAIN disk
          /\ \A j \in DOMAIN disk : ~jobs'[j].enabled => jobs'[j].next = None
      BY <1>4, <2>3, RestartIs
    <3> QED
      BY <3>1 DEF DisabledRests, Known
  <2> QED
    BY <2>2, <2>3
<1> QED
  BY <1>1, <1>2, <1>3, <1>4, StepIs

LEMMA DisabledRestsHolds == Spec => []DisabledRests
<1>1. Init => DisabledRests
  BY DEF Init, DisabledRests, Known
<1> QED
  BY <1>1, BaseHolds, DisabledRestsStep, PTL DEF Spec

\* A job that process_job would skip never wakes the loop, unless a failed
\* update left it so: the loop does not turn without pause.
THEOREM SkippedRests == Spec => []SkippedIsNotDue
<1>1. ASSUME Base, DisabledRests
      PROVE  SkippedIsNotDue
  <2>1. ASSUME NEW j \in Known \ tainted, Skipped(jobs[j])
        PROVE  WakeTimes(jobs[j]) = {}
    <3>1. jobs[j].next = None /\ jobs[j].pending = None
      BY <1>1, <2>1 DEF DisabledRests, Skipped
    <3> QED
      BY <3>1 DEF WakeTimes, RetryAt
  <2> QED
    BY <2>1 DEF SkippedIsNotDue
<1> QED
  BY <1>1, BaseHolds, DisabledRestsHolds, PTL
-----------------------------------------------------------------------------
(* The loop sleeps until the next job is due *)

\* While the loop sleeps, nobody else makes it do something else.
LEMMA ReturnSleeps ==
    ASSUME Base, NEW by \in {"loop", "user"}, NEW j, NEW ok \in BOOLEAN, Calls(by, j),
           Return(by, j, ok), loop'.pc = "sleeps"
    PROVE  loop' = loop
<1>1. loop \in [pc : {"looks", "sleeps", "processes"}, until : Times, due : SUBSET Jobs]
      /\ (loop.pc # "processes" => loop.due = {})
  BY DEF Base, LoopFits
<1>2. CASE by = "loop"
  <2>1. loop.pc = "processes"
    BY <1>1, <1>2 DEF Calls
  <2>2. loop' = [loop EXCEPT !.due = @ \ {j}] \/ loop' = Looking
    BY <1>2 DEF Return
  <2> QED
    BY <1>1, <2>1, <2>2 DEF Looking
<1>3. CASE by = "user"
  BY <1>3 DEF Return
<1> QED
  BY <1>2, <1>3

\* The wake times of a job whose trigger is set, or withdrawn, come no sooner.
LEMMA LaterWakeTimes ==
    ASSUME now \in Nat, NEW J \in Job, NEW R \in Job, NEW u \in Nat,
           \A t \in WakeTimes(J) : u <= t,
           \/ R.next \in {J.next, None}
           \/ Due(J) /\ R.next > now,
           \/ R.pending = J.pending /\ R.retry = J.retry
           \/ R.pending = None
           \/ R.pending = J.next /\ R.retry = None
    PROVE  \A t \in WakeTimes(R) : u <= t
<1>1. J.next # None => J.next \in Nat /\ u <= J.next
  BY JobTyped DEF WakeTimes, Times
<1>2. R.next # None => R.next \in Nat /\ u <= R.next
  BY <1>1, JobTyped DEF Due, Times
<1>3. RetryAt(J) # None => u <= RetryAt(J)
  BY DEF WakeTimes
<1>4. RetryAt(R) # None => u <= RetryAt(R)
  BY <1>1, <1>3 DEF RetryAt
<1> QED
  BY <1>2, <1>4 DEF WakeTimes

\* A step that leaves the loop asleep, not told to wake up, changes one job at
\* most, and sets or withdraws its trigger.
LEMMA AsleepIs ==
    ASSUME Base, [Next]_vars, ~Look,
           up', loop'.pc = "sleeps", ~permit', ~unsaved', submit' = Nothing
    PROVE  /\ UNCHANGED <<loop, permit, unsaved, up>> /\ submit = Nothing
           /\ \/ UNCHANGED jobs
              \/ \E j \in Known : \E R \in Job :
                    /\ jobs' = [jobs EXCEPT ![j] = R] /\ Known' = Known /\ jobs'[j] = R
                    /\ \A i \in Known : i # j => jobs'[i] = jobs[i]
                    /\ \/ R.next \in {jobs[j].next, None}
                       \/ Due(jobs[j]) /\ R.next > now
                    /\ \/ R.pending = jobs[j].pending /\ R.retry = jobs[j].retry
                       \/ R.pending = None
                       \/ R.pending = jobs[j].next /\ R.retry = None
<1>1. CASE Tick \/ Rest \/ UNCHANGED vars \/ Turn \/ \E t \in turns : Vanish(t)
  BY <1>1 DEF Tick, Rest, vars, Turn, Begin, Finish, Vanish, history
<1>2. CASE User
  <2>1. ASSUME NEW ok \in BOOLEAN, Persist(ok)
        PROVE  FALSE
    BY <2>1 DEF Persist
  <2>2. PICK j \in Jobs : UpdateFails(j)
    BY <1>2, <2>1 DEF User, CreateJob, Update, DeleteJob, RunJobNow
  <2>3. PICK R \in Job : /\ jobs' = [jobs EXCEPT ![j] = R]
                         /\ \/ R.pending = jobs[j].pending /\ R.retry = jobs[j].retry
                            \/ R.pending = None
                         /\ R.next = jobs[j].next
    BY <2>2, UpdateFailsIs
  <2>4. j \in Known /\ R.pending <= now
    BY <2>2, <2>3, UpdateFailsIs, BaseTyped DEF None
  <2>5. /\ UNCHANGED <<loop, permit, unsaved, up>> /\ submit = Nothing
        /\ UNCHANGED <<now, born>>
    BY <2>2, FreeIs DEF UpdateFails
  <2>6. /\ Known' = Known /\ jobs'[j] = R
        /\ \A i \in Known : i # j => jobs'[i] = jobs[i]
    BY <2>3, <2>4, <2>5, OneJob
  <2> QED
    BY <2>3, <2>4, <2>5, <2>6
<1>3. CASE Notified \/ Overslept \/ Processed \/ Restart
  <2>1. loop' = Looking
    BY <1>3 DEF Notified, Overslept, Processed, Restart
  <2> QED
    BY <2>1 DEF Looking
<1>4. CASE Process
  <2>1. PICK j \in Jobs, by \in {"loop", "user"} :
            ProcessNothing(by, j) \/ ProcessFails(by, j) \/ ProcessTriggers(by, j)
    BY <1>4 DEF Process
  <2>2. /\ UNCHANGED <<permit, up, now, born>> /\ Free /\ Calls(by, j)
        /\ \E ok \in BOOLEAN : Return(by, j, ok)
        /\ UNCHANGED unsaved
    <3>1. CASE ProcessNothing(by, j) \/ ProcessFails(by, j)
      BY <3>1 DEF ProcessNothing, ProcessFails, history
    <3>2. CASE ProcessTriggers(by, j)
      <4>1. submit' = [by |-> by, job |-> j, at |-> jobs'[j].pending, accepted |-> FALSE]
                \/ \E ok \in BOOLEAN : Return(by, j, ok)
        BY <3>2 DEF ProcessTriggers
      <4>2. [by |-> by, job |-> j, at |-> jobs'[j].pending, accepted |-> FALSE] # Nothing
        <5>1. [by |-> by, job |-> j, at |-> jobs'[j].pending, accepted |-> FALSE].job = j
          OBVIOUS
        <5> QED
          BY <5>1, NothingIs
      <4> QED
        BY <3>2, <4>1, <4>2 DEF ProcessTriggers
    <3> QED
      BY <2>1, <3>1, <3>2
  <2>3. loop' = loop /\ submit = Nothing
    BY <2>2, ReturnSleeps, FreeIs
  <2>4. CASE ProcessNothing(by, j)
    BY <2>2, <2>3, <2>4 DEF ProcessNothing
  <2>5. CASE ProcessFails(by, j) \/ ProcessTriggers(by, j)
    <3>1. j \in Known /\ jobs' = [jobs EXCEPT ![j] = Triggered(jobs[j])]
      BY <2>5 DEF ProcessFails, ProcessTriggers
    <3>2. PICK R : R = Triggered(jobs[j])
      OBVIOUS
    <3>3. R \in Job /\ R.pending <= now /\ jobs' = [jobs EXCEPT ![j] = R]
      BY <3>1, <3>2, TriggerFits
    <3>4. /\ \/ R.next \in {jobs[j].next, None}
             \/ Due(jobs[j]) /\ R.next > now
          /\ \/ R.pending = jobs[j].pending /\ R.retry = jobs[j].retry
             \/ R.pending = jobs[j].next /\ R.retry = None
      <4>1. now \in Nat /\ jobs[j] \in Job
        BY <3>1, BaseTyped
      <4> QED
        BY <3>2, <4>1, TriggeredIs
    <3>5. /\ Known' = Known /\ jobs'[j] = R
          /\ \A i \in Known : i # j => jobs'[i] = jobs[i]
      BY <2>2, <3>1, <3>3, OneJob
    <3> QED
      BY <2>2, <2>3, <3>1, <3>3, <3>4, <3>5
  <2> QED
    BY <2>1, <2>4, <2>5
<1>5. CASE Submission
  <2>1. CASE Settles
    BY <2>1 DEF Settles
  <2>2. CASE Accept
    <3>1. submit' = [submit EXCEPT !.accepted = TRUE] /\ submit # Nothing
      BY <2>2 DEF Accept
    <3>2. submit \in [by : {"loop", "user"}, job : Known, at : Nat, accepted : BOOLEAN]
      BY <3>1 DEF Base, SubmitFits
    <3>3. submit'.accepted = TRUE
      BY <3>1, <3>2
    <3> QED
      BY <3>3, NothingIs
  <2> QED
    BY <1>5, <2>1, <2>2, SubmissionSettles
<1>6. CASE \E e \in events, ok \in BOOLEAN : Handle(e, ok)
  <2>1. PICK e \in events, ok \in BOOLEAN : Handle(e, ok)
    BY <1>6
  <2>2. ~Persist(ok)
    BY DEF Persist
  <2>3. UNCHANGED <<jobs, permit, unsaved>>
    BY <2>1, <2>2, HandleIs
  <2> QED
    BY <2>1, <2>3, FreeIs DEF Handle
<1> QED
  BY <1>1, <1>2, <1>3, <1>4, <1>5, <1>6 DEF Next, Loop

LEMMA SleepsStep ==
    ASSUME Base, SleepsUntilNextDue, [Next]_vars
    PROVE  SleepsUntilNextDue'
<1> SUFFICES ASSUME up', loop'.pc = "sleeps", ~permit', ~unsaved', submit' = Nothing
             PROVE  (\A j \in Known : \A t \in WakeTimes(jobs[j]) :
                        loop.until # None /\ loop.until <= t)'
  BY DEF SleepsUntilNextDue
<1>1. CASE Look
  <2>1. \A j \in Known : \A t \in WakeTimes(jobs[j]) :
            loop'.until # None /\ loop'.until <= t
    BY <1>1, LookIs
  <2>2. jobs' = jobs
    BY <1>1 DEF Look
  <2> QED
    BY <2>1, <2>2 DEF Known, WakeTimes, RetryAt
<1>2. CASE ~Look
  <2>1. UNCHANGED <<loop, permit, unsaved, up>> /\ submit = Nothing
    BY <1>2, AsleepIs
  <2>2. \A j \in Known : \A t \in WakeTimes(jobs[j]) : loop.until # None /\ loop.until <= t
    BY <2>1 DEF SleepsUntilNextDue
  <2>3. CASE UNCHANGED jobs
    BY <2>1, <2>2, <2>3 DEF Known, WakeTimes, RetryAt
  <2>4. CASE ~UNCHANGED jobs
    <3>1. PICK j \in Known, R \in Job :
            /\ Known' = Known /\ jobs'[j] = R
            /\ \A i \in Known : i # j => jobs'[i] = jobs[i]
            /\ \/ R.next \in {jobs[j].next, None}
               \/ Due(jobs[j]) /\ R.next > now
            /\ \/ R.pending = jobs[j].pending /\ R.retry = jobs[j].retry
               \/ R.pending = None
               \/ R.pending = jobs[j].next /\ R.retry = None
      BY <1>2, <2>4, AsleepIs
    <3>2. loop.until \in Times /\ jobs[j] \in Job /\ now \in Nat
      BY BaseTyped DEF Base, LoopFits
    <3>3. CASE loop.until # None
      <4>1. loop.until \in Nat
        BY <3>2, <3>3 DEF Times
      <4>2. \A t \in WakeTimes(R) : loop.until <= t
        BY <2>2, <3>1, <3>2, <4>1, LaterWakeTimes
      <4> QED
        BY <2>1, <2>2, <3>1, <3>3, <4>2 DEF Known, WakeTimes, RetryAt
    <3>4. CASE loop.until = None
      <4>1. jobs[j].next = None /\ jobs[j].pending = None
        <5>1. jobs[j].next = None /\ RetryAt(jobs[j]) = None
          BY <2>2, <3>4 DEF WakeTimes
        <5> QED
          BY <3>2, <5>1, RetryAtIs
      <4>2. R.next = None /\ R.pending = None
        BY <3>1, <4>1 DEF Due
      <4>3. WakeTimes(R) = {}
        BY <4>2 DEF WakeTimes, RetryAt
      <4> QED
        BY <2>1, <2>2, <3>1, <4>3 DEF Known, WakeTimes, RetryAt
    <3> QED
      BY <3>3, <3>4
  <2> QED
    BY <2>3, <2>4
<1> QED
  BY <1>1, <1>2

\* The loop sleeps no longer than until the next job is due, whoever changes
\* the jobs meanwhile, unless it is about to be woken or a save has failed.
THEOREM LoopWakesInTime == Spec => []SleepsUntilNextDue
<1>1. Init => SleepsUntilNextDue
  BY DEF Init, SleepsUntilNextDue, Looking
<1> QED
  BY <1>1, BaseHolds, SleepsStep, PTL DEF Spec
-----------------------------------------------------------------------------
(* A trigger becomes one turn *)

\* The trigger under submission is that of its job, which waits for no turn and
\* has been given a later run.
TriggerHeld ==
    submit # Nothing =>
        /\ jobs[submit.job].pending = submit.at /\ jobs[submit.job].active = None
        /\ jobs[submit.job].next # submit.at

\* The triggers that must not run again, but for the one whose acceptance is
\* about to be recorded.
Used == DOMAIN accepted \ doubled
UnderWay == IF submit.accepted THEN {Trigger} ELSE {}

\* The jobs will not trigger what is used: they hold no such trigger and no
\* such run, and remember that they have run.
Spent(f, S) ==
    \A j \in DOMAIN f :
        /\ <<j, f[j].pending>> \notin S /\ <<j, f[j].next>> \notin S
        /\ f[j].enqueued \/ \A t \in S : t[1] # j

MemSpent == Spent(jobs, Used \ UnderWay)
DiskSpent == Spent(disk, Used \ open)
RunsInv == TriggerHeld /\ MemSpent /\ DiskSpent /\ TriggerRunsOnce

\* What the accepted triggers are.
LEMMA AcceptedIs ==
    ASSUME Base, NEW t \in DOMAIN accepted
    PROVE  /\ t \in Jobs \X Nat /\ t = <<t[1], t[2]>>
           /\ t[1] \in Nat /\ t[1] <= born /\ t[2] \in Nat /\ t[2] <= now /\ t[2] # None
BY DEF Base, AcceptedFits, Jobs, None

\* Only an accepted submission is under way, and its trigger is open.
LEMMA UnderWayIs ==
    ASSUME Base
    PROVE  /\ submit = Nothing \/ ~submit.accepted => UnderWay = {}
           /\ UnderWay \subseteq open
           /\ submit # Nothing /\ submit.accepted => UnderWay = {Trigger}
<1>1. submit = Nothing => submit.accepted = FALSE
  BY NothingIs
<1>2. submit # Nothing /\ submit.accepted => Trigger \in open
  BY SubmissionIs DEF Trigger
<1> QED
  BY <1>1, <1>2 DEF UnderWay

LEMMA SpentLess ==
    ASSUME NEW f, NEW S, NEW T, Spent(f, S), T \subseteq S
    PROVE  Spent(f, T)
BY DEF Spent

\* The job that is under submission holds no used run either.
LEMMA NextIsFree ==
    ASSUME Base, TriggerHeld, MemSpent, NEW j \in Known
    PROVE  <<j, jobs[j].next>> \notin Used
<1>1. <<j, jobs[j].next>> \notin Used \ UnderWay
  BY DEF MemSpent, Spent, Known
<1>2. <<j, jobs[j].next>> \notin UnderWay
  <2>1. CASE submit = Nothing \/ ~submit.accepted
    BY <2>1, UnderWayIs
  <2>2. CASE submit # Nothing /\ submit.accepted
    BY <2>2 DEF UnderWay, Trigger, TriggerHeld
  <2> QED
    BY <2>1, <2>2
<1> QED
  BY <1>1, <1>2

LEMMA RevisedSpent ==
    ASSUME Base, RunsInv, Revised
    PROVE  RunsInv'
<1>1. /\ submit = Nothing /\ Used' = Used /\ accepted' = accepted /\ doubled' = doubled
  BY FreeIs DEF Revised, Used
<1>2. submit'.accepted = FALSE
  BY NothingIs DEF Revised, Starts
<1>3. UnderWay = {} /\ UnderWay' = {}
  BY <1>1, <1>2, UnderWayIs DEF UnderWay
<1>4. Spent(jobs, Used)
  BY <1>3 DEF RunsInv, MemSpent
<1>5. now \in Nat
  BY BaseTyped
<1>6. ASSUME NEW j \in Known'
      PROVE  /\ <<j, jobs'[j].pending>> \notin Used /\ <<j, jobs'[j].next>> \notin Used
             /\ jobs'[j].enqueued \/ \A t \in Used : t[1] # j
  <2>1. CASE IsNew(j)
    <3>1. \A t \in Used : t[1] # j
      BY <2>1, AcceptedIs, BaseTyped DEF IsNew, Used
    <3>2. \A x : <<j, x>>[1] = j
      OBVIOUS
    <3> QED
      BY <3>1, <3>2
  <2>2. CASE Becomes(j)
    <3>1. /\ j \in Known /\ jobs'[j].enqueued = jobs[j].enqueued
          /\ <<j, jobs[j].pending>> \notin Used /\ <<j, jobs[j].next>> \notin Used
          /\ jobs[j].enqueued \/ \A t \in Used : t[1] # j
      BY <1>4, <2>2 DEF Becomes, Spent, Known
    <3>2. <<j, None>> \notin Used
      <4>1. ASSUME <<j, None>> \in DOMAIN accepted
            PROVE  FALSE
        BY <4>1, AcceptedIs
      <4> QED
        BY <4>1 DEF Used
    <3>3. <<j, jobs'[j].pending>> \notin Used
      BY <2>2, <3>1, <3>2 DEF Becomes, Used
    <3>4. jobs'[j].next > now => <<j, jobs'[j].next>> \notin Used
      <4>1. ASSUME jobs'[j].next > now, <<j, jobs'[j].next>> \in DOMAIN accepted
            PROVE  FALSE
        <5>1. jobs'[j].next \in Nat /\ jobs'[j].next <= now
          BY <4>1, AcceptedIs
        <5> QED
          BY <1>5, <4>1, <5>1
      <4> QED
        BY <4>1 DEF Used
    <3>5. ~jobs[j].enqueued => <<j, jobs'[j].next>> \notin Used
      BY <3>1
    <3>6. <<j, jobs'[j].next>> \notin Used
      BY <2>2, <3>1, <3>2, <3>4, <3>5 DEF Becomes
    <3> QED
      BY <3>1, <3>3, <3>6
  <2> QED
    BY <2>1, <2>2 DEF Revised
<1>7. MemSpent' /\ Spent(jobs', Used')
  BY <1>1, <1>3, <1>6 DEF MemSpent, Spent, Known
<1>8. DiskSpent'
  <2>1. CASE disk' = jobs'
    BY <1>7, <2>1, SpentLess DEF DiskSpent
  <2>2. CASE disk' = disk /\ open' = open
    BY <1>1, <2>2 DEF RunsInv, DiskSpent, Spent
  <2> QED
    BY <2>1, <2>2 DEF Revised
<1>9. TriggerHeld'
  BY DEF Revised, Starts, TriggerHeld
<1> QED
  BY <1>1, <1>7, <1>8, <1>9 DEF RunsInv, TriggerRunsOnce

LEMMA SettlesSpent ==
    ASSUME Base, RunsInv, Settles
    PROVE  RunsInv'
<1> DEFINE j == submit.job
<1>1. /\ submit # Nothing /\ submit' = Nothing /\ accepted' = accepted
      /\ Known' = Known /\ j \in Known /\ \A i \in Known : i # j => jobs'[i] = jobs[i]
      /\ doubled \subseteq doubled'
      /\ disk' = jobs' \/ (disk' = disk /\ open' = open)
  BY SubmissionIs DEF Settles
<1>2. UnderWay' = {}
  BY <1>1, NothingIs DEF UnderWay
<1>3. Used' \subseteq Used
  BY <1>1 DEF Used
<1>5. \A i \in Known : /\ <<i, jobs[i].pending>> \notin Used \ UnderWay
                       /\ <<i, jobs[i].next>> \notin Used
                       /\ jobs[i].enqueued \/ \A t \in Used \ UnderWay : t[1] # i
  BY NextIsFree DEF RunsInv, MemSpent, Spent, Known
<1>6. ASSUME NEW i \in Known, i # j
      PROVE  /\ <<i, jobs'[i].pending>> \notin Used' /\ <<i, jobs'[i].next>> \notin Used'
             /\ jobs'[i].enqueued \/ \A t \in Used' : t[1] # i
  <2>1. \A t \in UnderWay : t[1] = j
    BY DEF UnderWay, Trigger
  <2>2. \A x : <<i, x>>[1] = i
    OBVIOUS
  <2> HIDE DEF j
  <2>3. <<i, jobs[i].pending>> \notin UnderWay
    BY <1>6, <2>1, <2>2
  <2> QED
    BY <1>1, <1>3, <1>5, <1>6, <2>1, <2>3
<1>7. /\ <<j, jobs'[j].pending>> \notin Used' /\ <<j, jobs'[j].next>> \notin Used'
      /\ jobs'[j].enqueued \/ \A t \in Used' : t[1] # j
  <2>1. <<j, None>> \notin Used'
    <3>1. ASSUME <<j, None>> \in DOMAIN accepted
          PROVE  FALSE
      BY <3>1, AcceptedIs
    <3> QED
      BY <1>1, <3>1 DEF Used
  <2>2. <<j, jobs'[j].next>> \notin Used'
    <3>1. jobs'[j].next \in {jobs[j].next, None}
      BY DEF Settles
    <3> QED
      BY <1>1, <1>3, <1>5, <2>1, <3>1
  <2>3. CASE jobs'[j].pending = None /\ jobs'[j].enqueued
    BY <2>1, <2>2, <2>3
  <2>4. CASE /\ jobs'[j].pending \in {jobs[j].pending, None}
             /\ jobs'[j].enqueued = jobs[j].enqueued
             /\ doubled' = IF submit.accepted THEN doubled \cup {Trigger} ELSE doubled
    <3>1. Used' \subseteq Used \ UnderWay
      BY <1>1, <2>4 DEF Used, UnderWay
    <3> QED
      BY <1>1, <1>5, <2>1, <2>2, <2>4, <3>1
  <2> QED
    BY <2>3, <2>4 DEF Settles
<1>8. Spent(jobs', Used')
  BY <1>1, <1>6, <1>7 DEF Spent, Known
<1>9. MemSpent'
  BY <1>2, <1>8 DEF MemSpent
<1>10. DiskSpent'
  <2>1. CASE disk' = jobs'
    BY <1>8, <2>1, SpentLess DEF DiskSpent
  <2>2. CASE disk' = disk /\ open' = open
    <3>1. Used' \ open' \subseteq Used \ open
      BY <1>3, <2>2
    <3> QED
      BY <2>2, <3>1, SpentLess DEF RunsInv, DiskSpent
  <2> QED
    BY <1>1, <2>1, <2>2
<1>11. TriggerHeld' /\ TriggerRunsOnce'
  BY <1>1 DEF TriggerHeld, RunsInv, TriggerRunsOnce
<1> QED
  BY <1>9, <1>10, <1>11 DEF RunsInv

\* A trigger that is accepted once more was reported as failed, or a crash
\* came before its acceptance was saved.
LEMMA AcceptedAgain ==
    ASSUME Base, TriggerHeld, MemSpent, Accept, Trigger \in DOMAIN accepted
    PROVE  Trigger \in doubled
<1>1. submit # Nothing /\ ~submit.accepted
  BY DEF Accept
<1>2. UnderWay = {} /\ submit.job \in Known
  BY <1>1, UnderWayIs, SubmissionIs
<1>3. <<submit.job, jobs[submit.job].pending>> \notin Used
  BY <1>2 DEF MemSpent, Spent, Known
<1> QED
  BY <1>1, <1>3 DEF TriggerHeld, Used, Trigger

LEMMA AcceptSpent ==
    ASSUME Base, RunsInv, Accept
    PROVE  RunsInv'
<1>1. /\ submit # Nothing /\ ~submit.accepted /\ UNCHANGED <<jobs, disk, doubled>>
      /\ submit' = [submit EXCEPT !.accepted = TRUE] /\ open' = open \cup {Trigger}
  BY DEF Accept, Trigger
<1>2. PICK n \in Nat \ {0} :
          /\ n = IF Trigger \in DOMAIN accepted THEN accepted[Trigger] + 1 ELSE 1
          /\ accepted' = [u \in DOMAIN accepted \cup {Trigger} |->
                            IF u = Trigger THEN n ELSE accepted[u]]
  BY AcceptIs DEF Trigger
<1>3. /\ submit'.accepted = TRUE /\ submit'.job = submit.job /\ submit'.at = submit.at
      /\ submit' # Nothing
  <2>1. submit \in [by : {"loop", "user"}, job : Known, at : Nat, accepted : BOOLEAN]
    BY <1>1 DEF Base, SubmitFits
  <2>2. submit'.accepted = TRUE /\ submit'.job = submit.job /\ submit'.at = submit.at
    BY <1>1, <2>1
  <2> QED
    BY <2>2, NothingIs
<1>4. UnderWay = {} /\ UnderWay' = {Trigger}
  BY <1>1, <1>3, UnderWayIs DEF UnderWay, Trigger
<1>5. Used' \subseteq Used \cup {Trigger}
  BY <1>1, <1>2 DEF Used
<1>6. MemSpent'
  <2>1. (Used \ UnderWay)' \subseteq Used \ UnderWay
    BY <1>4, <1>5
  <2>2. Spent(jobs', (Used \ UnderWay)')
    BY <1>1, <2>1, SpentLess DEF RunsInv, MemSpent
  <2> QED
    BY <2>2 DEF MemSpent
<1>7. DiskSpent'
  <2>1. Used' \ open' \subseteq Used \ open
    BY <1>1, <1>5
  <2>2. Spent(disk', Used' \ open')
    BY <1>1, <2>1, SpentLess DEF RunsInv, DiskSpent
  <2> QED
    BY <2>2 DEF DiskSpent
<1>8. TriggerHeld'
  BY <1>1, <1>3 DEF RunsInv, TriggerHeld
<1>9. TriggerRunsOnce'
  <2>1. ASSUME NEW t \in DOMAIN accepted', accepted'[t] > 1
        PROVE  t \in doubled
    <3>1. CASE t = Trigger
      <4>1. Trigger \in DOMAIN accepted
        BY <1>2, <2>1, <3>1
      <4> QED
        BY <3>1, <4>1, AcceptedAgain DEF RunsInv
    <3>2. CASE t # Trigger
      BY <1>2, <2>1, <3>2 DEF RunsInv, TriggerRunsOnce
    <3> QED
      BY <3>1, <3>2
  <2> QED
    BY <1>1, <2>1 DEF TriggerRunsOnce
<1> QED
  BY <1>6, <1>7, <1>8, <1>9 DEF RunsInv

LEMMA RestartSpent ==
    ASSUME Base, RunsInv, Restart
    PROVE  RunsInv'
<1>1. /\ submit' = Nothing /\ doubled' = doubled \cup open /\ open' = {}
      /\ accepted' = accepted /\ now' = now
  BY DEF Restart
<1>2. Used' = Used \ open /\ UnderWay' = {}
  BY <1>1, NothingIs DEF Used, UnderWay
<1>3. Spent(disk, Used')
  BY <1>2 DEF RunsInv, DiskSpent
<1>4. CASE up' = FALSE /\ jobs' = jobs /\ disk' = disk
  <2>1. Used' \subseteq Used \ UnderWay
    BY <1>2, UnderWayIs
  <2>2. Spent(jobs, Used')
    BY <2>1, SpentLess DEF RunsInv, MemSpent
  <2>3. MemSpent' /\ DiskSpent'
    <3>1. (Used \ UnderWay)' = Used' /\ (Used \ open)' = Used'
      BY <1>1, <1>2
    <3> QED
      BY <1>3, <1>4, <2>2, <3>1 DEF MemSpent, DiskSpent
  <2> QED
    BY <1>1, <2>3 DEF RunsInv, TriggerHeld, TriggerRunsOnce
<1>5. CASE ~(up' = FALSE /\ jobs' = jobs /\ disk' = disk)
  <2>1. disk' = jobs' /\ Known' = DOMAIN disk
    BY <1>5, RestartIs
  <2>2. ASSUME NEW j \in DOMAIN disk
        PROVE  /\ <<j, jobs'[j].pending>> \notin Used' /\ <<j, jobs'[j].next>> \notin Used'
               /\ jobs'[j].enqueued \/ \A t \in Used' : t[1] # j
    <3>1. /\ jobs'[j].pending \in {disk[j].pending, None} /\ jobs'[j].enqueued = disk[j].enqueued
          /\ jobs'[j].next = None \/ jobs'[j].next = disk[j].next
                \/ jobs'[j].next > now \/ ~jobs'[j].enqueued
      BY <1>5, RestartIs
    <3>2. <<j, disk[j].pending>> \notin Used' /\ <<j, disk[j].next>> \notin Used'
          /\ (disk[j].enqueued \/ \A t \in Used' : t[1] # j)
      BY <1>3 DEF Spent
    <3>3. <<j, None>> \notin Used'
      <4>1. ASSUME <<j, None>> \in DOMAIN accepted
            PROVE  FALSE
        BY <4>1, AcceptedIs
      <4> QED
        BY <1>1, <4>1 DEF Used
    <3>4. jobs'[j].next > now => <<j, jobs'[j].next>> \notin Used'
      <4>1. ASSUME jobs'[j].next > now, <<j, jobs'[j].next>> \in DOMAIN accepted
            PROVE  FALSE
        <5>1. jobs'[j].next \in Nat /\ jobs'[j].next <= now
          BY <4>1, AcceptedIs
        <5> QED
          BY <4>1, <5>1, BaseTyped
      <4> QED
        BY <1>1, <4>1 DEF Used
    <3>5. ~jobs'[j].enqueued => <<j, jobs'[j].next>> \notin Used'
      BY <3>1, <3>2
    <3>6. <<j, jobs'[j].next>> \notin Used'
      BY <3>1, <3>2, <3>3, <3>4, <3>5
    <3> QED
      BY <3>1, <3>2, <3>3, <3>6
  <2>3. Spent(jobs', Used')
    BY <2>1, <2>2 DEF Spent, Known
  <2>4. MemSpent' /\ DiskSpent'
    <3>1. (Used \ UnderWay)' = Used' /\ (Used \ open)' = Used'
      BY <1>1, <1>2
    <3> QED
      BY <2>1, <2>3, <3>1 DEF MemSpent, DiskSpent
  <2> QED
    BY <1>1, <2>4 DEF RunsInv, TriggerHeld, TriggerRunsOnce
<1> QED
  BY <1>4, <1>5

LEMMA RunsStep ==
    ASSUME Base, RunsInv, [Next]_vars
    PROVE  RunsInv'
<1>1. CASE Idle \/ \E t \in turns : Moves(t)
  <2>1. UNCHANGED <<jobs, disk, submit, accepted, open, doubled>>
    BY <1>1 DEF Idle, Moves
  <2> QED
    BY <2>1 DEF RunsInv, TriggerHeld, MemSpent, DiskSpent, Spent, Used, UnderWay, Trigger,
               TriggerRunsOnce
<1> QED
  BY <1>1, StepIs, RevisedSpent, SettlesSpent, AcceptSpent, RestartSpent

LEMMA RunsHolds == Spec => []RunsInv
<1>1. Init => RunsInv
  <2>1. ASSUME Init
        PROVE  submit = Nothing /\ DOMAIN jobs = {} /\ DOMAIN disk = {} /\ DOMAIN accepted = {}
    BY <2>1 DEF Init
  <2> QED
    BY <2>1 DEF RunsInv, TriggerHeld, MemSpent, DiskSpent, Spent, TriggerRunsOnce
<1> QED
  BY <1>1, BaseHolds, RunsStep, PTL DEF Spec

\* A trigger becomes one turn, however often its job is updated, retried, run
\* by users or reloaded, unless its acceptance was reported as an error or not
\* saved before a crash.
THEOREM TriggersRunOnce == Spec => []TriggerRunsOnce
<1>1. RunsInv => TriggerRunsOnce
  BY DEF RunsInv
<1> QED
  BY <1>1, RunsHolds, PTL
-----------------------------------------------------------------------------
(* The turns of a job do not overlap *)

\* The turn of a job is what the job waits for, or about to be.
ActiveIs ==
    \A t \in turns : t.job \in Known /\ <<t.job, t.at>> \notin doubled =>
        jobs[t.job].active = t.at \/ <<t.job, t.at>> \in UnderWay

\* A trigger of which a turn has ended has no other one.
EndsOnce ==
    \A e \in events, t \in turns :
        e.kind = "ended" /\ e.job = t.job /\ e.at = t.at => <<t.job, t.at>> \in doubled

OverlapInv == ActiveIs /\ EndsOnce /\ TurnsDoNotOverlap

LEMMA TurnIs ==
    ASSUME Base, NEW t \in turns
    PROVE  /\ t \in [job : Jobs, at : Nat, nr : Nat, begun : BOOLEAN]
           /\ t.job \in Jobs /\ t.job <= born /\ t.at \in Nat /\ t.at # None
           /\ <<t.job, t.at>> \in DOMAIN accepted
<1>1. /\ t \in [job : Jobs, at : Nat, nr : Nat, begun : BOOLEAN]
      /\ <<t.job, t.at>> \in DOMAIN accepted
  BY DEF Base, TurnsFit
<1>2. t.job <= born
  BY <1>1 DEF Base, AcceptedFits
<1> QED
  BY <1>1, <1>2 DEF None

LEMMA RevisedOverlap ==
    ASSUME Base, OverlapInv, Revised
    PROVE  OverlapInv'
<1>1. UNCHANGED <<turns, doubled>> /\ events' \subseteq events /\ submit = Nothing
  BY FreeIs DEF Revised, Handled
<1>2. UnderWay = {} /\ UnderWay' = {}
  <2>1. submit'.accepted = FALSE
    BY NothingIs DEF Revised, Starts
  <2> QED
    BY <1>1, <2>1, UnderWayIs DEF UnderWay
<1>3. ActiveIs'
  <2>1. ASSUME NEW t \in turns, t.job \in Known', <<t.job, t.at>> \notin doubled
        PROVE  jobs'[t.job].active = t.at
    <3>1. ~IsNew(t.job)
      BY TurnIs, BaseTyped, <2>1 DEF IsNew, Jobs
    <3>2. Becomes(t.job)
      BY <2>1, <3>1 DEF Revised
    <3>3. jobs[t.job].active = t.at
      BY <1>2, <2>1, <3>2 DEF OverlapInv, ActiveIs, Becomes
    <3>4. ~\E e \in events : e.job = t.job /\ e.at = t.at /\ e.kind = "ended"
      BY <2>1 DEF OverlapInv, EndsOnce
    <3> QED
      BY <3>2, <3>3, <3>4 DEF Becomes
  <2> QED
    BY <1>1, <2>1 DEF ActiveIs
<1>4. EndsOnce' /\ TurnsDoNotOverlap'
  BY <1>1 DEF OverlapInv, EndsOnce, TurnsDoNotOverlap
<1> QED
  BY <1>3, <1>4 DEF OverlapInv

LEMMA SettlesOverlap ==
    ASSUME Base, RunsInv, OverlapInv, Settles
    PROVE  OverlapInv'
<1>1. /\ submit # Nothing /\ submit' = Nothing /\ UNCHANGED <<turns, events>>
      /\ Known' = Known /\ \A i \in Known : i # submit.job => jobs'[i] = jobs[i]
      /\ doubled \subseteq doubled'
  BY DEF Settles
<1>2. /\ jobs[submit.job].pending = submit.at /\ jobs[submit.job].active = None
  BY <1>1 DEF RunsInv, TriggerHeld
<1>3. \A x : x \in UnderWay => x = Trigger /\ submit.accepted
  BY DEF UnderWay
<1>4. ActiveIs'
  <2>1. ASSUME NEW t \in turns, t.job \in Known, <<t.job, t.at>> \notin doubled'
        PROVE  jobs'[t.job].active = t.at
    <3>1. jobs[t.job].active = t.at \/ <<t.job, t.at>> \in UnderWay
      BY <1>1, <2>1 DEF OverlapInv, ActiveIs
    <3>2. CASE t.job # submit.job
      BY <1>1, <1>3, <2>1, <3>1, <3>2 DEF Trigger
    <3>3. CASE t.job = submit.job
      <4>1. <<t.job, t.at>> = Trigger /\ submit.accepted /\ t.at = submit.at
        BY <1>2, <1>3, <3>1, <3>3, TurnIs DEF Trigger
      <4>2. doubled' # doubled \cup {Trigger}
        BY <2>1, <4>1
      <4>3. jobs'[submit.job].active = jobs[submit.job].pending
        BY <4>1, <4>2 DEF Settles
      <4> QED
        BY <1>2, <3>3, <4>1, <4>3
    <3> QED
      BY <3>2, <3>3
  <2> QED
    BY <1>1, <2>1 DEF ActiveIs
<1>5. EndsOnce' /\ TurnsDoNotOverlap'
  BY <1>1 DEF OverlapInv, EndsOnce, TurnsDoNotOverlap
<1> QED
  BY <1>4, <1>5 DEF OverlapInv

\* The job whose turn is accepted has no other turn.
LEMMA AcceptOverlap ==
    ASSUME Base, RunsInv, OverlapInv, Accept
    PROVE  OverlapInv'
<1>1. /\ submit # Nothing /\ ~submit.accepted /\ UNCHANGED <<jobs, events, doubled>>
      /\ submit' = [submit EXCEPT !.accepted = TRUE]
  BY DEF Accept
<1>2. PICK n \in Nat \ {0} :
          turns' = turns \cup {[job |-> submit.job, at |-> submit.at, nr |-> n, begun |-> FALSE]}
  BY AcceptIs
<1>3. PICK new : new = [job |-> submit.job, at |-> submit.at, nr |-> n, begun |-> FALSE]
  OBVIOUS
<1>4. turns' = turns \cup {new} /\ new.job = submit.job /\ new.at = submit.at
      /\ <<new.job, new.at>> = Trigger
  BY <1>2, <1>3 DEF Trigger
<1>5. UnderWay = {} /\ UnderWay' = {Trigger}
  <2>1. submit \in [by : {"loop", "user"}, job : Known, at : Nat, accepted : BOOLEAN]
    BY <1>1 DEF Base, SubmitFits
  <2>2. submit'.accepted = TRUE /\ submit'.job = submit.job /\ submit'.at = submit.at
    BY <1>1, <2>1
  <2> QED
    BY <1>1, <2>2, UnderWayIs DEF UnderWay, Trigger
<1>6. submit.job \in Known /\ jobs[submit.job].active = None
  BY <1>1, SubmissionIs DEF RunsInv, TriggerHeld
<1>7. \A t \in turns : t.job = submit.job => <<t.job, t.at>> \in doubled
  BY <1>5, <1>6, TurnIs DEF OverlapInv, ActiveIs
<1>8. ActiveIs'
  BY <1>1, <1>4, <1>5 DEF OverlapInv, ActiveIs, Known
<1>9. EndsOnce'
  <2>1. ASSUME NEW e \in events, e.kind = "ended", e.job = new.job, e.at = new.at
        PROVE  Trigger \in doubled
    <3>1. <<e.job, e.at>> \in DOMAIN accepted
      BY DEF Base, TurnsFit
    <3> QED
      BY <1>4, <2>1, <3>1, AcceptedAgain DEF RunsInv
  <2> QED
    BY <1>1, <1>4, <2>1 DEF OverlapInv, EndsOnce
<1>10. TurnsDoNotOverlap'
  BY <1>1, <1>4, <1>7 DEF OverlapInv, TurnsDoNotOverlap
<1> QED
  BY <1>8, <1>9, <1>10 DEF OverlapInv

LEMMA MovesOverlap ==
    ASSUME Base, OverlapInv, NEW t \in turns, Moves(t)
    PROVE  OverlapInv'
<1>1. PICK u : u = [t EXCEPT !.begun = TRUE]
  OBVIOUS
<1>2. u.job = t.job /\ u.at = t.at
  BY <1>1, TurnIs
<1>3. UNCHANGED <<jobs, doubled, submit>> /\ UnderWay' = UnderWay
  BY DEF Moves, UnderWay, Trigger
<1>4. \A v \in turns' : v \in turns \/ (v = u /\ t \notin turns' \ {u})
  BY <1>1 DEF Moves
<1>5. ActiveIs'
  BY <1>2, <1>3, <1>4 DEF OverlapInv, ActiveIs, Known
<1>6. TurnsDoNotOverlap'
  <2>1. ASSUME NEW v \in turns', NEW w \in turns', v.job = w.job, v # w
        PROVE  {<<v.job, v.at>>, <<w.job, w.at>>} \cap doubled # {}
    <3>1. PICK a \in turns, b \in turns : /\ a.job = v.job /\ a.at = v.at
                                        /\ b.job = w.job /\ b.at = w.at /\ a # b
      BY <1>2, <1>4, <2>1
    <3> QED
      BY <2>1, <3>1 DEF OverlapInv, TurnsDoNotOverlap
  <2> QED
    BY <1>3, <2>1 DEF TurnsDoNotOverlap
<1>7. EndsOnce'
  <2>1. ASSUME NEW e \in events', NEW v \in turns', e.kind = "ended", e.job = v.job, e.at = v.at
        PROVE  <<v.job, v.at>> \in doubled
    <3>1. PICK w \in turns : w.job = v.job /\ w.at = v.at
      BY <1>2, <1>4
    <3>2. CASE e \in events
      BY <2>1, <3>1, <3>2 DEF OverlapInv, EndsOnce
    <3>3. CASE e \notin events
      <4>1. /\ turns' = turns \ {t}
            /\ e = [job |-> t.job, at |-> t.at, nr |-> t.nr, kind |-> "ended"]
        BY <2>1, <3>3 DEF Moves
      <4>2. e.job = t.job /\ e.at = t.at /\ v \in turns /\ v # t
        BY <4>1
      <4> QED
        BY <2>1, <4>2 DEF OverlapInv, TurnsDoNotOverlap
    <3> QED
      BY <3>2, <3>3
  <2> QED
    BY <1>3, <2>1 DEF EndsOnce
<1> QED
  BY <1>5, <1>6, <1>7 DEF OverlapInv

LEMMA OverlapStep ==
    ASSUME Base, RunsInv, OverlapInv, [Next]_vars
    PROVE  OverlapInv'
<1>1. CASE Idle
  BY <1>1 DEF Idle, OverlapInv, ActiveIs, EndsOnce, TurnsDoNotOverlap, UnderWay, Trigger, Known
<1>2. CASE Restart
  <2>1. turns' = {}
    BY <1>2 DEF Restart
  <2> QED
    BY <2>1 DEF OverlapInv, ActiveIs, EndsOnce, TurnsDoNotOverlap
<1> QED
  BY <1>1, <1>2, StepIs, RevisedOverlap, SettlesOverlap, AcceptOverlap, MovesOverlap

LEMMA OverlapHolds == Spec => []OverlapInv
<1>1. Init => OverlapInv
  BY DEF Init, OverlapInv, ActiveIs, EndsOnce, TurnsDoNotOverlap
<1> QED
  BY <1>1, BaseHolds, RunsHolds, OverlapStep, PTL DEF Spec

\* A job has one turn at a time, whether its schedule, a user, a retry or a
\* restart starts it, but for a turn whose acceptance was lost or denied.
THEOREM JobsTakeTurns == Spec => []TurnsDoNotOverlap
<1>1. OverlapInv => TurnsDoNotOverlap
  BY DEF OverlapInv
<1> QED
  BY <1>1, OverlapHolds, PTL
-----------------------------------------------------------------------------
(* What a job waits for is there *)

Lives(j, at) ==
    \/ \E t \in turns : t.job = j /\ t.at = at
    \/ \E e \in events : e.job = j /\ e.at = at /\ e.kind = "ended"
    \/ j \in lost

\* The accepted turn of the submission under way may have ended already.
LivesInv ==
    /\ ActiveTurnLives
    /\ submit.accepted => Lives(submit.job, submit.at)

LEMMA LivesAfterMove ==
    ASSUME Base, NEW t \in turns, Moves(t), NEW j, NEW at, Lives(j, at)
    PROVE  \/ \E u \in turns' : u.job = j /\ u.at = at
           \/ \E e \in events' : e.job = j /\ e.at = at /\ e.kind = "ended"
           \/ j \in lost'
<1>1. CASE /\ turns' = (turns \ {t}) \cup {[t EXCEPT !.begun = TRUE]}
           /\ events \subseteq events' /\ UNCHANGED lost
  <2>1. PICK u : u = [t EXCEPT !.begun = TRUE]
    OBVIOUS
  <2>2. u.job = t.job /\ u.at = t.at /\ u \in turns'
    BY <1>1, <2>1, TurnIs
  <2> QED
    BY <1>1, <2>2 DEF Lives
<1>2. CASE /\ turns' = turns \ {t} /\ UNCHANGED lost
           /\ events' = events \cup {[job |-> t.job, at |-> t.at, nr |-> t.nr, kind |-> "ended"]}
  <2>1. PICK e : e = [job |-> t.job, at |-> t.at, nr |-> t.nr, kind |-> "ended"]
    OBVIOUS
  <2>2. e.job = t.job /\ e.at = t.at /\ e.kind = "ended" /\ events' = events \cup {e}
    BY <1>2, <2>1
  <2> QED
    BY <1>2, <2>2 DEF Lives
<1>3. CASE turns' = turns \ {t} /\ lost' = lost \cup {t.job} /\ UNCHANGED events
  BY <1>3 DEF Lives
<1> QED
  BY <1>1, <1>2, <1>3 DEF Moves

LEMMA LivesStep ==
    ASSUME Base, RunsInv, LivesInv, [Next]_vars
    PROVE  LivesInv'
<1>1. CASE Idle
  BY <1>1 DEF Idle, LivesInv, ActiveTurnLives, Lives, Known
<1>2. CASE Revised
  <2>1. /\ UNCHANGED <<turns, lost, up>> /\ events' \subseteq events
        /\ \A e \in events \ events' :
              e.kind = "ended" /\ e.job \in Known' => jobs'[e.job].active # e.at
        /\ submit'.accepted = FALSE
    BY <1>2, NothingIs DEF Revised, Handled, Starts
  <2>2. ASSUME NEW j \in Known', up, jobs'[j].active # None
        PROVE  \/ \E t \in turns : t.job = j /\ t.at = jobs'[j].active
               \/ \E e \in events' : e.job = j /\ e.at = jobs'[j].active /\ e.kind = "ended"
               \/ j \in lost
    <3>1. j \in Known /\ jobs'[j].active = jobs[j].active
      BY <1>2, <2>2 DEF Revised, IsNew, Becomes
    <3>2. \/ \E t \in turns : t.job = j /\ t.at = jobs[j].active
          \/ \E e \in events : e.job = j /\ e.at = jobs[j].active /\ e.kind = "ended"
          \/ j \in lost
      BY <2>2, <3>1 DEF LivesInv, ActiveTurnLives
    <3> QED
      BY <2>1, <2>2, <3>1, <3>2
  <2> QED
    BY <2>1, <2>2 DEF LivesInv, ActiveTurnLives, Known
<1>3. CASE Accept
  <2>1. /\ submit # Nothing /\ UNCHANGED <<jobs, events, lost, up>>
        /\ submit' = [submit EXCEPT !.accepted = TRUE]
    BY <1>3 DEF Accept
  <2>2. PICK n \in Nat \ {0} :
          turns' = turns \cup {[job |-> submit.job, at |-> submit.at, nr |-> n, begun |-> FALSE]}
    BY <1>3, AcceptIs
  <2>3. PICK new : new = [job |-> submit.job, at |-> submit.at, nr |-> n, begun |-> FALSE]
    OBVIOUS
  <2>4. turns' = turns \cup {new} /\ new.job = submit.job /\ new.at = submit.at
    BY <2>2, <2>3
  <2>5. submit'.job = submit.job /\ submit'.at = submit.at
    <3>1. submit \in [by : {"loop", "user"}, job : Known, at : Nat, accepted : BOOLEAN]
      BY <2>1 DEF Base, SubmitFits
    <3> QED
      BY <2>1, <3>1
  <2>6. Lives(submit.job, submit.at)'
    BY <2>4, <2>5 DEF Lives
  <2>7. ActiveTurnLives'
    BY <2>1, <2>4 DEF LivesInv, ActiveTurnLives, Known
  <2> QED
    BY <2>6, <2>7 DEF LivesInv
<1>4. CASE Settles
  <2>1. /\ submit # Nothing /\ submit' = Nothing /\ UNCHANGED <<turns, events, lost, up>>
        /\ Known' = Known /\ \A i \in Known : i # submit.job => jobs'[i] = jobs[i]
    BY <1>4 DEF Settles
  <2>2. jobs[submit.job].pending = submit.at
    BY <2>1 DEF RunsInv, TriggerHeld
  <2>3. \/ jobs'[submit.job].active = jobs[submit.job].active
        \/ submit.accepted /\ jobs'[submit.job].active = submit.at
    BY <1>4, <2>2 DEF Settles
  <2>4. ActiveTurnLives'
    BY <2>1, <2>3 DEF LivesInv, ActiveTurnLives, Lives, Known
  <2> QED
    BY <2>1, <2>4, NothingIs DEF LivesInv
<1>5. CASE Restart
  <2>1. submit' = Nothing
    BY <1>5 DEF Restart
  <2>2. up' = FALSE \/ \A j \in Known' : jobs'[j].active = None
    BY <1>5, RestartIs
  <2> QED
    BY <2>1, <2>2, NothingIs DEF LivesInv, ActiveTurnLives, Known
<1>6. ASSUME NEW t \in turns, Moves(t)
      PROVE  LivesInv'
  <2>1. UNCHANGED <<jobs, up, submit>>
    BY <1>6 DEF Moves
  <2>2. \A j, at : Lives(j, at) =>
            \/ \E u \in turns' : u.job = j /\ u.at = at
            \/ \E e \in events' : e.job = j /\ e.at = at /\ e.kind = "ended"
            \/ j \in lost'
    BY <1>6, LivesAfterMove
  <2>3. \A j \in Known : up /\ jobs[j].active # None => Lives(j, jobs[j].active)
    BY DEF LivesInv, ActiveTurnLives, Lives
  <2>4. ActiveTurnLives'
    BY <2>1, <2>2, <2>3 DEF ActiveTurnLives, Known
  <2>5. submit.accepted => Lives(submit.job, submit.at)'
    BY <2>1, <2>2 DEF LivesInv, Lives
  <2> QED
    BY <2>1, <2>4, <2>5 DEF LivesInv
<1> QED
  BY <1>1, <1>2, <1>3, <1>4, <1>5, <1>6, StepIs

\* A job that waits for its turn waits for one that is there, whose end is
\* still to be reported, or that was lost: no end is missed because it came
\* before the submission was recorded.
THEOREM ActiveTurnsLive == Spec => []ActiveTurnLives
<1>1. Init => LivesInv
  <2>1. ASSUME Init
        PROVE  submit = Nothing /\ DOMAIN jobs = {}
    BY <2>1 DEF Init
  <2> QED
    BY <2>1, NothingIs DEF LivesInv, ActiveTurnLives, Known
<1>2. LivesInv => ActiveTurnLives
  BY DEF LivesInv
<1> QED
  BY <1>1, <1>2, BaseHolds, RunsHolds, LivesStep, PTL DEF Spec
=============================================================================
