------------------------------ MODULE CronJobs ------------------------------
(***************************************************************************)
(* The scheduled jobs (service/cron/service.rs, schedule.rs, store.rs,     *)
(* subscriber.rs): the jobs in memory and in jobs.json, the loop that      *)
(* sleeps until one is due, the users who change or run them meanwhile,    *)
(* the turns they become and the events that report their ends.            *)
(*                                                                         *)
(* mutation_lock and the write lock of `jobs` are held through an          *)
(* operation, the save and the call of DialogScheduler::submit included:   *)
(* an operation is one step, but for the submission, during which time     *)
(* passes and the turn starts and ends.                                    *)
(***************************************************************************)
EXTENDS Integers, FiniteSets, FiniteSetsExt

CONSTANTS
    MaxJobs,     \* bound: how many jobs are created, 1 .. MaxJobs in the order of their ids
    Schedules,   \* the schedules that users ask for
    RetryDelay,  \* DEFAULT_RETRY_DELAY_MS
    Faults,      \* what may fail: "save", "submit", "accepted", "missing", "lose", "crash"
    MaxRequests, \* bound: how many requests users make
    MaxFaults,   \* bound: how many saves fail, turns get lost and crashes happen
    MaxRepeats,  \* bound: how many turns one trigger becomes, by crashes and errors
    MaxTime      \* bound: the clock stops here

None == -1
Jobs == 1 .. MaxJobs
Times == Nat \cup {None}

ASSUME CronAssumption ==
    /\ MaxJobs \in Nat /\ MaxRequests \in Nat /\ MaxTime \in Nat
    /\ MaxFaults \in Nat /\ MaxRepeats \in Nat /\ RetryDelay \in Nat \ {0}
    /\ Schedules \subseteq [kind : {"at"}, at : Nat]
                             \cup [kind : {"every"}, every : Nat \ {0}, anchor : Times]
                             \cup [kind : {"cron"}, times : SUBSET Nat]

VARIABLES
    now,       \* now_ms
    jobs,      \* CronService::jobs
    disk,      \* jobs.json
    permit,    \* wakeup: notify_one has been called and no notified() has returned since
    loop,      \* run_loop: where it is, until when it sleeps, which jobs it processes
    manual,    \* jobs for which a run_job_now has released the locks and not processed
    submit,    \* the submission under way, with the locks held: [by, job, at, accepted]
    turns,     \* turns the DialogScheduler has accepted and not ended: [job, at, nr, begun]
    events,    \* what event_queue will hand to CronEventSubscriber: [job, at, nr, kind]
    up,        \* CronService::new has succeeded
    born,      \* how many jobs have been created
    asked,     \* how many requests users have made
    faults,    \* how many saves have failed, turns been lost and crashes happened
    accepted,  \* history: the triggers that have become turns, and how often
    tainted,   \* history: jobs that an update changed and then failed to
    unsaved,   \* history: a save has failed since the loop last looked at the jobs
    open,      \* history: accepted triggers whose acceptance no save has recorded yet
    doubled,   \* history: triggers accepted before an error, or before a crash and still open
    lost       \* history: jobs of which a turn ended without an event

turnVars == <<turns, events, accepted>>
history  == <<born, asked, faults, tainted, unsaved, open, doubled, lost>>
vars == <<now, jobs, disk, permit, loop, manual, submit, turnVars, up, history>>

Kinds    == {"started", "ended"}
Looking  == [pc |-> "looks", until |-> None, due |-> {}]
Nothing  == [by |-> "nobody", job |-> None, at |-> None, accepted |-> FALSE]

\* Mutant: a submission does not hold the locks.
FreeMeanwhile == up

Free == up /\ submit = Nothing        \* nobody holds the locks
Known   == DOMAIN jobs
OneShot(J) == J.schedule.kind = "at"
-----------------------------------------------------------------------------
\* compute_next_run_after_ms: a cron expression may be malformed or have no
\* occurrence left, and then there is an error.
Computes(s, after) == s.kind = "cron" => \E t \in s.times : t > after

NextRun(s, after) ==
    CASE s.kind = "at"    -> IF s.at > after THEN s.at ELSE None
      [] s.kind = "every" -> IF s.anchor > after THEN s.anchor
                             ELSE s.anchor + ((after - s.anchor) \div s.every + 1) * s.every
      [] s.kind = "cron"  -> Min({t \in s.times : t > after})

\* compute_initial_next_run_at_ms
InitialComputes(J) == OneShot(J) \/ Computes(J.schedule, now)
InitialRun(J) ==
    IF OneShot(J) THEN IF J.enqueued \/ J.active # None THEN None ELSE J.schedule.at
    ELSE NextRun(J.schedule, now)

\* validate_schedule and materialize_schedule
Valid(s, created) == Computes(s, created - 1)

\* Mutant: the anchor is left open.
Unmaterialized(s) == s

Materialized(s) == IF s.kind = "every" /\ s.anchor = None THEN [s EXCEPT !.anchor = now] ELSE s

\* next_wakeup_for_job and pending_is_due
RetryAt(J) == IF J.pending = None THEN None ELSE IF J.retry = None THEN J.pending ELSE J.retry

\* Mutant: a job is only woken for its schedule.
WakeTimesOfNext(J) == {J.next} \ {None}

WakeTimes(J) == {J.next, RetryAt(J)} \ {None}
PendingDue(J) == J.pending # None /\ RetryAt(J) <= now
-----------------------------------------------------------------------------
\* persist_jobs_locked: a save writes all jobs; when it fails, what is in
\* memory stays and the caller returns before it wakes the loop.
Fault(f) == f \in Faults /\ faults < MaxFaults /\ faults' = faults + 1

\* Mutant: the loop is not woken.
PersistSilently(ok) ==
    \/ ok /\ disk' = jobs' /\ open' = {} /\ UNCHANGED <<permit, unsaved, faults>>
    \/ ~ok /\ Fault("save") /\ unsaved' = TRUE /\ UNCHANGED <<disk, permit, open>>

Persist(ok) ==
    \/ ok /\ disk' = jobs' /\ permit' = TRUE /\ open' = {} /\ UNCHANGED <<unsaved, faults>>
    \/ ~ok /\ Fault("save") /\ unsaved' = TRUE /\ UNCHANGED <<disk, permit, open>>

Init ==
    /\ now = 0
    /\ jobs = [j \in {} |-> None] /\ disk = jobs
    /\ permit = FALSE
    /\ loop = Looking
    /\ manual = {} /\ submit = Nothing
    /\ turns = {} /\ events = {}
    /\ accepted = [t \in {} |-> 0]
    /\ up = TRUE
    /\ born = 0 /\ asked = 0 /\ faults = 0
    /\ tainted = {} /\ doubled = {} /\ open = {} /\ lost = {} /\ unsaved = FALSE

Tick ==
    /\ now < MaxTime
    /\ now' = now + 1
    /\ UNCHANGED <<jobs, disk, permit, loop, manual, submit, turnVars, up, history>>

\* A request of a user or of the Cron tool.
Ask == asked < MaxRequests /\ asked' = asked + 1

CreateJob(s, enabled, ok) ==
    /\ Ask /\ Free /\ born < MaxJobs
    /\ Valid(s, now)
    /\ LET J == [enabled |-> enabled, schedule |-> Materialized(s), created |-> now,
                 next |-> None, pending |-> None, retry |-> None,
                 active |-> None, enqueued |-> FALSE]
           K == IF enabled THEN [J EXCEPT !.next = InitialRun(J)] ELSE J
       IN  /\ enabled => InitialComputes(J)
           /\ jobs' = [i \in Known \cup {born + 1} |-> IF i = born + 1 THEN K ELSE jobs[i]]
    /\ born' = born + 1
    /\ Persist(ok)
    /\ UNCHANGED <<now, loop, manual, submit, turnVars, up, tainted, doubled, lost>>

\* update_job: what the request changes; the other fields are not modelled.
Asked(j, enabled, s) == [jobs[j] EXCEPT !.enabled = enabled, !.schedule = s]
Requests(j) == {Asked(j, enabled, s) : enabled \in BOOLEAN,
                  s \in {Materialized(r) : r \in Schedules} \cup {jobs[j].schedule}}

Acceptable(J) == Valid(J.schedule, J.created) /\ (J.enabled => InitialComputes(J))

\* Mutant: a job whose turn is under way is armed like any other.
RescheduledAnyway(J) ==
    [J EXCEPT !.pending = None, !.retry = None, !.active = None,
              !.next = IF J.enabled THEN InitialRun(J) ELSE None]

\* Mutant: disabling leaves the next run.
RescheduledKeeping(J) ==
    [J EXCEPT !.pending = None, !.retry = None,
              !.next = IF ~J.enabled THEN J.next
                       ELSE IF J.active = None THEN InitialRun(J)
                       ELSE IF OneShot(J) THEN None ELSE NextRun(J.schedule, now)]

\* What follows from it.
Rescheduled(J) ==
    [J EXCEPT !.pending = None, !.retry = None,
              !.next = IF ~J.enabled THEN None
                       ELSE IF J.active = None THEN InitialRun(J)
                       ELSE IF OneShot(J) THEN None ELSE NextRun(J.schedule, now)]

Update(j, ok) ==
    /\ Ask /\ Free /\ j \in Known
    /\ \E J \in Requests(j) : Acceptable(J) /\ jobs' = [jobs EXCEPT ![j] = Rescheduled(J)]
    /\ Persist(ok)
    /\ UNCHANGED <<now, loop, manual, submit, turnVars, up, born, tainted, doubled, lost>>

\* The request turns out to be unacceptable when it is in the job already: for
\* an empty name or text or a malformed schedule, or for a schedule that has no
\* run left.
UpdateFails(j) ==
    /\ Ask /\ Free /\ j \in Known
    /\ \E J \in Requests(j) :
         \/ jobs' = [jobs EXCEPT ![j] = J]
         \/ /\ Valid(J.schedule, J.created) /\ ~Acceptable(J)
            /\ jobs' = [jobs EXCEPT ![j] = [J EXCEPT !.pending = None, !.retry = None]]
    /\ tainted' = tainted \cup {j}
    /\ UNCHANGED <<now, disk, permit, loop, manual, submit, turnVars, up, born, unsaved, open,
                   faults, doubled, lost>>

\* delete_job and delete_jobs_for_session
DeleteJob(j, ok) ==
    /\ Ask /\ Free /\ j \in Known
    /\ jobs' = [i \in Known \ {j} |-> jobs[i]]
    /\ Persist(ok)
    /\ UNCHANGED <<now, loop, manual, submit, turnVars, up, born, tainted, doubled, lost>>
-----------------------------------------------------------------------------
\* run_job_now, first half: the trigger is set, whatever the schedule says.
\* Two triggers of one job in the same millisecond are left out.
RunJobNow(j, ok) ==
    /\ Ask /\ Free /\ j \in Known /\ j \notin manual
    /\ <<j, now>> \notin DOMAIN accepted /\ jobs[j].next # now
    /\ jobs' = [jobs EXCEPT ![j].pending = now, ![j].retry = None]
    /\ Persist(ok)
    /\ manual' = IF ok THEN manual \cup {j} ELSE manual
    /\ UNCHANGED <<now, loop, submit, turnVars, up, born, tainted, doubled, lost>>

\* next_wakeup_at, and which jobs process_due_jobs finds due.
Wakeups == UNION {WakeTimes(jobs[j]) : j \in Known}
DueJobs == {j \in Known : \E t \in WakeTimes(jobs[j]) : t <= now}

\* run_loop: next_wakeup_at, and process_due_jobs when a job is due, which
\* looks at the jobs once more.
Look ==
    /\ Free /\ loop.pc = "looks"
    /\ loop' = IF DueJobs # {} THEN [pc |-> "processes", until |-> None, due |-> DueJobs]
               ELSE [pc |-> "sleeps", due |-> {},
                     until |-> IF Wakeups = {} THEN None ELSE Min(Wakeups)]
    /\ unsaved' = FALSE
    /\ UNCHANGED <<now, jobs, disk, permit, manual, submit, turnVars, up, born, asked, tainted,
                   open, faults, doubled, lost>>

\* The select of the sleep and of notified().
Notified ==
    /\ up /\ loop.pc = "sleeps" /\ permit
    /\ permit' = FALSE
    /\ loop' = Looking
    /\ UNCHANGED <<now, jobs, disk, manual, submit, turnVars, up, history>>

Overslept ==
    /\ up /\ loop.pc = "sleeps" /\ loop.until # None /\ loop.until <= now
    /\ loop' = Looking
    /\ UNCHANGED <<now, jobs, disk, permit, manual, submit, turnVars, up, history>>

Processed ==
    /\ up /\ loop.pc = "processes" /\ loop.due = {}
    /\ loop' = Looking
    /\ UNCHANGED <<now, jobs, disk, permit, manual, submit, turnVars, up, history>>

\* Who calls process_job, and for which job: the loop, which takes the due jobs
\* in some order, or the second half of run_job_now.
Calls(by, j) ==
    \/ by = "loop" /\ j \in loop.due
    \/ by = "user" /\ j \in manual

\* process_job returns to its caller; after an error the loop drops the other
\* jobs and, a second later, looks again.
Return(by, j, ok) ==
    \/ /\ by = "loop" /\ UNCHANGED manual
       /\ loop' = IF ok THEN [loop EXCEPT !.due = @ \ {j}] ELSE Looking
    \/ by = "user" /\ manual' = manual \ {j} /\ UNCHANGED loop
-----------------------------------------------------------------------------
Skipped(J) == ~J.enabled /\ J.pending = None
Due(J) == J.next # None /\ J.next <= now

\* A run that is due becomes the pending trigger, or is coalesced with the one
\* that is pending or with the turn under way; the next one is computed last.
Triggered(J) ==
    LET K == IF J.active # None \/ J.pending # None THEN J
             ELSE [J EXCEPT !.pending = J.next, !.retry = None]
    IN  IF ~Due(J) THEN J
        ELSE IF ~Computes(J.schedule, now) THEN K
        ELSE [K EXCEPT !.next = NextRun(J.schedule, now)]

Submittable(J) == J.active = None /\ PendingDue(J)

\* process_job: there is nothing to submit (any more).
ProcessNothing(by, j) ==
    /\ Free /\ Calls(by, j)
    /\ \/ j \notin Known
       \/ j \in Known /\ Skipped(jobs[j])
       \/ j \in Known /\ ~Skipped(jobs[j]) /\ ~Due(jobs[j]) /\ ~Submittable(jobs[j])
    /\ Return(by, j, TRUE)
    /\ UNCHANGED <<now, jobs, disk, permit, submit, turnVars, up, history>>

\* The next run cannot be computed: the trigger is set and never submitted.
ProcessFails(by, j) ==
    /\ Free /\ Calls(by, j)
    /\ j \in Known /\ ~Skipped(jobs[j]) /\ Due(jobs[j]) /\ ~Computes(jobs[j].schedule, now)
    /\ jobs' = [jobs EXCEPT ![j] = Triggered(jobs[j])]
    /\ Return(by, j, FALSE)
    /\ UNCHANGED <<now, disk, permit, submit, turnVars, up, history>>

\* The trigger is saved before it is submitted, if there was one; this save
\* does not wake the loop.
ProcessTriggers(by, j) ==
    /\ Free /\ Calls(by, j)
    /\ j \in Known /\ ~Skipped(jobs[j])
    /\ Due(jobs[j]) => Computes(jobs[j].schedule, now)
    /\ Due(jobs[j]) \/ Submittable(jobs[j])
    /\ jobs' = [jobs EXCEPT ![j] = Triggered(jobs[j])]
    /\ \/ /\ disk' = IF Due(jobs[j]) THEN jobs' ELSE disk
          /\ IF Submittable(jobs'[j])
             THEN /\ submit' = [by |-> by, job |-> j, at |-> jobs'[j].pending, accepted |-> FALSE]
                  /\ UNCHANGED <<loop, manual>>
             ELSE Return(by, j, TRUE) /\ UNCHANGED submit
          /\ open' = IF Due(jobs[j]) THEN {} ELSE open
          /\ UNCHANGED <<unsaved, faults>>
       \/ /\ Due(jobs[j]) /\ Fault("save")
          /\ unsaved' = TRUE
          /\ Return(by, j, FALSE)
          /\ UNCHANGED <<disk, submit, open>>
    /\ UNCHANGED <<now, permit, turnVars, up, born, asked, tainted, doubled, lost>>

\* DialogScheduler::submit queues or starts the turn ...
Accept ==
    /\ submit # Nothing /\ ~submit.accepted
    /\ LET t == <<submit.job, submit.at>>
           n == IF t \in DOMAIN accepted THEN accepted[t] + 1 ELSE 1
       IN  /\ n <= MaxRepeats
           /\ accepted' = [u \in DOMAIN accepted \cup {t} |-> IF u = t THEN n ELSE accepted[u]]
           /\ turns' = turns \cup
                {[job |-> submit.job, at |-> submit.at, nr |-> n, begun |-> FALSE]}
    /\ submit' = [submit EXCEPT !.accepted = TRUE]
    /\ open' = open \cup {<<submit.job, submit.at>>}
    /\ UNCHANGED <<now, jobs, disk, permit, loop, manual, events, up, born, asked, tainted, unsaved,
                   faults, doubled, lost>>

Submitted(J) ==
    LET K == [J EXCEPT !.active = J.pending, !.pending = None, !.retry = None, !.enqueued = TRUE]
    IN  IF OneShot(J) THEN [K EXCEPT !.enabled = FALSE, !.next = None] ELSE K

\* ... and process_job records what it has returned: success, an error ...
Failed(J) == [J EXCEPT !.retry = Min({now + RetryDelay, MaxTime})]

\* ... or the error that says the session is gone.
Disabled(J) == [J EXCEPT !.enabled = FALSE, !.next = None, !.pending = None, !.retry = None]

Settle(how, ok) ==
    /\ submit # Nothing
    /\ jobs' = [jobs EXCEPT ![submit.job] = how]
    /\ Persist(ok)
    /\ Return(submit.by, submit.job, ok)
    /\ submit' = Nothing
    /\ UNCHANGED <<now, turnVars, up, born, asked, tainted, lost>>

SubmitSucceeds(ok) ==
    /\ submit.accepted
    /\ Settle(Submitted(jobs[submit.job]), ok)
    /\ UNCHANGED doubled

SubmitFails(ok) ==
    /\ submit # Nothing /\ ~submit.accepted
    /\ \/ "submit" \in Faults /\ Settle(Failed(jobs[submit.job]), ok)
       \/ "missing" \in Faults /\ Settle(Disabled(jobs[submit.job]), ok)
    /\ UNCHANGED doubled

\* An error after the turn was queued: it was another one that could not be
\* started.
SubmitFailsAccepted(ok) ==
    /\ submit.accepted /\ "accepted" \in Faults
    /\ Settle(Failed(jobs[submit.job]), ok)
    /\ doubled' = doubled \cup {<<submit.job, submit.at>>}
-----------------------------------------------------------------------------
\* The turn begins, ends with an event or, cleared from the queue of its
\* session or reported to a full event queue, without one.
Report(t, kind) ==
    events' = events \cup {[job |-> t.job, at |-> t.at, nr |-> t.nr, kind |-> kind]}

Begin(t) ==
    /\ t \in turns /\ ~t.begun
    /\ turns' = (turns \ {t}) \cup {[t EXCEPT !.begun = TRUE]}
    /\ Report(t, "started")
    /\ UNCHANGED <<now, jobs, disk, permit, loop, manual, submit, accepted, up, history>>

Finish(t) ==
    /\ t \in turns /\ t.begun
    /\ turns' = turns \ {t}
    /\ Report(t, "ended")
    /\ UNCHANGED <<now, jobs, disk, permit, loop, manual, submit, accepted, up, history>>

Vanish(t) ==
    /\ Fault("lose") /\ t \in turns
    /\ turns' = turns \ {t}
    /\ lost' = lost \cup {t.job}
    /\ UNCHANGED <<now, jobs, disk, permit, loop, manual, submit, events, accepted, up,
                   born, asked, tainted, unsaved, open, doubled>>

Told(J, kind) == IF kind = "started" THEN J ELSE [J EXCEPT !.active = None]

\* handle_turn_started, _completed, _failed and _cancelled, which differ in the
\* status they record.  Failures and cancellations overtake the start of their
\* turn in the event queue.
Handle(e, ok) ==
    /\ Free /\ e \in events
    /\ events' = events \ {e}
    /\ IF e.job \in Known /\ jobs[e.job].active = e.at
       THEN /\ jobs' = [jobs EXCEPT ![e.job] = Told(@, e.kind)]
            /\ Persist(ok)
       ELSE ok /\ UNCHANGED <<jobs, disk, permit, unsaved, open, faults>>
    /\ UNCHANGED <<now, loop, manual, submit, turns, accepted, up, born, asked, tainted, doubled,
                   lost>>
-----------------------------------------------------------------------------
\* Mutant: a job still waits for its turn after a restart.
ReconciledWaiting(J) ==
    IF ~J.enabled THEN [J EXCEPT !.next = None, !.pending = None, !.retry = None]
    ELSE IF J.pending # None THEN [J EXCEPT !.retry = IF @ = None THEN now ELSE @]
    ELSE J

\* Mutant: a turn that the restart has ended is tried again.
ReconciledAgain(J) ==
    IF J.active = None THEN J
    ELSE [J EXCEPT !.active = None, !.pending = J.active, !.retry = now]

\* reconcile_loaded_job
Reconciled(J) ==
    LET K == IF J.active = None THEN J
             ELSE [J EXCEPT !.active = None, !.pending = None, !.retry = None]
    IN  IF ~K.enabled THEN [K EXCEPT !.next = None, !.pending = None, !.retry = None]
        ELSE IF K.pending # None THEN [K EXCEPT !.retry = IF @ = None THEN now ELSE @]
        ELSE IF K.next = None THEN [K EXCEPT !.next = InitialRun(K)]
        ELSE K

Loadable(J) ==
    /\ Valid(J.schedule, J.created)
    /\ J.enabled /\ (J.active # None \/ J.pending = None) /\ J.next = None => InitialComputes(J)

\* The process ends and starts again: new() loads jobs.json, reconciles and
\* saves it, or fails, and with it the start of the application.
Restart ==
    /\ Fault("crash") /\ up
    /\ turns' = {} /\ events' = {} /\ manual' = {} /\ submit' = Nothing
    /\ permit' = FALSE /\ unsaved' = FALSE
    /\ loop' = Looking
    /\ doubled' = doubled \cup open /\ open' = {}
    /\ IF \A j \in DOMAIN disk : Loadable(disk[j])
       THEN /\ jobs' = [j \in DOMAIN disk |-> Reconciled(disk[j])]
            /\ disk' = jobs'
            /\ UNCHANGED up
       ELSE up' = FALSE /\ UNCHANGED <<jobs, disk>>
    /\ UNCHANGED <<now, accepted, born, asked, tainted, lost>>

\* The clock has stopped and all is done, or the application does not start.
Rest ==
    /\ ~up \/ now = MaxTime
    /\ UNCHANGED vars

Process == \E j \in Jobs, by \in {"loop", "user"} :
    ProcessNothing(by, j) \/ ProcessFails(by, j) \/ ProcessTriggers(by, j)

Loop == Look \/ Notified \/ Overslept \/ Processed

User ==
    \E ok \in BOOLEAN :
      \/ \E s \in Schedules, enabled \in BOOLEAN : CreateJob(s, enabled, ok)
      \/ \E j \in Jobs : Update(j, ok) \/ DeleteJob(j, ok) \/ RunJobNow(j, ok)
      \/ \E j \in Jobs : UpdateFails(j)

Submission == Accept \/ \E ok \in BOOLEAN :
                SubmitSucceeds(ok) \/ SubmitFails(ok) \/ SubmitFailsAccepted(ok)

Turn == \E t \in turns : Begin(t) \/ Finish(t)

Next ==
    \/ Tick \/ User \/ Loop \/ Process \/ Submission \/ Turn
    \/ \E t \in turns : Vanish(t)
    \/ \E e \in events, ok \in BOOLEAN : Handle(e, ok)
    \/ Restart \/ Rest

Spec == Init /\ [][Next]_vars

\* Time passes; tokio polls the loop, the submission and the handlers, which
\* get the fair mutation_lock in turn; turns end, and one that is submitted
\* again and again is accepted in the end.
Fairness ==
    /\ WF_vars(Tick) /\ WF_vars(Loop) /\ WF_vars(Process)
    /\ WF_vars(Submission) /\ SF_vars(Accept) /\ WF_vars(Turn)
    /\ WF_vars(\E e \in events, ok \in BOOLEAN : Handle(e, ok))

FairSpec == Spec /\ Fairness
-----------------------------------------------------------------------------
Schedule == [kind : {"at"}, at : Nat]
                \cup [kind : {"every"}, every : Nat \ {0}, anchor : Nat]
                \cup [kind : {"cron"}, times : SUBSET Nat]

Job == [enabled : BOOLEAN, schedule : Schedule, created : Nat, next : Times, pending : Times,
        retry : Times, active : Times, enqueued : BOOLEAN]

TypeOK ==
    /\ now \in 0 .. MaxTime
    /\ Known \subseteq Jobs /\ jobs \in [Known -> Job]
    /\ DOMAIN disk \subseteq Jobs /\ disk \in [DOMAIN disk -> Job]
    /\ permit \in BOOLEAN /\ up \in BOOLEAN /\ unsaved \in BOOLEAN
    /\ loop \in [pc : {"looks", "sleeps", "processes"}, until : Times, due : SUBSET Jobs]
    /\ manual \subseteq Jobs /\ tainted \subseteq Jobs /\ lost \subseteq Jobs
    /\ born \in 0 .. MaxJobs /\ asked \in 0 .. MaxRequests /\ faults \in 0 .. MaxFaults
    /\ submit # Nothing =>
           submit \in [by : {"loop", "user"}, job : Known, at : Nat, accepted : BOOLEAN]
    /\ turns \subseteq [job : Jobs, at : Nat, nr : Nat, begun : BOOLEAN]
    /\ events \subseteq [job : Jobs, at : Nat, nr : Nat, kind : Kinds]
    /\ accepted \in [DOMAIN accepted -> Nat \ {0}] /\ DOMAIN accepted \subseteq Jobs \X Nat
    /\ doubled \cup open \subseteq DOMAIN accepted

\* The turns of a job do not overlap, however its runs become due, are asked
\* for by users, retried or restarted, but for a turn that was accepted though
\* submit reported an error.
TurnsDoNotOverlap ==
    \A t, u \in turns : t.job = u.job /\ t # u =>
      {<<t.job, t.at>>, <<u.job, u.at>>} \cap doubled # {}

\* A trigger becomes one turn.  Only a crash before its acceptance was saved,
\* or an error reported of an accepted turn, makes it two.
TriggerRunsOnce == \A t \in DOMAIN accepted : accepted[t] > 1 => t \in doubled

\* A job that waits for its turn waits for one that is there or whose end is
\* being reported, unless the turn was lost: the end of a turn that is quicker
\* than its submission is not missed.
ActiveTurnLives ==
    \A j \in Known : up /\ jobs[j].active # None =>
      \/ \E t \in turns : t.job = j /\ t.at = jobs[j].active
      \/ \E e \in events : e.job = j /\ e.at = jobs[j].active /\ e.kind = "ended"
      \/ j \in lost

\* The loop sleeps no longer than until the next job is due, or is about to be
\* woken, unless an operation failed to save and so did not wake it.
SleepsUntilNextDue ==
    up /\ loop.pc = "sleeps" /\ ~permit /\ ~unsaved /\ submit = Nothing =>
      \A j \in Known : \A t \in WakeTimes(jobs[j]) : loop.until # None /\ loop.until <= t

\* A job that process_job would skip is not one the loop finds due, else the
\* loop would turn without pause; a failed update can leave such a job.
SkippedIsNotDue ==
    \A j \in Known \ tainted : up /\ Skipped(jobs[j]) => WakeTimes(jobs[j]) = {}

\* A trigger is submitted, however often that fails, or withdrawn, but for a
\* job whose schedule has no further run: process_job returns before it submits
\* the last one.
PendingIsSettled ==
    \A j \in Jobs : (j \in Known /\ jobs[j].pending # None)
      ~> (j \notin Known \/ jobs[j].pending = None \/ ~Computes(jobs[j].schedule, now))
=============================================================================
