SPECIFICATION FairSpec
CONSTANTS
  MaxJobs = 1
  MaxRequests = 3
  MaxFaults = 0
  MaxRepeats = 2
  MaxTime = 2
  RetryDelay = 1
  Schedules <- All
  Faults <- Refusals
INVARIANT TypeOK
INVARIANT SkippedIsNotDue
PROPERTY PendingIsSettled
