SPECIFICATION Spec
CONSTANTS
  MaxJobs = 1
  MaxRequests = 2
  MaxFaults = 2
  MaxRepeats = 2
  MaxTime = 2
  RetryDelay = 1
  Schedules <- Lasting
  Faults <- Crashes
INVARIANT TurnsDoNotOverlap
INVARIANT TriggerRunsOnce
INVARIANT ActiveTurnLives
INVARIANT SleepsUntilNextDue
