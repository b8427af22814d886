SPECIFICATION FairSpec
CONSTANTS
  a = a
  b = b
  a1 = a1
  a2 = a2
  b1 = b1
  r1 = r1
  w1 = w1
  w2 = w2
  n1 = n1
  n2 = n2
  n3 = n3
  None = None
  Sessions <- TwoSessions
  Turns <- ThreeTurns
  Rollbacks <- OneRollback
  SessionOf <- TheirSession
  Workers <- TwoWorkers
  Notifies <- ThreeNotifies
  Every = 1
  ForceAfter = 2
  Cooldown = TRUE
  Scenarios <- ThreeCalls
  MaxFailures = 1
INVARIANT TypeOK
INVARIANT QueuedHasWorker
INVARIANT DueIsQueued
INVARIANT TurnSilencesMemory
INVARIANT CursorCoversSeen
PROPERTY EventuallyServed
