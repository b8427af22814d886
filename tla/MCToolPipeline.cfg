SPECIFICATION Spec
CONSTANTS
  r1 = r1
  r2 = r2
  N = 2
  Asks <- Second
  Streams <- Second
  Faulty <- First
  MaxRetries = 1
  Requests <- TwoRequests
  Kinds <- Plain
SYMMETRY RequestSymmetry
INVARIANT TypeOK
INVARIANT NothingRunsUnconfirmed
INVARIANT StoppedStartsNothing
INVARIANT LeftBehind
INVARIANT StatusTellsEnd
PROPERTY FollowsSchedule
