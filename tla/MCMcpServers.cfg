SPECIFICATION Spec
CONSTANTS
  MaxRequests = 2
  Kinds <- AllKinds
  MaxAttempts = 1
  MaxRestarts = 1
  MaxRegistered = 2
  MaxSpawned = 3
  MaxFaults = 1
INVARIANT TypeOK
INVARIANT ChildHasOwner
INVARIANT StoppedStaysDown
INVARIANT PoolIsCurrent
