SPECIFICATION FairSpec
CONSTANTS
  t1 = t1
  t2 = t2
  Tasks <- TwoTasks
  MaxQueueSize = 1
  BatchSize = 2
  Kinds <- ToolAndUsage
  MaxEvents = 3
INVARIANT TypeOK
INVARIANT NoLostWakeup
INVARIANT OverrunBounded
 
PROPERTY EventuallyEmitted
