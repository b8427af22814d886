SPECIFICATION Spec
CONSTANTS
  r1 = r1
  r2 = r2
  N = 2
  Asks <- Second
  Streams <- Second
  Faulty <- First
  MaxRetries = 1
  Requests <- OneRequest
  Kinds <- Edits
INVARIANT UserArgumentsRun
