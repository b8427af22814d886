SPECIFICATION Spec
CONSTANTS
  m1 = m1
  m2 = m2
  m3 = m3
  m4 = m4
  m5 = m5
  t1 = t1
  t2 = t2
  t3 = t3
  Messages <- Five
  Priority <- FivePrio
  Procs <- Tasks
  MaxQueueDepth = 2
SYMMETRY TaskSymmetry
INVARIANT NoLossNoDuplicate
INVARIANT OverrunBounded
INVARIANT OrderedUnlessRaced
