SPECIFICATION Spec
CONSTANTS
  a = a
  b = b
  u1 = u1
  u2 = u2
  u3 = u3
  u4 = u4
  r1 = r1
  r2 = r2
  x1 = x1
  x2 = x2
  x3 = x3
  c1 = c1
  None = None
  Sessions <- OneSession
  Messages <- Many
  Priority <- UsersPrio
  SessionOf <- UsersOf
  ReplyTo <- UsersWait
  Interactive <- Nobody
  Replies <- Nobody
  Slots <- TwoSlots
  Cancels <- NoCancel
  MaxRounds = 1
  MaxQueueDepth = 2
  ChannelSize = 1
  MayFail = FALSE
SYMMETRY UserSymmetry
INVARIANT QueueHasWakeup
