SPECIFICATION FairSpec
CONSTANTS
  a = a
  b = b
  u1 = u1
  u2 = u2
  u3 = u3
  u4 = u4
  r1 = r1
  r2 = r2
  x1 = x1
  x2 = x2
  x3 = x3
  c1 = c1
  None = None
  Sessions <- OneSession
  Messages <- Users
  Priority <- UsersPrio
  SessionOf <- UsersOf
  ReplyTo <- UsersWait
  Interactive <- Users
  Replies <- Nobody
  Slots <- TwoSlots
  Cancels <- OneCancel
  MaxRounds = 1
  MaxQueueDepth = 1
  ChannelSize = 2
  MayFail = TRUE
INVARIANT TypeOK
INVARIANT ProcessingHasOwner
INVARIANT OneTurnUnlessDisturbed
PROPERTY EventuallyReleased
