CONSTANTS
  c1 = c1
  c2 = c2
  c3 = c3
  b1 = b1
  b2 = b2
  Calls = {c1, c2}
  Ids = {i1}
  Bodies = {b1, b2}
  Limit = 1
  QueueLimit = 2
  MaxFaults = 3
  None = None
CHECK_DEADLOCK FALSE
SPECIFICATION FairSpec
INVARIANT CountInv
INVARIANT AcceptedReached
PROPERTY AnsweredOnce
PROPERTY CapacityReturns
PROPERTY AcceptedLands
