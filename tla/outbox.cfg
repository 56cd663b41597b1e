CONSTANTS
  s1 = s1
  s2 = s2
  Notes = {1, 2}
  Senders = {s1, s2}
  Batch = 2
  Lease = 4
  MaxShift = 1
  MaxFaults = 2
  None = None
SPECIFICATION FairSpec
INVARIANT OutboxInv
INVARIANT LeaseExclusive
INVARIANT RepeatsExplained
PROPERTY EventuallyDelivered
