CONSTANTS
  a1 = a1
  a2 = a2
  p1 = p1
  p2 = p2
  Policies = {p1, p2}
  Admins = {a1, a2}
  Unit = unit
  Fallible = {}
  MaxOps = 2
  MaxKills = 1
  MaxReboots = 0
  None = None
SPECIFICATION Spec
CHECK_DEADLOCK FALSE
INVARIANT PersistedWasLive
