CONSTANTS
  a1 = a1
  a2 = a2
  p1 = p1
  p2 = p2
  Policies = {p1, p2}
  Admins = {a1, a2}
  Unit = unit
  Fallible = {"check", "arm", "load", "restore", "write", "reload", "enable", "undo", "stop"}
  MaxOps = 4
  MaxKills = 1
  MaxReboots = 1
  None = None
CHECK_DEADLOCK FALSE
SPECIFICATION FairSpec
INVARIANT TrialInv
INVARIANT RollbackArmed
PROPERTY PersistedUnlessCut
PROPERTY TrialsEnd
