CONSTANTS
  p1 = p1
  p2 = p2
  p3 = p3
  Runs = {p1, p2}
  Machines = {"fresh", "old"}
  MaxTries = 2
  MaxEdits = 1
  MaxFaults = 2
  Old = Old
  Empty = Empty
  None = None
SPECIFICATION FairSpec
CHECK_DEADLOCK FALSE
INVARIANT BootstrapInv
INVARIANT OperatorCanLogIn
INVARIANT SuccessTruthful
PROPERTY CredentialsKept
PROPERTY QuietStart
