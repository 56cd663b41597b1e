CONSTANTS
  MaxRuns = 2
  MaxTouches = 1
  MaxFaults = 2
SPECIFICATION FairSpec
CHECK_DEADLOCK FALSE
INVARIANT FixtureInv
PROPERTY OperatorKept
PROPERTY QuietReload
