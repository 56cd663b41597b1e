CONSTANTS
  MaxRuns = 1
  MaxTouches = 1
  MaxFaults = 0
SPECIFICATION Spec
CHECK_DEADLOCK FALSE
PROPERTY OperatorRetained
