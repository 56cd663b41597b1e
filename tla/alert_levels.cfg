CONSTANTS
  Rules = {r1}
  Params <- HoldParams
  Readings = {0, 3, 4}
  Offsets <- Ahead
  Other = Other
  Savers = {c1}
  Ackers = {}
  BatchLimit = 2
  MaxTime = 2
  MaxLog = 3
  MaxVersion = 1
  MaxEvent = 0
  Evaluator = Evaluator
  None = None
SPECIFICATION Spec
INVARIANT LevelTruthful
INVARIANT HoldRespected
