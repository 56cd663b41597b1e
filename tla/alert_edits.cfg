CONSTANTS
  Rules = {r1}
  Params <- EditParams
  Readings = {0, 4, Other}
  Offsets <- Late
  Other = Other
  Savers = {c1}
  Ackers = {k1}
  BatchLimit = 1
  MaxTime = 2
  MaxLog = 2
  MaxVersion = 2
  MaxEvent = 2
  Evaluator = Evaluator
  None = None
SPECIFICATION FairSpec
INVARIANT AlertInv
INVARIANT ActiveIsCurrent
INVARIANT PositionExact
PROPERTY EventsInOrder
PROPERTY ArrivalsEvaluated
