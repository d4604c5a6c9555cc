\* One scalar target and four vector ones.
SPECIFICATION Spec
CONSTANTS
  Vertex <- MCVertex
  Dv = {0, 1, 2}
  Published <- MCPublished
  Ubcs <- MCUbcs
  Params <- MCParams
  SCHEDULE = 6
  WORD = 2
  WINDOWS = 2
  RANKS = 5
  Infinity = 1073741824
  STEP = 1
  DESCENT = 1
  SHAKE = 3
  Stalls = {0, 1}
INVARIANTS PlanKeepsPublished StateIsThatOfUnits GroupsFit PruningLosesNothing FormKeepsPublished
PROPERTIES ImplementsBasis OnlyBetterIsKept SearchComesToAPlan
