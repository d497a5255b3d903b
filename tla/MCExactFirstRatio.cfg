SPECIFICATION Spec
CONSTANTS
  NumThreads = 2
  Ratios <- MCRatios
  UpperBound = 4
  Scheme = "OTHER"
  Depth = 0
  NumIO = 1
  BorderIO = FALSE
  Timeouts = FALSE
  TornReads = FALSE
INVARIANTS
  EveryRatioExamined
