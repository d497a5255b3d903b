SPECIFICATION Spec
CONSTANTS
  NumThreads = 2
  Ratios <- MCRatios
  UpperBound = 3
  Scheme = "OTHER"
  Depth = 0
  NumIO = 1
  BorderIO = FALSE
  Timeouts = TRUE
  TornReads = FALSE
INVARIANTS
  TimeoutsDoNotThrow
