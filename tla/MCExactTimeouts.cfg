SPECIFICATION FairSpec
CONSTANTS
  NumThreads = 2
  Ratios <- MCRatios
  UpperBound = 4
  Scheme = "COLUMNAR"
  Depth = 1
  NumIO = 1
  BorderIO = TRUE
  Timeouts = TRUE
  TornReads = TRUE
INVARIANTS
  NoNullContext
  WinnerDelivered
PROPERTIES
  Terminates
