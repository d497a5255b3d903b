SPECIFICATION FairSpec
CONSTANTS
  NumThreads = 2
  Ratios <- MCRatios
  UpperBound = 5
  Scheme = "OPEN"
  Depth = 0
  NumIO = 1
  BorderIO = FALSE
  Timeouts = FALSE
  TornReads = FALSE
INVARIANTS
  TypeOK
  InterruptsSpareSmaller
  NoSmallerLayoutLost
PROPERTIES
  Terminates
  ImplementsSearch
