SPECIFICATION SearchSpec
CONSTANTS
  Ratios <- MCRatios
  UpperBound = 7
  Scheme = "OPEN"
  Depth = 0
  NumIO = 1
  BorderIO = FALSE
  Timeouts = TRUE
  StartNums <- MCStartNums
  MaxNum <- MCMaxNum
INVARIANTS
  TypeOK
  SmallestReturned
  NoRatioSkipped
PROPERTIES
  Terminates
  ImplementsSearch
  NoRatioTwice
