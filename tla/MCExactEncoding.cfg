SPECIFICATION CellSpec
CONSTANTS
  Problems <- MCProblems
INVARIANTS
  ReuseExact
  NoPathCloses
  NoModelLost
  ModelsAreLayouts
  Synchronised
  MagnetsWiredAsTiles
  DotsWiredAsTiles
CHECK_DEADLOCK FALSE
