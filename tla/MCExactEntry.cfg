SPECIFICATION CellSpec
CONSTANTS
  Problems <- MCEntryProblems
INVARIANTS
  EntryTilesSynchronise
CHECK_DEADLOCK FALSE
