SPECIFICATION Spec
CONSTANTS
  Tiles = {t1, t2}
  MaxNodes = 4
  MaxFanin = 1
  MaxMoves = 2
  DeadBit = 16
  Client = "any"
SYMMETRY TileSymmetry
INVARIANTS
  NumPosCounts
CHECK_DEADLOCK FALSE
