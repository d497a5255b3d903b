SPECIFICATION Spec
CONSTANTS
  Tiles = {t1, t2, t3}
  MaxNodes = 5
  MaxFanin = 1
  MaxMoves = 3
  DeadBit = 16
  Client = "careful"
SYMMETRY TileSymmetry
INVARIANTS
  PlacedNodesAlive
CHECK_DEADLOCK FALSE
