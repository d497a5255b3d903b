SPECIFICATION ConstructionSpec
CONSTANTS
  Tiles = {t0, t1, t2, t3, t4}
  Origin = t0
  MaxNodes = 8
  MaxFanin = 2
  MaxMoves = 5
  DeadBit = 32
  Client = "careful"
  MaxPIs = 2
  MaxROs = 1
  MaxPlaced = 3
SYMMETRY TileSymmetry
INVARIANTS
  TypeOK
  MapsInverse
  CountsExact
  ConstantsResolve
  IOClassified
  PlacedNodesAlive
  ReferencesExact
PROPERTY ReservedNowhere
CHECK_DEADLOCK FALSE
