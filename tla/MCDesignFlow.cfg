SPECIFICATION FlowSpec
CONSTANTS
  Networks <- MCNetworks
  Shapes <- MCShapes
  GateShapes <- MCGateShapes
  Params <- MCParams
  MaxCommands = 2
  MaxNodes = 4
INVARIANTS
  SizePredicted
  RoutedAsNetwork
  LayoutValid
  OutputsComputed
  DelaysInPhase
  FunctionPreserved
  FanoutsStaySubstituted
  PathsBalanced
  CellsWiredAsTiles
PROPERTIES
  NothingOverwritten
  InvertersPulled
CHECK_DEADLOCK FALSE
