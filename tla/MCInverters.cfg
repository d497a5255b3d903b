SPECIFICATION FlowSpec
CONSTANTS
  Networks <- MCNetworks
  Shapes <- MCInverterShapes
  GateShapes <- MCNoShapes
  Params <- MCParams
  MaxCommands = 2
  MaxNodes = 4
INVARIANT InvertersEquivalent
CHECK_DEADLOCK FALSE
