CONSTANTS
  GpArgs <- Win64Gp
  VecArgs <- Win64Vec
  StackSlots <- Win64Slots
  Positional = TRUE
  Preserved <- MCPreserved
  Volatile <- Win64Volatile
  MaxFuncArgs = 6
  Indices = {}
  Signatures = {}
  RedZoneSize = 0
  SpillZoneSize = 32
  FunctionTypes <- MCFunctionTypes
SPECIFICATION TypedSpec
INVARIANT AcceptedReturnIsByValue
CHECK_DEADLOCK FALSE
