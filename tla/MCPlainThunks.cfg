CONSTANTS
  GpArgs <- Win64Gp
  VecArgs <- Win64Vec
  StackSlots <- Win64Slots
  Positional = TRUE
  Preserved <- MCPreserved
  Volatile <- Win64Volatile
  MaxFuncArgs = 6
  Indices = {0, 1, 2, 3, 4, 5}
  Signatures <- Win64Signatures
  RedZoneSize = 0
  SpillZoneSize = 32
  FunctionTypes <- MCFunctionTypes
SPECIFICATION TypedSpec
INVARIANTS TypeOK FinalizeDropsNothing TargetSeesArguments TypedTargetSeesArguments CallbackReadsArguments CallerReceivesResult
CHECK_DEADLOCK FALSE
