CONSTANTS
  GpArgs <- SysVGp
  VecArgs <- SysVVec
  StackSlots <- SysVSlots
  Positional = FALSE
  Preserved <- MCPreserved
  Volatile <- SysVVolatile
  MaxFuncArgs = 32
  Indices = {}
  Signatures <- SysVSignatures
  RedZoneSize = 128
  SpillZoneSize = 0
  FunctionTypes = {}
SPECIFICATION TypedSpec
INVARIANT TargetSeesArguments
CHECK_DEADLOCK FALSE
