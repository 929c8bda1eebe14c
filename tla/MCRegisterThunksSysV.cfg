CONSTANTS
  GpArgs <- MCGpArgs
  VecArgs <- MCVecArgs
  StackSlots <- MCStackSlots
  Positional = FALSE
  Preserved <- MCPreserved
  Volatile <- MCVolatile
  Signatures <- MCSignatures
  Threads = {t1, t2}
  Capacity = 2
  MaxCalls = 4
SPECIFICATION Spec
INVARIANTS TypeOK StackMirrorsCalls TopIsInnermost CallbackSeesArguments TargetSeesCapture
PROPERTIES ReturnsFaithfully OnlyMisuseTerminates
CHECK_DEADLOCK FALSE
