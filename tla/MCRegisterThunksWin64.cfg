CONSTANTS
  GpArgs <- MCGpArgs
  VecArgs <- MCVecArgs
  StackSlots <- MCStackSlots
  Positional = TRUE
  Preserved <- MCPreserved
  Volatile <- MCVolatile
  GpById <- MCGpById
  VecById <- MCVecById
  Orders <- MCOrders
  Signatures <- MCSignatures
  Threads = {t1}
  Capacity = 1
  MaxCalls = 2
SPECIFICATION CodeSpec
INVARIANTS CallbackSeesArguments TargetSeesCapture
PROPERTIES ReturnsFaithfully ImplementsThunks
CHECK_DEADLOCK FALSE
