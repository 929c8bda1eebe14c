CONSTANTS
  GpArgs <- MCGpArgs
  VecArgs <- MCVecArgs
  StackSlots <- MCStackSlots
  Positional = TRUE
  Preserved <- MCPreserved
  Volatile <- MCVolatile
  GpById <- MCGpById
  VecById <- MCVecById
  Orders <- MCOrders
  Signatures <- MCSignatures
  Threads = {t1}
  MaxCalls = 2
SPECIFICATION CodeSpec
INVARIANT RestoresContextRegister
CHECK_DEADLOCK FALSE
