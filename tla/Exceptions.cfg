CONSTANTS
  GpArgs <- MCGpArgs
  VecArgs <- MCVecArgs
  StackSlots <- MCStackSlots
  Positional = TRUE
  Preserved <- MCPreserved
  Volatile <- MCVolatile
  GpById <- MCGpById
  VecById <- MCVecById
  Orders <- MCOrders
  Signatures <- MCOneSignature
  Threads = {t1}
  Capacity = 3
  MaxCalls = 3
SPECIFICATION CodeSpecWithExceptions
INVARIANT TopIsInnermost
CHECK_DEADLOCK FALSE
