CONSTANTS
  GpArgs <- MCGpArgs
  VecArgs <- MCVecArgs
  StackSlots <- MCStackSlots
  Positional = TRUE
  Preserved <- MCPreserved
  Volatile <- MCVolatile
  GpById <- MCGpById
  VecById <- MCVecById
  Orders <- MCOrders
  Signatures <- MCSignatures
  Threads = {t1, t2}
  MaxCalls = 3
SYMMETRY MCSymmetry
SPECIFICATION CodeSpec
INVARIANTS TypeOK CallbackSeesArguments TargetSeesBinding
PROPERTIES PreservesRegisters ReturnValueIsHandedOn ImplementsThunks
CHECK_DEADLOCK FALSE
