CONSTANTS
  ArgCounts = {0, 1, 4, 5, 8, 9, 10, 11, 13, 15, 31, 32}
  SavedGp <- MCSavedGp
  SavedVec <- MCSavedVec
SPECIFICATION Spec
INVARIANTS TypeOK CallsAreAligned ReturnsToCaller Unwinds
CHECK_DEADLOCK FALSE
