CONSTANTS
  Threads = {t1, t2}
  NullContext = null
  Contexts = {null, c1, c2}
  Capacity = 2
SPECIFICATION Spec
INVARIANT TypeOK
PROPERTY ImplementsBoundedStack
CHECK_DEADLOCK FALSE
