CONSTANTS
  Threads = {t1, t2, t3}
  Addresses = {a1, a2}
  Nodes = {n1, n2}
  NoThread = none
  Null = null
  Head = head
SPECIFICATION ListFairSpec
INVARIANTS RegistryInv TableSound OwnedUnwinds NoLeak WalkIsSafe
PROPERTIES LockIsReleased ImplementsLifetime ImplementsRegistry
