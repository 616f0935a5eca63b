CONSTANTS
  Threads = {t1}
  Objects = {a, b, c, d, e}
  Reclaimed = {}
  Null = Null
  Slots = 4
  MaxBlocks = 2
  MaxDepth = 1
SPECIFICATION Spec
INVARIANT
  ExitFindsItsLock
CHECK_DEADLOCK FALSE
