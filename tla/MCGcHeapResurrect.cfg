CONSTANTS
  Objects = {a, b}
  Finalizable = {a}
  Fields = {next}
  Globals = {static}
  Null = Null
  MaxFrames = 2
  FinalizerOps = {}
  Careless = TRUE
SPECIFICATION Spec
INVARIANT
  ResurrectionReserved
CHECK_DEADLOCK FALSE
