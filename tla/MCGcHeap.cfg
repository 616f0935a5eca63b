CONSTANTS
  Objects = {a, b, c}
  Finalizable = {a}
  Fields = {next}
  Globals = {static}
  Null = Null
  MaxFrames = 1
  FinalizerOps = {"new", "register"}
  Careless = FALSE
SPECIFICATION Spec
INVARIANTS
  TypeOK
  SharedMark
  MarkedIsLive
  NoDangling
  FreedOnce
SYMMETRY Symmetric
CHECK_DEADLOCK FALSE
