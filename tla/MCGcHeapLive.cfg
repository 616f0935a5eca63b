CONSTANTS
  Objects = {a, b}
  Finalizable = {a}
  Fields = {next}
  Globals = {static}
  Null = Null
  MaxFrames = 2
  FinalizerOps = {}
  Careless = FALSE
SPECIFICATION FairSpec
INVARIANT
  ShutdownFreesAll
PROPERTIES
  FinalizedBeforeFreed
  WaitLeavesNoGarbage
  WaitReturns
  ShutdownEnds
CHECK_DEADLOCK FALSE
