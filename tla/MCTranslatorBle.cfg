CONSTANTS
  Part = {"numeric"}
  Length = 1
  Targets = {}
  MaxDepth = 2
  EntryTypes = {"A", "B"}
  Opcodes = {"ret"}
  HandlerSets <- NoHandlers
  Merges = FALSE
  NumericOpcodes = {"ldc", "ldarg", "ble"}
  Loaded = {"i4", "i8", "u1"}
  Stored = {}
  WellSigned = TRUE
  MaxSteps = 3
  PointerSize = 8
  NumericDepth = 2
  Bits1 = 2
  Bits2 = 3
  Bits4 = 4
  Bits8 = 6
SPECIFICATION TranslatorSpec
INVARIANTS
  BranchesAgree
CHECK_DEADLOCK FALSE
