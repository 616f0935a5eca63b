CONSTANTS
  Part = {"flow"}
  Length = 7
  Targets = {6}
  MaxDepth = 2
  EntryTypes = {"A", "B"}
  Opcodes = {"push", "pop", "brtrue", "ret"}
  HandlerSets <- NoHandlers
  Merges = TRUE
  NumericOpcodes = {}
  Loaded = {}
  Stored = {}
  WellSigned = TRUE
  MaxSteps = 1
  PointerSize = 8
  NumericDepth = 2
  Bits1 = 2
  Bits2 = 3
  Bits4 = 4
  Bits8 = 6
SPECIFICATION TranslatorSpec
INVARIANTS
  SlotHoldsValue
CHECK_DEADLOCK FALSE
