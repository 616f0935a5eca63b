CONSTANTS
  Part = {"flow", "numeric"}
  Length = 5
  Targets = {1, 4, 5}
  MaxDepth = 2
  EntryTypes = {"A", "B"}
  Opcodes = {"push", "pop", "dup", "br", "brtrue", "leave", "ret", "throw", "endfinally",
    "prefix"}
  HandlerSets <- HandlerChoice
  Merges = FALSE
  NumericOpcodes = {"ldc", "ldarg", "ldloc", "ldind", "ldelem_i1", "ldelem_i2", "ldelem_i4",
    "ldelem_i8", "ldelem_u1", "ldelem_u2", "ldelem_u4", "ldelem_r4", "ldelem_r8",
    "stloc", "stind", "stelem_i4", "stelem", "add", "sub", "mul", "div",
    "rem", "and", "or", "xor", "cgt", "cgt_un", "clt", "clt_un", "ceq", "beq",
    "bne_un", "blt", "bgt", "bge", "brtrue", "brfalse", "conv_i1", "conv_i2",
    "conv_i4", "conv_i8", "conv_i", "conv_u1", "conv_u2", "conv_u4", "conv_u8",
    "conv_u", "conv_r4", "conv_r8", "dup"}
  Loaded = {"i1", "u1", "i2", "u2", "i4", "u4", "i8", "u8", "ip", "up", "r4", "r8"}
  Stored = {"i1", "u1", "i2", "u2", "i4", "u4", "i8", "u8", "ip", "up", "bool", "r4", "r8"}
  WellSigned = TRUE
  MaxSteps = 4
  PointerSize = 8
  NumericDepth = 2
  Bits1 = 2
  Bits2 = 3
  Bits4 = 4
  Bits8 = 6
SPECIFICATION TranslatorSpec
INVARIANTS
  TypesOK
  ReachableEmitted
  SlotHoldsValue
  LeavesReachTarget
  PrefixApplies
  StackAgrees
  MemoryAgrees
  BranchesAgree
PROPERTY
  DecodeEnds
CHECK_DEADLOCK FALSE
