CONSTANTS
  Part = {"exceptions"}
  Bodies = {}
  BodyLength = 1
  FormatLength = 0
  Formats = {}
  Arguments = {}
  Characters <- CharacterChoice
  UInt16Max = 9
  Literals = {}
  Utf8Texts = {}
  MaxStrings = 0
  MaxLength = 0
  Unknown = Unknown
  Exceptions = {"A", "B"}
  Filters <- FilterChoice
  Null = "null"
  MaxBlocks = 3
  MaxCalls = 2
  MaxLeave = 1
  Escaping = TRUE
  Threads = {}
  Handlers = {}
  DomainWriters = {}
  MaxDelegates = 0
  NumberTexts = {}
  Bits <- ScaledBits
  WcharSizes = {}
SPECIFICATION RuntimeSpec
INVARIANT CatchEnteredOnce
CHECK_DEADLOCK FALSE
