CONSTANTS
  Part = {"exceptions", "writer", "format", "strings", "numbers", "types", "boxes"}
  BodyLength = 6
  Bodies <- BodyChoice
  FormatLength = 5
  Formats <- FormatChoice
  Arguments <- ArgumentChoice
  Characters <- CharacterChoice
  UInt16Max = 9
  Literals <- LiteralChoice
  Utf8Texts <- Utf8Choice
  MaxStrings = 3
  MaxLength = 4
  Unknown = Unknown
  Exceptions = {"A", "B"}
  Filters <- FilterChoice
  Null = "null"
  MaxBlocks = 4
  MaxCalls = 3
  MaxLeave = 1
  Escaping = FALSE
  NumberTexts <- TextChoice
  Bits <- ScaledBits
  WcharSizes = {2, 4}
SPECIFICATION RuntimeSpec
INVARIANTS
  FramesAreLive
  CodeInItsBlocks
  FormatAgrees
  StringsAgree
  ParseAgrees
  DispatchAgrees
  BoxesAgree
PROPERTIES
  ImplementsCli
CHECK_DEADLOCK FALSE
