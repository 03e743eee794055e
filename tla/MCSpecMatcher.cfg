\* Every pattern of the instance on every line of the instance.
CONSTANTS
  Byte <- MCByte
  Cont <- MCCont
  Width <- MCWidth
  Newline = "nl"
  Minus = "-"
  Digit <- MCDigit
  Octal <- MCOctal
  Hex <- MCHex
  Float <- MCFloat
  WideDigit <- MCWideDigit
  HexPrefix <- MCHexPrefix
  NilText <- MCNilText
  Inputs <- MCInputs

SPECIFICATION Spec

INVARIANTS
  TypeOK
  SlicesOnBoundaries
  MatchIsParse
  WalkInv

PROPERTIES
  PreferenceOrder
  ImplementsAsciiRegex
  EventuallyDecided

\* A call of verify returns: the machine stops at an answer.
CHECK_DEADLOCK FALSE
