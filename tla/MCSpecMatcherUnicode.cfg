\* The same instance against the regex with the Unicode class \d.
CONSTANTS
  Byte <- MCByte
  Cont <- MCCont
  Width <- MCWidth
  Newline = "nl"
  Minus = "-"
  Digit <- MCDigit
  Octal <- MCOctal
  Hex <- MCHex
  Float <- MCFloat
  WideDigit <- MCWideDigit
  HexPrefix <- MCHexPrefix
  NilText <- MCNilText
  Inputs <- MCInputs

SPECIFICATION Spec

PROPERTIES
  ImplementsRegex

CHECK_DEADLOCK FALSE
