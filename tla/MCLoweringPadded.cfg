\* Padded, signed and prefixed numbers against all the lines printf writes for them.
CONSTANTS
  Byte <- LByte
  Cont <- LCont
  Width <- LWidth
  Newline = "nl"
  Minus = "-"
  Digit <- LDigit
  Octal <- LOctal
  Hex <- LHex
  Float <- LFloat
  WideDigit = {}
  HexPrefix <- LHexPrefix
  NilText <- LNilText
  Char <- LChar
  Utf8 <- LUtf8
  Inputs <- PaddedInputs
  Value <- LValue
  FieldWidth = {0, 3}
  Separator <- LSeparator

SPECIFICATION Spec

INVARIANTS
  LinesResolve

\* Both calls return.
CHECK_DEADLOCK FALSE
