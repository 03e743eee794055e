\* Every format of the instance, lowered and then rendered.
CONSTANTS
  Byte <- LByte
  Cont <- LCont
  Width <- LWidth
  Newline = "nl"
  Minus = "-"
  Digit <- LDigit
  Octal <- LOctal
  Hex <- LHex
  Float <- LFloat
  WideDigit = {}
  HexPrefix <- LHexPrefix
  NilText <- LNilText
  Char <- LChar
  Utf8 <- LUtf8
  Inputs <- MCInputs
  Value <- LValue
  FieldWidth = {0, 3}
  Separator <- LSeparator

SPECIFICATION Spec

INVARIANTS
  TypeOK
  TokensArePattern
  CountsAreOfTokens
  SampleResolves
  VerdictsAgree
  LowersLikeBareForm
  PlainLinesResolve

\* Both calls return.
CHECK_DEADLOCK FALSE
