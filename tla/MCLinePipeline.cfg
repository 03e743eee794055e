\* Catalogs of up to eight pages and batches of up to two lines.
CONSTANTS
  Byte <- PByte
  Cont <- PCont
  Width <- PWidth
  Newline = "nl"
  Minus = "-"
  Digit <- PDigit
  Octal <- PDigit
  Hex <- PHex
  Float <- PFloat
  WideDigit = {}
  HexPrefix <- PHexPrefix
  NilText <- PNilText
  Message <- PMessage
  lower_format <- PLower
  SlugRank <- PSlugRank
  Catalogs <- PCatalogs
  Batches <- PBatches
  Level <- PLevel
  WordChar <- PWordChar
  Stamp = "@"
  StampChar <- PStampChar
  Ascii <- PAscii
  Bom <- PBom
  I32 = 128

SPECIFICATION Spec

INVARIANTS
  TypeOK
  CursorInStep
  ShownPagesMatch
  CapturesLabelled
  CoreIsMessage
  PagesAccountedFor

\* scanLines returns.
CHECK_DEADLOCK FALSE
