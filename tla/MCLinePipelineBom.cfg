\* Lines that hold a byte order mark.
CONSTANTS
  Byte <- PByte
  Cont <- PCont
  Width <- PWidth
  Newline = "nl"
  Minus = "-"
  Digit <- PDigit
  Octal <- PDigit
  Hex <- PHex
  Float <- PFloat
  WideDigit = {}
  HexPrefix <- PHexPrefix
  NilText <- PNilText
  Message <- PMessage
  lower_format <- PLower
  SlugRank <- PSlugRank
  Catalogs <- PCatalogs
  Batches <- BomBatches
  Level <- PLevel
  WordChar <- PWordChar
  Stamp = "@"
  StampChar <- PStampChar
  Ascii <- PAscii
  Bom <- PBom
  I32 = 128

SPECIFICATION Spec

INVARIANTS
  ReconstructionExact

\* scanLines returns.
CHECK_DEADLOCK FALSE
