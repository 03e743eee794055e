\* Every call sequence over catalogs of one to five sites.
CONSTANTS
  Byte <- MCByte
  Cont <- MCCont
  Width <- MCWidth
  Newline = "nl"
  Minus = "-"
  Digit <- MCDigit
  Octal <- MCOctal
  Hex <- MCHex
  Float <- MCFloat
  WideDigit <- MCWideDigit
  HexPrefix <- MCHexPrefix
  NilText <- MCNilText
  Text <- MCText
  NoText = "none"
  lower_format <- MCLowerFormat
  Catalogs <- MCCatalogs
  Lines <- MCLines
  CodePoint <- MCCodePoint
  LowerChar <- MCLowerChar
  Cased <- MCCased
  CaseIgnorable <- MCCaseIgnorable
  Sigma <- MCSigma
  SmallSigma <- MCSmallSigma
  FinalSigma <- MCFinalSigma

SPECIFICATION Spec

INVARIANTS
  TypeOK
  SitesAccountedFor
  NothingPruned
  FiledOnce

PROPERTIES
  PathsAgree
