\* Four user events in any order with the load and the reads.
CONSTANTS
  Text <- MCText
  Empty = ""
  Blank <- MCBlank
  File <- MCFile
  Contents <- MCContents
  MaxEvents = 4

SPECIFICATION Spec

INVARIANTS
  TypeOK
  ShownIsInput
  SummaryOfResults

PROPERTIES
  ReadingEnds

\* The user may stop.
CHECK_DEADLOCK FALSE
