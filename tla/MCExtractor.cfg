\* Calls of the grammar one by one, and reports over two files that may be edited.
CONSTANTS
  Atom <- XAtom
  IdentStart <- XStart
  IdentChar <- XIdentChar
  Cont = {"e2"}
  CharLen <- XCharLen
  U32 = 268435456
  CharOf <- XCharOf
  Checkouts <- XCheckouts
  Edits <- XEdits

SPECIFICATION Spec

INVARIANTS
  TypeOK
  SitesAsMeant
  OnlyEditsPanic
  CallsFromOneVersion
  TalliesOfSites
  DoneIsComplete

PROPERTIES
  OldInventoryKept

\* The program exits.
CHECK_DEADLOCK FALSE
