\* Calls with a comment in them that holds an apostrophe.
CONSTANTS
  Atom <- XAtom
  IdentStart <- XStart
  IdentChar <- XIdentChar
  Cont = {"e2"}
  CharLen <- XCharLen
  U32 = 268435456
  CharOf <- XCharOf
  Checkouts <- ApostropheCheckouts
  Edits = {}

SPECIFICATION Spec

INVARIANTS
  EveryCallFound

\* The program exits.
CHECK_DEADLOCK FALSE
