\* Three pushes and a pass started by hand, over three pull requests of which
\* one may be updated, in a repository that requires branches to be up to date.
CONSTANTS
  prs <- MCPrs
  MaxPolls = 4
  MaxPushes = 3
  MaxDispatches = 1
  strict = TRUE

SPECIFICATION Spec

INVARIANTS
  TypeOK
  EveryPrReported
  GreenMeansCurrent

PROPERTIES
  PushesAreHandled

\* No push, no pass.
CHECK_DEADLOCK FALSE
