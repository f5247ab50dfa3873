SPECIFICATION FairSpec
CONSTANTS
  Configs = {c1, c2}
  Blocks = {b}
  Unblocks = {u}
  Kicks = {k}
  Cuts = {x}
  None = None
  Workloads = {{c1, c2}, {b}, {u}, {k}, {x}}
  MaxFaults = 2
  MaxLeases = 2
  MaxCopies = 1
INVARIANTS TypeOK   KickedOnce SuccessIsDurable
PROPERTIES CatalogNeverRollsBack ConfigurationSurvives
CHECK_DEADLOCK FALSE
