SPECIFICATION FairSpec
CONSTANTS
  Runs = {r1, r2}
  a = a
  b = b
  Apps = {a, b}
  Plans <- SameOrOther
  None = None
  MaxFaults = 1
INVARIANTS
  CopyKept
  OneUninstall
  NothingLost
PROPERTIES
  RunsEnd
CHECK_DEADLOCK FALSE
