SPECIFICATION Spec
CONSTANTS
  NumThreads = 2
  NumBlocks = 3
  NumBuffers = 3
  Dawdles = TRUE
  MaxInput = 3
  MaxCodes = 3
  MaxFaults = 0
INVARIANTS
  OneThreadInside
CHECK_DEADLOCK FALSE
