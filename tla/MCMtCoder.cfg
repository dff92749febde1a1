SPECIFICATION FairSpec
CONSTANTS
  NumThreads = 2
  NumBlocks = 3
  NumBuffers = 3
  Dawdles = FALSE
  MaxInput = 3
  MaxCodes = 2
  MaxFaults = 1
INVARIANTS
  OneThreadInside
  BuffersApart
PROPERTIES
  CoderSpec
  CodeReturns
CHECK_DEADLOCK FALSE
