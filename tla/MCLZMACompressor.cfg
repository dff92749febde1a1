SPECIFICATION FairSpec
CONSTANTS
  BufSize = 2
  OptimalFlushSize = 2
  WakeGranule = 2
  EndMark = EndMark
  CallSizes <- CallSizesOneTwo
  ReadSizes <- ReadSizesTwo
  MaxInput = 3
  MaxStreams = 2
  MaxFaults = 1
INVARIANTS
  InputInOrder
  NoStaleWakeUp
  RaisesForACause
PROPERTIES
  StreamSpec
  CallsReturn
  WorkerEnds
