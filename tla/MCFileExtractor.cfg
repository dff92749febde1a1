SPECIFICATION Spec
CONSTANTS
  Scripts <- ScriptsThatWork
  SliceSize = 4
  PieceSize = 2
  InBufSize = 2
  Encoders = {}
INVARIANTS
  InSync
  ExtractsTheOriginal
  FailsForACause
  RetryRecovers
PROPERTIES
  AsksForOwnSlices
