SPECIFICATION Spec
CONSTANTS
  Scripts <- ScriptsForBzip
  SliceSize = 4
  PieceSize = 2
  InBufSize = 2
  Encoders = {}
INVARIANT
  FailsForACause
