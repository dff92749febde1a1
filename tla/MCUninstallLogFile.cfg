CONSTANTS
  a = a
  b = b
  Rec = {a, b}
  RecSize <- MCRecSize
  BlockCap = 2
  MaxBlocks = 5
  MaxEnd = 4
  MaxRecs = 4
  Apps = {app1, app2}
  FlagNames = {admin, guard}
  NonSticky = {guard}
  Lists <- MCLists
  MaxSaves = 3
  Junk = Junk
  ZeroHeader = ZeroHeader
  Corrupt = Corrupt
SPECIFICATION Spec
INVARIANTS TypeOK LogInv DiskIsAVersion LogReadsBack
PROPERTIES OnlyOverwritingDamages StoreSpec
CHECK_DEADLOCK FALSE
