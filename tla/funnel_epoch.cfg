CONSTANTS
  a = a
  b = b
  c = c
  None = None
  EMPTY = EMPTY
  TOMBSTONE = TOMBSTONE
  Keys = {a, b}
  Vals = {v, w}
  LastShape = 2
  SlotCount <- MCSlotCount
  MaxInsertions <- MCMaxInsertions
  LevelOf <- MCLevelOf
  SpecialLevel = 2
  OverflowLevel = 1
  SeedCount = 3
  Walk <- MCTightWalk
  Bits = {1, 2, 3, 4}
  FilterBits <- MCFilterBits
  Bins = {1, 2}
  BinOf <- MCBinOf
  WordSize = 16
  GroupSize = 16
  GenMax = 2
  RecMax = 2
  DelMax = 2
  Faults = {"rebuild", "clear", "extract"}
  MaxStale = 5
SPECIFICATION Spec
PROPERTIES
  InsertionsOnlyGrow
  RecoveryCounted
  ImplementsMap
