CONSTANTS
  a = a
  b = b
  c = c
  None = None
  EMPTY = EMPTY
  TOMBSTONE = TOMBSTONE
  Keys = {a, b, c}
  Vals = {v}
  LastShape = 2
  SlotCount <- MCSlotCount
  MaxInsertions <- MCMaxInsertions
  LevelOf <- MCLevelOf
  SpecialLevel = 2
  OverflowLevel = 1
  SeedCount = 3
  Walk <- MCWalk
  Bits = {1, 2, 3, 4}
  FilterBits <- MCFilterBits
  Bins = {1, 2}
  BinOf <- MCBinOf
  WordSize = 16
  GroupSize = 16
  GenMax = 0
  RecMax = 0
  DelMax = 0
  Faults = {"rebuild", "clear", "extract"}
  MaxStale = 5
SPECIFICATION Spec
INVARIANTS
  TypeOK
  FindsEveryLiveKey
  EntrySearchAgrees
  NoDuplicateKeys
  FilterCoversLiveKeys
  CountersExact
  PlacementHasRoom
PROPERTIES
  RebuildAtomic
