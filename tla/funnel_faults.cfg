CONSTANTS
  a = a
  b = b
  c = c
  None = None
  EMPTY = EMPTY
  TOMBSTONE = TOMBSTONE
  Keys = {a, b}
  Vals = {v}
  LastShape = 2
  SlotCount <- MCSlotCount
  MaxInsertions <- MCMaxInsertions
  LevelOf <- MCLevelOf
  SpecialLevel = 2
  OverflowLevel = 1
  SeedCount = 3
  Walk <- MCTightWalk
  Bits = {1, 2, 3, 4}
  FilterBits <- MCFilterBits
  Bins = {1, 2}
  BinOf <- MCSharedBin
  WordSize = 6
  GroupSize = 16
  GenMax = 0
  RecMax = 0
  DelMax = 0
  Faults = {"refresh", "drain"}
  MaxStale = 5
SPECIFICATION Spec
INVARIANTS
  NoEmptyBeforeKey
  PlacementHasRoom
