CONSTANTS
  a = a
  b = b
  c = c
  None = None
  EMPTY = EMPTY
  TOMBSTONE = TOMBSTONE
  Keys = {a, b, c}
  Vals = {v}
  InitialCapacity = 2
  LastShape = 2
  Exponent = 2
  SlotCount <- MCSlotCount
  MaxInsertions <- MCMaxInsertions
  Batches <- MCBatches
  LevelOf <- MCLevelOf
  SummaryLevel = 1
  SearchCap = 2
  Phi <- MCPhi
  PositionCap = 114
  ProbeFactor = 1
  Route <- MCPairRoute
  Bits = {1, 2, 3}
  FilterBits <- MCFilterBits
  Bins = {1, 2}
  BinOf <- MCBinOf
  GroupSize = 8
  Word = 256
  UsizeBits = 8
  Unbounded = 255
  GenMax = 0
  RecMax = 0
  DelMax = 0
  Faults = {"drain"}
  MaxStale = 4
SPECIFICATION Spec
PROPERTIES
  ClearLeavesNothing
