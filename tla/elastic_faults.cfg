CONSTANTS
  a = a
  b = b
  c = c
  None = None
  EMPTY = EMPTY
  TOMBSTONE = TOMBSTONE
  Keys = {a, b}
  Vals = {v}
  InitialCapacity = 4
  LastShape = 1
  Exponent = 1
  SlotCount <- MCSlotCount
  MaxInsertions <- MCMaxInsertions
  Batches <- MCBatches
  LevelOf <- MCLevelOf
  SummaryLevel = 0
  SearchCap = 2
  Phi <- MCPhi
  PositionCap = 114
  ProbeFactor = 1
  Route <- MCFourRoute
  Bits = {1}
  FilterBits <- MCSharedBits
  Bins = {1}
  BinOf <- MCSharedBin
  GroupSize = 8
  Word = 256
  UsizeBits = 8
  Unbounded = 255
  GenMax = 0
  RecMax = 0
  DelMax = 0
  Faults = {"rebuild", "refresh", "clear", "drain", "extract"}
  MaxStale = 3
SPECIFICATION FairSpec
PROPERTIES
  RebuildAtomic
  CallsReturn
