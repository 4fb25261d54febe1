CONSTANTS
  Word = 1024
  UsizeBits = 10
  ProbeFactor = 8
  PhiBits = 26
  EncodedBits = 24
  JBits = 10
  WordBits = 6
  FunnelLevelBits = 5
  UniformSearchCap = 512
  QueryPositionCap = 1000000
  QueryProbeLimit = 384
  GenBits = 2
  RecBits = 2
  GenMax = 3
  RecMax = 3
  DelMax = 2
  MaxSlots = 480
  MaxBuckets = 60
  MaxLevels = 22
  Inputs <- MCInputs
SPECIFICATION Spec
INVARIANTS
  CapacityIsSmallest
  PhiIsPairing
  RoutesArePaperPrefix
  BudgetIsDyadic
  ReductionIsUnbiased
  CountersAreDistinct
  ElasticPlanIsSound
  BucketsAreNearest
  SpecialIsLongest
  BudgetIsSmallest
  WordIsEpoch
