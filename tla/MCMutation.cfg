SPECIFICATION Spec
CONSTANTS
  Splice <- MCSplice
  ByteSubstitute <- MCByteSubstitute
  Strategies <- MCStrategies
  CorpusSizes <- MCCorpusSizes
  Schemas <- MCSchemas
  One = 4
  DecayInterval = 2
  Keep = 1
  Whole = 2
  WeightCap = 28
INVARIANTS
  TypeOK
  DistributionIsCurrent
  NoStrategyIsStarved
