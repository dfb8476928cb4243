SPECIFICATION FSpec
CONSTANTS
  Inputs <- MCInputs
  HeadOf <- MCHeadOf
  Signals = {8, 11}
  Messages = {}
  Bootstrap = "seed"
  Edges = {1, 2}
  Exits <- MCExits
  Covers <- MCCovers
  SeedReplies <- MCRepeatedSeed
  MaxExecs = 2
  PickLimit = 2
  LiveEvery = 2
  RecentCap = 1
  MaxLaunches = 2
  Modes = {"file"}
  Size <- MCSize
  PipeCap = 1
INVARIANTS
  SeenEdgesAreInCorpus
  KeptSeedsAddCoverage
  StoresHaveNoDuplicates
  CrashFilesAreFiled
  AccountsBalance
PROPERTY
  Spec
