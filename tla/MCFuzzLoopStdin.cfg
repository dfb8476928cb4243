SPECIFICATION FSpec
CONSTANTS
  Inputs <- MCInputsAndHang
  HeadOf <- MCHeadOf
  Signals = {8, 11}
  Messages = {"wait"}
  Bootstrap = "seed"
  Edges = {1, 2, 3}
  Exits <- MCExits
  Covers <- MCCovers
  SeedReplies <- MCNoReply
  MaxExecs = 3
  PickLimit = 2
  LiveEvery = 2
  RecentCap = 1
  MaxLaunches = 1
  Modes = {"stdin"}
  Size <- MCSize
  PipeCap = 1
INVARIANT
  KeptSeedsAddCoverage
