SPECIFICATION Spec
CONSTANTS
  Inputs <- MCInputs
  HeadOf <- MCHeadOf
  Bootstrap = "seed"
  Edges <- MCEdges
  Exits <- MCExits
  Covers <- MCCovers
  Signals = {8, 11}
  Messages = {"wait"}
  SeedReplies <- MCSeedReplies
  MaxExecs = 3
  PickLimit = 2
  LiveEvery = 2
  RecentCap = 1
  MaxLaunches = 1
INVARIANTS
  TypeOK
  DuplicatesShareSeverity
  BudgetIsExact
  DashboardFollows
PROPERTIES
  StarvedSeedsStayStarved
  Terminates
