SPECIFICATION HSpecLiveTarget
CONSTANTS
  Inputs <- MCInputs
  HeadOf <- MCHeadOf
  Signals = {6}
  Messages = {"wait"}
  Modes = {"stdin"}
  Edges = {1, 2, 3, 4, 5}
  Exits <- MCExits
  Covers <- MCCovers
  Size <- LargeInputs
  PipeCap = 1
PROPERTY
  ExecuteReturns
CHECK_DEADLOCK FALSE
