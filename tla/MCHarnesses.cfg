SPECIFICATION Spec
CONSTANTS
  Inputs <- MCInputs
  HeadOf <- MCHeadOf
  Signals = {6}
  Messages = {"wait"}
  Modes = {"stdin", "file"}
  Edges = {1, 2, 3, 4, 5}
  Exits <- MCExits
  Covers <- MCCovers
  Size <- SmallInputs
  PipeCap = 1
  Protocols = {"tcp", "udp"}
  Fatal <- MCFatal
  Length <- MCLength
  SocketCap = 1
  ReadBytes = {TRUE, FALSE}
INVARIANTS
  TypeOK
  CoverageIsRight
  TempFilesAreRemoved
  DeathIsNoticed
PROPERTY
  ExecuteReturns
