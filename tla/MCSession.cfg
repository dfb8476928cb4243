SPECIFICATION Spec
CONSTANTS
  Uis = {TRUE, FALSE}
  Modes = {"stdin", "file", "socket"}
  Limited = TRUE
  MaxKeys = 3
INVARIANTS
  TypeOK
  ExitIsClean
PROPERTIES
  CampaignEndsProgram
  CtrlCEndsProgram
