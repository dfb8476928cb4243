SPECIFICATION Spec
CONSTANTS
  Base = 3
  DemoLength = 2
  Depth = 1
  Printable <- MCPrintable
  MagicLimit = 2
  DefaultLength = 3
  Files <- MCFiles
  Seeds <- MCSeeds
  SampleSets <- MCSampleSets
  MaxRounds = 3
CHECK_DEADLOCK FALSE
INVARIANTS
  TypeOK
  InferenceIsSound
  LayoutIsStable
PROPERTIES
  ImmutableFieldsAreSpared
