SPECIFICATION Spec
CONSTANTS
  Base = 3
  DemoLength = 2
  Depth = 1
  Printable <- MCPrintable
  MagicLimit = 2
  DefaultLength = 3
  Files <- MCGroups
  Seeds <- MCSeeds
  SampleSets <- MCNoSamples
  MaxRounds = 3
CHECK_DEADLOCK FALSE
PROPERTIES
  ImmutableFieldsAreSpared
