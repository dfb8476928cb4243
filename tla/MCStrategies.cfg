SPECIFICATION Spec
CONSTANTS
  Base = 2
  BlockMax = 2
  InsertMax = 2
  FallbackLen = 2
  DeltaMax = 1
  HavocEdits = {2}
  Corpora <- MCCorpora
  Dictionaries <- MCDictionaries
  MaxLen = 5
INVARIANTS
  NoStrategyPanics
  GrowthIsBounded
  BothEndsAreReached
  RecombinesAtLongestMatch
