SPECIFICATION Spec
CONSTANTS
  Bytes <- MCBytes
  Zero = 0
  Originals <- MCOriginals
  Targets <- MCTargets
  MaxIters = 12
  StallLimit = 5
INVARIANTS
  TypeOK
  ResultIsReal
  StalledMeansNoCutHelps
PROPERTIES
  MinimizingEnds
