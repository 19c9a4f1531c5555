CONSTANTS
  i = i
  j = j
  x = x
  Nobody = Nobody
  Connections = {1, 2, 3}
  Imports <- TwoImports
  Callers <- Everyone
  Width <- Pair
  MaxRows = 2
  MaxSteps = 2
SPECIFICATION FairSpec
INVARIANTS TypeOK LineMoves OneConnectionKept
PROPERTIES EveryImportEnds
