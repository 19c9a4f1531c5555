CONSTANTS
  i = i
  j = j
  A = A
  B = B
  e = e
  f = f
  g = g
  U = U
  V = V
  NoName = NoName
  Names <- AllNames
  Jobs <- One
  Inputs <- AnyFile
  Databases <- AnyDatabase
  FlushSize = 2
  ProgressEvery = 2
  MaxAttempts = 2
  MaxCrashes = 1
  Faults = {"crash", "statement", "input"}
SPECIFICATION Spec
CHECK_DEADLOCK FALSE
INVARIANTS TypeOK TotalsMatchReport FirstWins MergeNeverRefused ReportMatchesDatabase
PROPERTIES ImplementsJobRuns ImplementsWholeImport
