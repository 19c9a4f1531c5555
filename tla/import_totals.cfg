CONSTANTS
  i = i
  j = j
  A = A
  B = B
  e = e
  f = f
  g = g
  U = U
  V = V
  NoName = NoName
  Names <- AllNames
  Jobs <- One
  Inputs <- AnyFile
  Databases <- AnyDatabase
  FlushSize = 2
  ProgressEvery = 2
  MaxAttempts = 2
  MaxCrashes = 0
  Faults = {}
SPECIFICATION Spec
CHECK_DEADLOCK FALSE
INVARIANTS TotalsAddUp
