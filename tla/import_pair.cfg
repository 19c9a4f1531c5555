CONSTANTS
  i = i
  j = j
  A = A
  B = B
  e = e
  f = f
  g = g
  U = U
  V = V
  NoName = NoName
  Names <- AllNames
  Jobs <- Two
  Inputs <- MeetingFiles
  Databases <- MeetingDatabases
  FlushSize = 2
  ProgressEvery = 2
  MaxAttempts = 2
  MaxCrashes = 0
  Faults = {"deadlock"}
SPECIFICATION FairSpec
CHECK_DEADLOCK FALSE
INVARIANTS TotalsMatchReport FirstWins ReportMatchesDatabase FailuresArePaidFor
PROPERTIES ImportsComplete ImplementsWholeImport
