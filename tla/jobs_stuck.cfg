CONSTANTS
  i = i
  e = e
  c = c
  p = p
  q = q
  x = x
  y = y
  NoJob = NoJob
  NoRunner = NoRunner
  NoProcess = NoProcess
  Jobs = {i}
  KindOf <- Kinds
  Unsupported <- AllUnsupported
  Processes <- One
  Runners <- RunnerPair
  ProcOf <- Owner
  MaxAttempts = 2
  MaxStalls = 1
  MaxCrashes = 0
  Faults = {"early"}
SPECIFICATION FairSpec
PROPERTIES JobSettles
