CONSTANTS
  i = i
  e = e
  c = c
  p = p
  q = q
  x = x
  y = y
  NoJob = NoJob
  NoRunner = NoRunner
  NoProcess = NoProcess
  Jobs = {i}
  KindOf <- Kinds
  Unsupported <- AllUnsupported
  Processes <- Both
  Runners <- RunnerPair
  ProcOf <- Owner
  MaxAttempts = 2
  MaxStalls = 1
  MaxCrashes = 1
  Faults = {"crash", "late", "answer", "ack", "lost"}
SPECIFICATION FairSpec
INVARIANTS TypeOK SingleRunner QueuedIsRunnable OneSweeper
PROPERTIES JobSettles ImplementsJobRuns
