CONSTANTS
  Keys = {1, 2, 3}
  Kinds = {"stream", "errors", "job"}
  BatchSize = 2
  NaN = NaN
  NoNumber = NaN
  RawLimits <- Limits
  DefaultLimit = 2
  LimitCap = 3
  MaxBroken = 1
  ErrorPage = 2
  FileBatch = 2
  Formats = {"json", "ndjson"}
  MaxRuns = 2
SPECIFICATION FairSpec
CHECK_DEADLOCK FALSE
INVARIANTS TypeOK CompletedFileIsWhole DownloadIsWhole
PROPERTIES ImplementsDelivery EveryReaderEnds
