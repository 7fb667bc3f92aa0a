SPECIFICATION Spec
CONSTANTS
  h = h  k = k
  Callers = {h, k}
  Engines <- Mixes
  MaxRetries = 2
  MaxThreads = 1
  Responses <- SomeResponses
  Runs <- SomeRuns
  TruncationMin = 2
  DefaultModel = DefaultModel
INVARIANTS
  FreshClient
  CutOnlyByOthers
PROPERTIES
  CallsEnd
CHECK_DEADLOCK FALSE
