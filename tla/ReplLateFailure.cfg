SPECIFICATION Spec
CONSTANTS
  c1 = c1
  c2 = c2
  CallIds = {c1, c2}
  NoId = NoId
  Ids = {1}
  None = None
  Corrupt = Corrupt
  Keep = 2
  Batches <- MCBatches
  MaxRounds = 1
  MaxLog = 8
  MaxSpend = 1
  LateFailures = TRUE
  ResumeAtStart = FALSE
INVARIANT Sendable
