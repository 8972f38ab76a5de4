SPECIFICATION Spec
CONSTANTS
  c1 = c1
  c2 = c2
  CallIds = {c1, c2}
  NoId = NoId
  Ids = {1, 2}
  None = None
  Corrupt = Corrupt
  Keep = 2
  Batches <- MCBatches
  MaxRounds = 1
  MaxLog = 9
  MaxSpend = 3
  LateFailures = FALSE
  ResumeAtStart = TRUE
INVARIANTS TurnsAreSaved Sendable
PROPERTIES BlockFollowsMode SpendNeverForgotten
