SPECIFICATION FairSpec
CONSTANTS
  c1 = c1
  c2 = c2
  NoId = NoId
  CallIds = {c1, c2}
  MaxIterations = 2
  MaxAttempts = 2
  VerifyOn = TRUE
  Tools <- MCTools
  Writers <- MCWriters
  Delegates <- MCDelegates
  Tokens <- MCTokens
  MaxBatch = 2
INVARIANTS Replayable VerifiedCompletion FailureStreak
PROPERTIES ImplementsContract Terminates
