SPECIFICATION FairSpec
CONSTANTS
  Retries = 1
  MaxCrashes = 2
  MaxBlips = 2
  MaxRestarts = 0
  MaxEvents = 3
  PageLimit = 10
INVARIANT NothingForgotten
PROPERTY FinishedIsNotRerun
PROPERTY ImplementsRunStream
PROPERTY RunEnds
