SPECIFICATION Spec
CONSTANTS
  Retries = 1
  MaxCrashes = 0
  MaxBlips = 1
  MaxRestarts = 2
  MaxEvents = 2
  PageLimit = 10
INVARIANT TypeOK
INVARIANT ShownOnce
PROPERTY ResendIsComplete
