SPECIFICATION Spec
CONSTANTS
  Retries = 1
  MaxCrashes = 1
  MaxBlips = 0
  MaxRestarts = 1
  MaxEvents = 3
  PageLimit = 10
PROPERTY ResendIsComplete
