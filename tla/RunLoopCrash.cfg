SPECIFICATION FairSpec
CONSTANTS
  Calls = {1, 2}
  Plan <- MissTwice
  Trigger = "worker_crash"
  Retries = 2
  MaxDeaths = 1
  MaxLosses = 0
  BoxMayDie = FALSE
  Patient = TRUE
INVARIANT EveryCallAnswered
INVARIANT PlannedFaultOnce
INVARIANT MarkIsExplained
PROPERTY RunIsOver
