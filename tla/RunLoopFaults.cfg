SPECIFICATION Spec
CONSTANTS
  Calls = {1, 2}
  Plan <- AckLostOnce
  Trigger = "transport_abort"
  Retries = 1
  MaxDeaths = 0
  MaxLosses = 0
  BoxMayDie = TRUE
  Patient = FALSE
INVARIANT LoopTypeOK
INVARIANT AtMostOnce
INVARIANT InterruptedHasNoScore
