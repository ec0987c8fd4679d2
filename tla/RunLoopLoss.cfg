SPECIFICATION Spec
CONSTANTS
  Calls = {1, 2, 3}
  Plan <- NoFaults
  Trigger = "none"
  Retries = 1
  MaxDeaths = 0
  MaxLosses = 1
  BoxMayDie = FALSE
  Patient = TRUE
INVARIANT LossLeavesAMark
INVARIANT NoRewriteIsJudgedRight
INVARIANT ServedIsRecorded
INVARIANT OkIsGraded
