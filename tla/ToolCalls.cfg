CONSTANTS
  Files <- MCFiles
  EvalFile = "eval"
  Scripted = "CHANGELOG.md"
  Menu <- MCMenu
  Played = {"missing_config", "locked_file", "lost_ack", "gauntlet", "worker_crash"}
  MaxCalls = 3
  MaxBreaks = 1
SPECIFICATION Spec
INVARIANT TypeOK
INVARIANT OutcomeIsTrue
INVARIANT ListingAgrees
INVARIANT ScoreIsEarned
INVARIANT BlindRewriteFails
INVARIANT ResolutionIsTrue
CHECK_DEADLOCK FALSE
