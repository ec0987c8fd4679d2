CONSTANTS
  Users = {"u1", "anonymous", "legacy"}
  Anonymous = "anonymous"
  LegacyUser = "legacy"
  LiveRuns = {"r1"}
  LegacyRuns = {"lost"}
  Log <- MCLog
  Legacy <- MCLegacy
  Jobs = {"backfill", "legacy", "prune"}
  ChunkSize = 4
  MaxConvs = 1
  MaxJobs = 2
  MaxFailures = 1
SPECIFICATION Spec
INVARIANT TypeOK
INVARIANT OwnersAgree
INVARIANT StraysExplained
INVARIANT TranscriptMatchesLog
PROPERTY RowKeepsItsFacts
CHECK_DEADLOCK FALSE
