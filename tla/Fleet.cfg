SPECIFICATION FairSpec
CONSTANTS
  e1 = e1
  e2 = e2
  s1 = s1
  Nobody = Nobody
  Episodes <- MCTwo
  Keys <- MCTwoKeys
  Sweepers <- MCSweepers
  Scan = 1
  Budget = 1
  MaxFaults = 1
  QuietReap = TRUE
  BlindReap = FALSE
INVARIANT TypeOK
INVARIANT SparesTheLiving
INVARIANT ReapedIsMarked
INVARIANT NoSilentStray
PROPERTY PurgedIsGone
PROPERTY OldIsReclaimed
