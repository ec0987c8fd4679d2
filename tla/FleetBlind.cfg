SPECIFICATION Spec
CONSTANTS
  e1 = e1
  e2 = e2
  s1 = s1
  Nobody = Nobody
  Episodes <- MCTwo
  Keys <- MCTwoKeys
  Sweepers <- MCSweepers
  Scan = 1
  Budget = 1
  MaxFaults = 0
  QuietReap = TRUE
  BlindReap = TRUE
INVARIANT SparesTheLiving
