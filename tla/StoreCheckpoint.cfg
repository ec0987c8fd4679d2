SPECIFICATION FairSpec
CONSTANTS
  c1 = c1
  c2 = c2
  w1 = w1
  w2 = w2
  w3 = w3
  Containers <- MCContainers
  Writes <- MCWrites
  Overlap = FALSE
INVARIANT TypeOK
INVARIANT UnsavedIsTracked
INVARIANT CheckpointedIsDurable
PROPERTY ImplementsDurableStore
PROPERTY UnsavedIsEventuallySaved
