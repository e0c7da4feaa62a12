SPECIFICATION FairSpec
CONSTANTS
  Recs = {1, 2, 3}
  Bad = {3}
  Storers <- MCStorers
  Depth = 1
  Batch = 2
  MaxRestarts = 1
  MaxRetire = 1
INVARIANTS WaitingExact OneAtATime FewRetries
PROPERTY BacklogDrains
