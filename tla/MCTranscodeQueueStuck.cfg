SPECIFICATION FairSpec
CONSTANTS
  Recs = {1, 2, 3}
  Bad = {2, 3}
  Storers <- MCStorers
  Depth = 1
  Batch = 2
  MaxRestarts = 0
  MaxRetire = 0
PROPERTY BacklogDrains
