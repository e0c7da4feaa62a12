SPECIFICATION FairSpec
CONSTANTS
  Recs = {1, 2}
  Bad = {}
  Storers <- MCStorers
  Depth = 1
  Batch = 2
  MaxRestarts = 1
  MaxRetire = 0
PROPERTY JobFinished
