SPECIFICATION FairSpec
CONSTANTS
  Ids = {i1, i2}
  Addrs = {a1, a2}
  Gone = gone
  Handlers = {h1}
  Watcher = watcher
  Main = main
  Nobody = nobody
  Slots = {1, 2, 3, 4}
  MaxEdits = 2
  MaxFaults = 1
  MaxRestarts = 1
CHECK_DEADLOCK FALSE
INVARIANTS NoOrphans FollowsUnlessStale
PROPERTY ShutdownEnds
