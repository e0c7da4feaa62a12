SPECIFICATION FairPullSpec
CONSTANTS
  Total = 7
  AtFirst = 5
  DirOf <- SomeDirs
  Undated = {4}
  OddAt = {3}
  DirListedAt <- SomeOrder
  ListedAt <- Oldest
  DirsPerPage = 2
  RecsPerPage = 2
  MaxDayPages = 5
  MaxPullFaults = 2
  MaxDeleted = 1
CHECK_DEADLOCK FALSE
INVARIANT FetchedOnce
PROPERTIES WholePass CaughtUp
