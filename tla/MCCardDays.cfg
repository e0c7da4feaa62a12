SPECIFICATION PullSpec
CONSTANTS
  Total = 4
  AtFirst = 4
  DirOf <- ManyDirs
  Undated = {3, 4}
  OddAt = {}
  DirListedAt <- ManyOrder
  ListedAt <- Oldest
  DirsPerPage = 2
  RecsPerPage = 2
  MaxDayPages = 5
  MaxPullFaults = 2
  MaxDeleted = 1
CHECK_DEADLOCK FALSE
PROPERTIES DaysListed
