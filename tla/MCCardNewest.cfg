SPECIFICATION PullSpec
CONSTANTS
  Total = 7
  AtFirst = 5
  DirOf <- LongDay
  Undated = {2}
  OddAt = {}
  DirListedAt <- LongOrder
  ListedAt <- Newest
  DirsPerPage = 2
  RecsPerPage = 2
  MaxDayPages = 5
  MaxPullFaults = 2
  MaxDeleted = 1
CHECK_DEADLOCK FALSE
INVARIANTS FetchedOnce
