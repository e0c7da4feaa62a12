SPECIFICATION FairSpec
CONSTANTS
  Callers = {c1, c2}
  Nobody = nobody
  Table = 2
  MaxSessions = 4
  MaxReboots = 2
  MaxFaults = 1
  MaxChanges = 1
INVARIANT QuietCallsSucceed
PROPERTIES NeverTheDeadOne CallsReturn
