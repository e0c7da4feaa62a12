SPECIFICATION Spec
CONSTANTS
  Callers = {c1, c2}
  Nobody = nobody
  Table = 3
  MaxSessions = 4
  MaxReboots = 1
  MaxFaults = 0
  MaxChanges = 0
PROPERTY OneRelogin
