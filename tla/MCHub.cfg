SPECIFICATION FairSpec
CONSTANTS
  Viewers = {v1, v2}
  MaxPumps = 3
  MaxErrors = 1
  MaxUnauth = 1
  MaxCloses = 1
CHECK_DEADLOCK FALSE
INVARIANTS OneLivePump OpenChannels
PROPERTIES ServedUnlessRefused PumpsEnd
