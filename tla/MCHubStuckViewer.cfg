SPECIFICATION FairSpec
CONSTANTS
  Viewers = {v1, v2}
  MaxPumps = 2
  MaxErrors = 0
  MaxUnauth = 1
  MaxCloses = 0
PROPERTY ViewerServed
CHECK_DEADLOCK FALSE
