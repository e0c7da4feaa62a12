SPECIFICATION Spec
CONSTANTS
  Viewers = {v1}
  MaxPumps = 3
  MaxErrors = 0
  MaxUnauth = 0
  MaxCloses = 0
INVARIANT OneUpstream
CHECK_DEADLOCK FALSE
