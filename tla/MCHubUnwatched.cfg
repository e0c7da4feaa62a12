SPECIFICATION Spec
CONSTANTS
  Viewers = {v1}
  MaxPumps = 3
  MaxErrors = 0
  MaxUnauth = 1
  MaxCloses = 0
INVARIANT NotUnwatched
CHECK_DEADLOCK FALSE
