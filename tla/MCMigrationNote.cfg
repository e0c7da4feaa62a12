SPECIFICATION Spec
CONSTANTS
  Card = {1, 2}
  Stand = {3}
  Id = id
  Mac = mac
  FirstKey = id
  Nowhere = nowhere
  MaxRetire = 2
  MaxFaults = 0
PROPERTY NotesKept
CHECK_DEADLOCK FALSE
