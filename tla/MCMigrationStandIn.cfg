SPECIFICATION Spec
CONSTANTS
  Card = {1}
  Stand = {2}
  Id = id
  Mac = mac
  FirstKey = id
  Nowhere = nowhere
  MaxRetire = 0
  MaxFaults = 0
PROPERTY StandInLands
CHECK_DEADLOCK FALSE
