SPECIFICATION FairSpec
CONSTANTS
  Card = {1}
  Stand = {2}
  Id = id
  Mac = mac
  FirstKey = id
  Nowhere = nowhere
  MaxRetire = 1
  MaxFaults = 1
CHECK_DEADLOCK FALSE
PROPERTIES FootageKept Moved CardFiled
