SPECIFICATION Spec
CONSTANTS
  Card = {1, 3}
  Stand = {}
  NDays = 2
  DayOf <- MCDayOf
  AviSize = 4
  Mp4Size = 2
  MetaSize = 1
  MaxBytes = 6
  MaxFaults = 0
PROPERTY AgedOutDayPruned
