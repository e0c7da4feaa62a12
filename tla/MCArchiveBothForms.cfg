SPECIFICATION Spec
CONSTANTS
  Card = {}
  Stand = {1, 2}
  NDays = 2
  DayOf <- MCDayOf
  AviSize = 4
  Mp4Size = 2
  MetaSize = 1
  MaxBytes = 6
  MaxFaults = 1
INVARIANT AgedOutWhole
