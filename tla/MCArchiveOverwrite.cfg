SPECIFICATION Spec
CONSTANTS
  Card = {}
  Stand = {1}
  NDays = 2
  DayOf <- MCDayOf
  AviSize = 4
  Mp4Size = 2
  MetaSize = 1
  MaxBytes = 6
  MaxFaults = 0
INVARIANT StandInNeverOverwrites
