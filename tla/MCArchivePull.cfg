SPECIFICATION FairSpec
CONSTANTS
  Card = {1, 2}
  Stand = {}
  NDays = 2
  DayOf <- MCDayOf
  AviSize = 4
  Mp4Size = 2
  MetaSize = 1
  MaxBytes = 6
  MaxFaults = 2
INVARIANTS WholeFiles SidecarFirst NeverFetchedTwice NoLeakedTemp
PROPERTIES KeepsPromise LimitRegained CardSettled
