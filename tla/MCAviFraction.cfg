SPECIFICATION AviSpec
CONSTANTS
  Lengths = {0, 3, 4}
  Gaps = {81, 90}
  Speeds = {0, 1, 4}
  Froms = {1, 9}
  Lates = {0, 5}
  Marks <- SomeMarks
  Missing = {30, 300}
  Junk = {0, 1000}
  MaxFrames = 3
  MinFrames = 3
  MaxOffered = 3
  Milli = 10
  Kilo = 10
  Default = 400
  Wrap = 1000000
CHECK_DEADLOCK FALSE
INVARIANT FractionIsFiner
