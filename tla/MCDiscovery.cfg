SPECIFICATION Spec
CONSTANTS
  cam = cam
  printer = printer
  ip1 = ip1
  ip2 = ip2
  Names = {cam, printer}
  Cameras = {cam}
  Ips = {ip1, ip2}
  Start <- JustTheCamera
  None = None
  ByName = ByName
  TTL = 2
  MaxDirect = 2
  MaxRecords = 2
  MaxMoves = 2
  MaxFaults = 1
INVARIANT AnswersWereTrue
PROPERTIES AnswersAssembled GoodbyeNotRenewed NamesResolved
