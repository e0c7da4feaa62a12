SPECIFICATION Spec
CONSTANTS
  a = a
  b = b
  x = x
  bri = bri
  hmir = hmir
  recsec = recsec
  o1 = o1
  o2 = o2
  Ops = {o1, o2}
  Cameras = {a, b}
  Ids = {a, b, x}
  Starts <- SomeStarts
  Refusable = {bri, recsec}
  Requests <- SomeRequests
  MaxIds = 3
  ImageForm = {bri, hmir}
  RecordingForm = {recsec}
  Known = {bri, hmir, recsec}
  Checkboxes = {hmir}
  Bad = Bad
  MaxFaults = 2
  MaxEdits = 1
CHECK_DEADLOCK FALSE
INVARIANTS DoneIsApplied OwnFailures FleetKnown
PROPERTY KeptUnlessRaced
