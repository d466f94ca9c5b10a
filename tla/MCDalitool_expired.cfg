SPECIFICATION Spec
CONSTANTS
  Base = 5
  SP = SP
  NL = NL
  A = A
  B = B
  Address <- TheAddress
  Texts <- OldTexts
  Modes = {"collect"}
  Repeats = {0, 1, 2}
  Second = 2
  IntMax = 3
  FirstID = 4
  FirstTime = 6
  TimeStep = 6
  RingSize = 2
  MaxPackets = 4
  MaxRestarts = 1
  MaxSessions = 2
  MaxPolls = 4
  MaxClock = 5
  MaxFaults = 0
PROPERTIES StoppedAndStarted
CHECK_DEADLOCK FALSE
