SPECIFICATION Spec
CONSTANTS
  Base = 5
  SP = SP
  NL = NL
  A = A
  B = B
  Address <- TheAddress
  Texts <- OldTexts
  Modes = {"collect", "info", "console"}
  Repeats = {0, 1, 3}
  Second = 1
  IntMax = 2
  FirstID = 4
  FirstTime = 6
  TimeStep = 6
  RingSize = 2
  MaxPackets = 3
  MaxRestarts = 1
  MaxSessions = 3
  MaxPolls = 3
  MaxClock = 2
  MaxFaults = 1
INVARIANTS DalitoolTypeOK RecoversSaved InfoRate
PROPERTIES PositionWasHandled NoLoss
CHECK_DEADLOCK FALSE
