SPECIFICATION Spec
CONSTANTS
  Calls = {"match", "collect_nb"}
  Bodies = {"none"}
  Values = {0}
  KeepaliveOn = TRUE
  MaxC2S = 2
  MaxS2C = 2
  MaxFaults = 0
PROPERTIES UsableAfterEnding
CHECK_DEADLOCK FALSE
