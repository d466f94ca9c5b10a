SPECIFICATION Spec
CONSTANTS
  Calls = {"collect"}
  Bodies = {"none"}
  Values = {0}
  KeepaliveOn = FALSE
  MaxC2S = 2
  MaxS2C = 2
  MaxFaults = 1
INVARIANTS FreshConnectionInQueryMode
CHECK_DEADLOCK FALSE
