SPECIFICATION ConsoleSpec
CONSTANTS
  Calls = {"match"}
  Bodies = {"none"}
  Values = {0}
  KeepaliveOn = FALSE
  MaxC2S = 2
  MaxS2C = 2
  MaxFaults = 2
  Cmds = {"MATCH"}
INVARIANTS ReconnectsBrokenLink
CHECK_DEADLOCK FALSE
