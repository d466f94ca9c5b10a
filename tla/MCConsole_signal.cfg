SPECIFICATION ConsoleSpec
CONSTANTS
  Calls = {"match", "collect_nb", "terminate"}
  Bodies = {"none"}
  Values = {0}
  KeepaliveOn = FALSE
  MaxC2S = 2
  MaxS2C = 2
  MaxFaults = 0
  Cmds = {"STREAM", "MATCH"}
INVARIANTS StreamEndedBeforeReuse
CHECK_DEADLOCK FALSE
