SPECIFICATION ConsoleLive
CONSTANTS
  Calls = {"position", "position_after", "match", "reject", "read", "read_next", "getinfo",
           "collect_nb", "rawid", "terminate"}
  Bodies = {"none", "fits"}
  Values = {0}
  KeepaliveOn = FALSE
  MaxC2S = 2
  MaxS2C = 2
  MaxFaults = 1
  Cmds = {"EXIT", "HELP", "ID", "PSET", "PAFTER", "MATCH", "REJECT", "INFO", "READ", "STREAM", "CONNECT"}
INVARIANTS ConsoleTypeOK PromptIsQueryMode
PROPERTIES EnterStopsStream CommandReturns
CHECK_DEADLOCK FALSE
