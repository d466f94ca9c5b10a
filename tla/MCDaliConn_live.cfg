SPECIFICATION LiveSpec
CONSTANTS
  Calls = {"reject", "read", "collect", "collect_nb", "end_unstarted", "rawid", "terminate"}
  Bodies = {"none", "fits", "big"}
  Values = {0}
  KeepaliveOn = TRUE
  MaxC2S = 2
  MaxS2C = 2
  MaxFaults = 1
INVARIANTS TypeOK
PROPERTIES ImplementsSession RequestsReturn EndingReturns TerminateReturns
CHECK_DEADLOCK FALSE
