SPECIFICATION Spec
CONSTANTS
  Calls = {"position", "match", "write", "write_noack", "read", "read_next", "getinfo",
           "collect", "collect_nb", "terminate"}
  Bodies = {"none", "fits", "big", "bad"}
  Values <- Signs
  KeepaliveOn = FALSE
  MaxC2S = 2
  MaxS2C = 2
  MaxFaults = 1
INVARIANTS IInv QueryModeQuiet CommandsFitMode ReplyInSync OwnReply
PROPERTIES EndedMeansOver
CHECK_DEADLOCK FALSE
