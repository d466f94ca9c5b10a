SPECIFICATION NetIOSpec
CONSTANTS
  Timeouts = {0, 1}
  Headers = {2}
  Bodies = {0, 1}
  MaxAddr = 2
  MaxSockets = 3
  MaxPackets = 2
  MaxFaults = 1
INVARIANTS NetTypeOK ModeRestored NoLeak
PROPERTIES TimeoutArmed ImplementsPacketIO PollReturns TimeoutReturns
CHECK_DEADLOCK FALSE
