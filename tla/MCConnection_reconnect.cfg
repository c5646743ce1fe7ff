SPECIFICATION Spec
CONSTANTS
  Configs <- MCReconnected
  MaxMessages = 2
  MaxPackets = 7
  MaxLate = 0
  MaxSessions = 2
  MaxReliableRetries = 1
  FragmentCount = 2
  AckBitsWindow = 64
INVARIANT
  ReconnectForgets
CHECK_DEADLOCK FALSE
