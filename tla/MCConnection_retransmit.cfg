SPECIFICATION Spec
CONSTANTS
  Configs <- MCOneSession
  MaxMessages = 2
  MaxPackets = 7
  MaxLate = 0
  MaxSessions = 2
  MaxReliableRetries = 1
  FragmentCount = 2
  AckBitsWindow = 64
INVARIANT
  AnyCopySettles
CHECK_DEADLOCK FALSE
