SPECIFICATION Spec
CONSTANTS
  Configs <- MCConfigs
  MaxMessages = 2
  MaxPackets = 7
  MaxLate = 1
  MaxSessions = 2
  MaxReliableRetries = 1
  FragmentCount = 2
  AckBitsWindow = 64
INVARIANTS
  TypeOK
  AcknowledgedArrived
  TransmissionsEnd
  NeverMixed
CHECK_DEADLOCK FALSE
