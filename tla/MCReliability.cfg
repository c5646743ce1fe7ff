SPECIFICATION Spec
CONSTANTS
  HalfRange = 8
  Starts <- MCStarts
  MaxPackets = 4
  MaxTime = 1
  AckBitsWindow = 2
  BufferSize = 2
  MaxInFlight = 2
  FastRetransmitThreshold = 2
  MaxNackCount = 3
INVARIANTS
  TypeOK
  AckBitsComplete
  AcksHonest
  FastRetransmitSound
  RecentStayTracked
CHECK_DEADLOCK FALSE
