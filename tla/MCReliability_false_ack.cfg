SPECIFICATION Spec
CONSTANTS
  HalfRange = 8
  Starts <- MCRunning
  MaxPackets = 4
  MaxTime = 1
  AckBitsWindow = 2
  BufferSize = 2
  MaxInFlight = 2
  FastRetransmitThreshold = 2
  MaxNackCount = 3
INVARIANT AckedWasReceived
CHECK_DEADLOCK FALSE
