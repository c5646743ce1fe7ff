SPECIFICATION FairSpec
CONSTANTS
  HalfRange = 4
  Configs <- MCOrdered
  StartSeq = 6
  MaxSends = 3
  MessageBufferSize = 2
  MaxOrderedBufferSize = 1
  OrderedBufferTimeout = 0
  MaxReliableRetries = 1
  MaxBackoffExponent = 0
  Rto = 1
  FastRetransmitAge = 1
  MaxAge = 1
  MaxDuplicates = 0
  MaxNacks = 0
PROPERTY
  AcknowledgedIsDelivered
CHECK_DEADLOCK FALSE
