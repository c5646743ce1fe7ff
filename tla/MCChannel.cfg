SPECIFICATION FairSpec
CONSTANTS
  HalfRange = 4
  Configs <- MCConfigs
  StartSeq = 6
  MaxSends = 3
  MessageBufferSize = 1
  MaxOrderedBufferSize = 1
  OrderedBufferTimeout = 0
  MaxReliableRetries = 1
  MaxBackoffExponent = 0
  Rto = 1
  FastRetransmitAge = 1
  MaxAge = 1
  MaxDuplicates = 1
  MaxNacks = 1
INVARIANTS
  TypeOK
  BuffersSound
  InOrderOnce
CHECK_DEADLOCK FALSE
PROPERTIES
  NoGapBeforeTimeout
  KeepsDeliveryPromise
  NothingWaitsForEver
  KeepsTrying
