SPECIFICATION PartsSpec
CONSTANTS
  Fragment <- MCFragment
  FragmentTimeout = 2
  MaxBufferSize = 5
  MaxRepeats = 3
  MinMtu = 4
  MaxMtu = 12
  PathMtus = {4, 7, 9, 20}
  ConvergenceThreshold = 1
  ProbeTimeout = 2
  MaxAttempts = 5
  RecoveryTimes = {1, 4}
  MinRecovery = 2
  MaxRecovery = 8
  HalveInterval = 3
  QuickDropThreshold = 3
  MaxAge = 9
  NO_BASELINE = 11
  MaxPending = 2
  MaxSnapshots = 2
  FirstSeq = 9
  FieldCount = 2
  Capacity <- MCCapacity
  Contents <- MCContents
  Clients = {1, 2, 3}
  ExpireDuration = 2
  TokenLifetime = 2
  MaxTrackedTokens = 2
  Addresses <- MCAddresses
  Window = 3
  MaxRequests = 3
  Entities <- MCEntities
  Base <- MCBase
  Size <- MCSize
  Place <- MCPlace
  Observers <- MCObservers
  Radius = 5
  CellSize = 4
  Budget = 3
  MaxAccumulated = 8
  Rates = {0, 2}
  Second = 2
  Latency = 0
  Jitter = 2
  ReorderSpread = 2
  DuplicateSpread = 1
  PacketSizes = {1, 3}
  MaxPackets = 3
  Timestamps = {1, 2, 3, 4, 5, 6}
  RenderTimes = {0, 1, 2, 3, 4, 5, 6, 7, 8}
  PlaybackDelay = 1
  BufferDepth = 2
  Radix = 3
  MaxBatchMessages = 2
  BatchSizes = {4, 8, 12}
  Messages <- MCMessages
  MaxListed = 4
  ChannelCount = 2
  ReliableChannels = {1}
  MessageSizes = {1, 3}
  SendBufferSize = 2
  SendRates = {1, 6}
  PacketMtu = 2
  FragmentThreshold = 2
  InitialWindow = 2
  MaxWindow = 4
  Rto = 2
  MaxTrackedPackets = 1
  ByteBits = 4
  WordBits = 12
  Widths = {0, 1, 3, 4, 6, 12, 13}
  Words <- MCWords
  MaxWrites = 3
  DefaultMaxLen = 3
  LengthBytes = 2
  MaxDeserializeLength = 4
  Typed <- MCTyped
  MaxSerialized = 2
  NumberBits = 4
  FragmentIdBytes = 2
  MaxFragmentCount = 3
  MaxWholePayload = 2
  ChannelIds = {0, 7, 8}
  SizeLimits <- MCSizeLimits
  ChannelData <- MCChannelData
  ControlPackets <- MCControlPackets
  AckFields <- MCAckFields
  MaxRequested = 2
INVARIANTS
  TypeOK
  IntervalOrdered
  DecodedIsEncoded
  TokenAcceptedOnce
  AllowedWithinRate
  WithinBandwidth
  BatchesRoundTrip
  BitsReadBack
  MessagesRoundTrip
  PacketsArrive
PROPERTIES
  LiveMessagesKept
  GoodOnlyAfterCalm
  BaselineAdvances
  EntitiesSent
  NeverShownBackwards
  DelayedComesOut
  PriorityKept
  ChannelsServed
CHECK_DEADLOCK FALSE
