SPECIFICATION FairSpec
CONSTANTS
  c1 = c1
  c2 = c2
  Clients = {c1, c2}
  Configs <- AllEnabled
  MaxClients = 1
  MaxPending = 1
  ConnectionTimeout = 0
  RequestTimeout = 1
  DisconnectRetryTimeout = 0
  DisconnectRetries = 1
  MigrationCooldown = 1
  MaxCalls = 2
  MaxDuplicates = 1
PROPERTIES
  HalfOpenEnds
  HandshakeEnds
  GoodbyeEnds
CHECK_DEADLOCK FALSE
