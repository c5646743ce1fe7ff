SPECIFICATION Spec
CONSTANTS
  c1 = c1
  c2 = c2
  Clients = {c1, c2}
  Configs <- WithMigration
  MaxClients = 2
  MaxPending = 2
  ConnectionTimeout = 0
  RequestTimeout = 1
  DisconnectRetryTimeout = 0
  DisconnectRetries = 1
  MigrationCooldown = 1
  MaxCalls = 3
  MaxDuplicates = 0
INVARIANT
  MigrationKeepsClient
CHECK_DEADLOCK FALSE
