SPECIFICATION Spec
CONSTANTS
  c1 = c1
  c2 = c2
  Clients = {c1, c2}
  Configs <- MCConfigs
  MaxClients = 1
  MaxPending = 1
  ConnectionTimeout = 0
  RequestTimeout = 1
  DisconnectRetryTimeout = 0
  DisconnectRetries = 0
  MigrationCooldown = 1
  MaxCalls = 4
  MaxDuplicates = 0
INVARIANTS
  TypeOK
  AdmissionBounded
  ServerTablesAgree
SYMMETRY MCSymmetry
CHECK_DEADLOCK FALSE
