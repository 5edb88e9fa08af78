SPECIFICATION Spec
CONSTANTS
  d1 = d1
  d2 = d2
  h1 = h1
  h2 = h2
  NoDevice = NoDevice
  NoHash = NoHash
  Devices = {d1}
  Hashes = {h1, h2}
  MaxRequests = 3
  Faults = {"boot", "eof", "signal"}
  Issues <- SharedIssues
  FreshHashes = FALSE
  MaxBacklog = 2
  Backend = "sqlite3"
  Commands <- RecoveryCommands
  Provisioned = {d1}
  MaxEpochs = 2
  Erase = {FALSE}
SYMMETRY HashSymmetry
INVARIANTS
  StaleSessionsEnded
  SessionHashUnique
PROPERTIES
  ImplementsService
CHECK_DEADLOCK FALSE
