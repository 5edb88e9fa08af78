SPECIFICATION Spec
CONSTANTS
  d1 = d1
  d2 = d2
  h1 = h1
  h2 = h2
  NoDevice = NoDevice
  NoHash = NoHash
  Devices = {d1}
  Hashes = {h1}
  MaxRequests = 3
  Faults = {"query", "write", "resolve"}
  Issues <- SharedIssues
  FreshHashes = TRUE
  MaxBacklog = 2
  Backend = "pqsql"
  Commands <- AdministrationCommands
  Provisioned = {d1}
  MaxEpochs = 1
  Erase = {TRUE, FALSE}
INVARIANTS
  RequestAnsweredOnce
  DeviceRowUnique
PROPERTIES
  ImplementsService
CHECK_DEADLOCK FALSE
