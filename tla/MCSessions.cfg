SPECIFICATION Spec
CONSTANTS
  d1 = d1
  d2 = d2
  h1 = h1
  h2 = h2
  NoDevice = NoDevice
  NoHash = NoHash
  Devices = {d1}
  Hashes = {h1, h2}
  MaxRequests = 4
  Faults = {"connect", "descriptor", "eof"}
  Issues <- SharedIssues
  FreshHashes = TRUE
  MaxBacklog = 2
  Backend = "pqsql"
  Commands <- DeviceCommands
  Provisioned = {d1}
  MaxEpochs = 1
  Erase = {FALSE}
SYMMETRY HashSymmetry
INVARIANTS
  TypeOK
  RequestAnsweredOnce
  DisconnectedSessionEnded
  DataAttribution
  ConnectedHasConnection
CHECK_DEADLOCK FALSE
