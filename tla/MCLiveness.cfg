SPECIFICATION FairSpec
CONSTANTS
  d1 = d1
  d2 = d2
  h1 = h1
  h2 = h2
  NoDevice = NoDevice
  NoHash = NoHash
  Devices = {d1, d2}
  Hashes = {h1}
  MaxRequests = 2
  Faults = {"boot", "descriptor", "eof", "signal"}
  Issues <- SharedIssues
  FreshHashes = TRUE
  MaxBacklog = 2
  Backend = "sqlite3"
  Commands <- LifeCommands
  Provisioned = {d1}
  MaxEpochs = 2
  Erase = {FALSE}
INVARIANTS
  DevicesLoaded
PROPERTIES
  RequestEventuallyAnswered
  SessionEventuallyEnded
CHECK_DEADLOCK FALSE
