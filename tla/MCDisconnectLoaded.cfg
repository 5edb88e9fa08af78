SPECIFICATION Spec
CONSTANTS
  d1 = d1
  d2 = d2
  h1 = h1
  h2 = h2
  NoDevice = NoDevice
  NoHash = NoHash
  Devices = {d1}
  Hashes = {h1, h2}
  MaxRequests = 1
  Faults = {}
  Issues <- SharedIssues
  FreshHashes = TRUE
  MaxBacklog = 2
  Backend = "pqsql"
  Commands <- DisconnectOnly
  Provisioned = {d1}
  MaxEpochs = 1
  Erase = {FALSE}
PROPERTIES
  DisconnectSurvives
CHECK_DEADLOCK FALSE
