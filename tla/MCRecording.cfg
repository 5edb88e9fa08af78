SPECIFICATION Spec
CONSTANTS
  Plans <- SomeOrNone
  MaxSessions = 2
  MaxStarts = 2
  Backends = {"pqsql", "sqlite3"}
  EntryCounts = {2}
  MaxAdmin = 1
  Forced = {TRUE, FALSE}
  Breaks = {0, 1, 4}
INVARIANTS
  TypeOK
  SampleWhole
  SamplePrefix
  RowsKeepSession
  InitComplete
  PlanFollowed
PROPERTIES
  StoreKept
CHECK_DEADLOCK FALSE
