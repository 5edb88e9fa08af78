SPECIFICATION FairSpec
CONSTANTS
  Plans <- AnyPlan
  MaxSessions = 1
  MaxStarts = 2
  Backends = {"pqsql"}
  EntryCounts = {1}
  MaxAdmin = 0
  Forced = {FALSE}
  Breaks = {}
INVARIANTS
  TablesNotShared
PROPERTIES
  EventuallyRecorded
CHECK_DEADLOCK FALSE
