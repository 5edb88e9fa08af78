SPECIFICATION FairSpec
CONSTANTS
  r1 = r1
  r2 = r2
  r3 = r3
  r4 = r4
  RequestIds = {r1, r2, r3, r4}
  MaxOutages = 2
  MaxBoots = 1
INVARIANTS
  TypeOK
  OkayIsCommitted
  TwoInitsReconnect
PROPERTIES
  AnsweredOrDown
CHECK_DEADLOCK FALSE
