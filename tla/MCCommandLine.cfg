SPECIFICATION Spec
CONSTANTS
  Lines <- AllLines
  Words = {"x", "y"}
INVARIANTS
  TypeOK
  OneCommandOnly
  NoNullArgument
  ShortLinesRun
CHECK_DEADLOCK FALSE
