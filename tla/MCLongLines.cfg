SPECIFICATION Spec
CONSTANTS
  Lines <- WholeHelp
  Words = {"x", "y"}
INVARIANTS
  LongLinesRun
CHECK_DEADLOCK FALSE
