SPECIFICATION Spec
CONSTANTS
  c1 = c1
  c2 = c2
  c3 = c3
  Controls = {c1, c2}
  Commands = {"GetDevices", "QuitCollector"}
  MaxBoots = 2
  SocketFaults = {"accept", "signal", "end"}
SYMMETRY ControlSymmetry
INVARIANTS
  TypeOK
  CommandSentOnce
  AnswerPrinted
  PendingKeepsSocket
CHECK_DEADLOCK FALSE
