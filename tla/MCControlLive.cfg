SPECIFICATION FairSpec
CONSTANTS
  c1 = c1
  c2 = c2
  c3 = c3
  Controls = {c1, c2}
  Commands = {"AddDevice", "QuitCollector"}
  MaxBoots = 0
  SocketFaults = {"silent"}
PROPERTIES
  ControlEnds
  QuitDelivered
  SocketsClosed
CHECK_DEADLOCK FALSE
