SPECIFICATION RxSpec
CONSTANTS
  cpu0 = cpu0
  cpu1 = cpu1
  NoCpu = NoCpu
  Cpu <- TwoCpus
  MapCpu = cpu0
  Steerings <- AllSteerings
  Arrivals = 3
  Moves = 2
  MaxBacklog = 1
  Weight = 2
  Unplug = TRUE
INVARIANTS
  BacklogOnOneList
  NothingLeft
PROPERTIES
  FlowInOrder
  BacklogServed
CHECK_DEADLOCK FALSE
