SPECIFICATION Spec
CONSTANTS
  host = host
  idle = idle
  Class <- Four
  Conf <- Tree
  First <- Three
  Prio = {0, 1}
  MaxDepth = 3
  SEC = 4
  MBuffer = 20
  Task <- Senders
  Sender <- Senders
  Frozen <- JustHost
  ParentOf <- Parents
  Tdfs <- Factors
  Lens = {1}
  DirectQlen = 1
  Hysteresis = FALSE
  Span = 3
  MaxPackets = 3
  MaxFrozen = 1
  MaxOps = 1
CHECK_DEADLOCK FALSE
INVARIANTS
  FeedsConsistent
  CeilRespected
  NoStall
