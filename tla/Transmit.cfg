SPECIFICATION Spec
CONSTANTS
  cpu0 = cpu0
  cpu1 = cpu1
  None = None
  Cpu <- TwoCpus
  Kinds = {"fifo", "htb", "none"}
  Band = {0, 1}
  Bounds <- SmallBounds
  QueueLen <- ShortQueues
  Unplug = TRUE
INVARIANTS
  ScheduledOnce
  QuietWhenDown
PROPERTIES
  IsFifo
  NobodyWaits
CHECK_DEADLOCK FALSE
