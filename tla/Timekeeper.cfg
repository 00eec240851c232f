SPECIFICATION Spec
CONSTANTS
  tsc = tsc
  hpet = hpet
  SEC = 2
  Interval = 1
  Epoch = 4
  Source <- Sources
  First = hpet
  Nonstop <- JustTsc
  Skew <- Skews
  Persistent <- Either
  Steps <- BackAndForth
  Leaps <- InsertOrDrop
  Tais <- OneTai
  Tdf = 500
  MaxAge = 4
  MaxEvents = 2
  MaxReads = 1
INVARIANTS
  BootClockKept
PROPERTIES
  SystemReads
  VirtualReads
CHECK_DEADLOCK FALSE
