SPECIFICATION Spec
CONSTANTS
  waiterA = waiterA
  waiterB = waiterB
  wakerX = wakerX
  wakerY = wakerY
  futexF = futexF
  futexG = futexG
  futexH = futexH
  None = None
  Waiters = {waiterA, waiterB}
  Wakers = {wakerX, wakerY}
  Futexes = {futexF, futexG, futexH}
  Hash <- MCHash
  Bitsets <- MCBitsets
  Tdf <- MCTdf
  Second = 1
  Requests <- MCRequests
  Counts <- MCCounts
  WaitsOn <- MCWaitsOn
  Signals <- MCSignals
  Does <- MCDoes
  MaxWaits = 2
  MaxPosts = 2
  MaxSignals = 1
INVARIANTS
  QueuesAgree
  NoWakeLost
  NotEarly
  NobodyStuck
CHECK_DEADLOCK FALSE
