SPECIFICATION FairSpec
CONSTANTS
  c1 = c1
  c2 = c2
  slow = slow
  real = real
  CPU <- TwoCPUs
  Task <- TwoTasks
  Dilation <- Tdfs
  Uses <- Calls
  Requests = {1}
  Slack <- Slacks
  Retries = 2
  MaxHang = 1
  Steps <- BackAndForth
  Span = 4
  MaxCalls = 2
  MaxEvents = 1
CHECK_DEADLOCK FALSE
INVARIANTS
  NoTimerForgotten
  TimerOffStack
PROPERTIES
  NeverEarly
  Woken
