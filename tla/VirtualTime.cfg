SPECIFICATION Spec
CONSTANTS
  r = r
  c = c
  d = d
  init = init
  Pid <- ThreeTasks
  Reaper = init
  Root = r
  Targets <- JustRoot
  Workloads <- LivelyOrRedilated
  Epoch = 20
SYMMETRY Interchangeable
INVARIANTS
  MembersShareFactor
  MembersAccountFreeze
  Resumable
PROPERTIES
  MemberClockContinuous
