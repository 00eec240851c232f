SPECIFICATION FairSpec
CONSTANTS
  h1 = h1
  h2 = h2
  Nodes = {h1, h2}
  PidList <- MCPidList
  Hosts <- MCHosts
  MaxFds = 5
  MaxCmds = 2
  MaxFaults = 1
  Budget = 3
CHECK_DEADLOCK FALSE
INVARIANTS
  CommandTookEffect
  RepliesInStep
PROPERTIES
  EverybodyServed
