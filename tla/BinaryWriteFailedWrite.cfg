SPECIFICATION Spec
CONSTANTS
  p1 = p1
  p2 = p2
  Pids <- MCPids
  MaxVersion = 2
  Hosts <- Unix
  ForceReinstall = FALSE
INVARIANT FailedWriteKeepsPrior
