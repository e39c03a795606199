SPECIFICATION Spec
CONSTANTS
  p1 = p1
  p2 = p2
  Pids <- MCPids
  MaxVersion = 2
  Hosts <- Both
  ForceReinstall = TRUE
SYMMETRY PidSymmetry
INVARIANT TypeOK
INVARIANT PriorRecoverable
INVARIANT RollbackIsFinal
INVARIANT StagedLeavesDest
INVARIANT UninstallIsFinal
