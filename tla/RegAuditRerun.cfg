CONSTANTS
  SERVICES = {"dig-node"}
  MaxRuns = 2
  MaxFaults = 2
SPECIFICATION Spec
INVARIANT RerunHeals
CHECK_DEADLOCK FALSE
