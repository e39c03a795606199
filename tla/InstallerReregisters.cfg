SPECIFICATION Spec
CONSTANTS
  Machines <- NodeMachines
  MaxVersion = 2
  MaxRuns = 1
INVARIANT InstalledMeansRegistered
