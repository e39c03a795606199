SPECIFICATION Spec
CONSTANTS
  Machines <- SmallMachines
  MaxVersion = 2
  MaxRuns = 2
PROPERTY RunEnds
PROPERTY RunIsAtomic
