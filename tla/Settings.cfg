SPECIFICATION Spec
CONSTANTS
  Browsers = {"chrome", "edge"}
  Runs = 2
  DesktopRuns = 3
  Edits = 1
  HostsEdits = 2
  Faults = 2
  Others = 2
INVARIANTS
  EditsHold
  PolicyHolds
  EntryHolds
  HandlersHold
  WiringHolds
  RootHolds
PROPERTY OldRootNeeded
CHECK_DEADLOCK FALSE
