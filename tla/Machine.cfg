SPECIFICATION Spec
CONSTANTS
  Browsers = {"chrome", "edge"}
  People = {"ann", "bob"}
  Services = {"dig-node"}
  Attempts = 3
  Runs = 2
  ResolverRuns = 3
  Toggles = 2
  Faults = 2
  FetchFaults = 4
INVARIANTS
  WizardHolds
  ChoiceHolds
  ResolverHolds
  FolderHolds
  WindowHolds
  MigrationHolds
PROPERTIES
  EndIsTold
  ForeignKept
CHECK_DEADLOCK FALSE
