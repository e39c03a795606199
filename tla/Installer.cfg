SPECIFICATION Spec
CONSTANTS
  Machines <- MCMachines
  MaxVersion = 2
  MaxRuns = 1
INVARIANT TypeOK
INVARIANT RollbackRestoresFiles
INVARIANT RollbackSparesServices
INVARIANT ClaimsHold
INVARIANT DecliningKeepsRegistration
INVARIANT ReadyHolds
