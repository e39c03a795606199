SPECIFICATION Spec
CONSTANTS
  MaxMints = 2
  MixedPairParses = TRUE
INVARIANTS
  WorkingAuthorityKept
  CreatedIsUsable
  AnchorsAccounted
  TrustedMeansRecorded
  UninstallForgets
