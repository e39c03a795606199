SPECIFICATION Spec
CONSTANTS
  Polls = 2
INVARIANTS
  SurvivesReboot
  OneServes
  RemovalHolds
PROPERTIES
  RunEnds
