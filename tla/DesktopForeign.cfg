SPECIFICATION Spec
CONSTANTS
  MaxRuns = 2
  MaxEdits = 1
INVARIANT ForeignHandlersKept
