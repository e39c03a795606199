CONSTANT MaxFailures = 2
SPECIFICATION Spec
INVARIANTS CompleteMeansGone CleanRunCompletes
PROPERTIES NeverOrphansService

