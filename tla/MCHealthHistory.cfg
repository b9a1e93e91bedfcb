SPECIFICATION Spec
CONSTANTS
  FailThreshold = 3
  RecoverThreshold = 2
  MaxProbes = 9
INVARIANTS
  HealthMatchesHistory
