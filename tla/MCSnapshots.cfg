SPECIFICATION Spec
CONSTANTS
  Writers = {w1, w2, w3}
  Keep = 2
  MaxTaken = 4
INVARIANTS
  NewestSurvives
  RetentionBound
PROPERTY
  SequentialRestore
