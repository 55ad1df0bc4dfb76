CONSTANTS
  NCases  = 3
  Workers = {w1, w2}
SPECIFICATION Spec
INVARIANTS EachOnce SkippedMeansFailed NoProcessLeft
PROPERTY EndsUnlessOrphaned
CHECK_DEADLOCK FALSE
