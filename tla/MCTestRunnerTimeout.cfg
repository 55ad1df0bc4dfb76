CONSTANTS
  NCases  = 1
  Workers = {w1}
SPECIFICATION Spec
PROPERTY TimeoutEndsTest
CHECK_DEADLOCK FALSE
