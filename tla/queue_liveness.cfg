SPECIFICATION MCFairSpec
CONSTANTS
  Files = {f1, f2}
  JobIds = {1, 2, 3}
  Workers = {w1}
  MaxAttempts = 2
  Retention = 0
  Ticks = {1}
  None = None
  Scenarios <- LivenessScenarios
PROPERTY JobsEnd
CHECK_DEADLOCK FALSE
