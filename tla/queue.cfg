SPECIFICATION MCSpec
CONSTANTS
  Files = {f1}
  JobIds = {1, 2, 3}
  Workers = {w1, w2}
  MaxAttempts = 2
  Retention = 3
  Ticks = {1}
  None = None
  Scenarios <- SafetyScenarios
INVARIANTS QueueInv OneCurrentJob
PROPERTIES QueuedIsAwaited FinishedIsFinal WorkersSpareMissing ImplementsLease
SYMMETRY ThreadSymmetry
CHECK_DEADLOCK FALSE
