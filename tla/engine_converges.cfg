SPECIFICATION MCFairSpec
CONSTANTS
  Files = {f1}
  JobIds = {1, 2, 3, 4}
  Workers = {w1}
  MaxAttempts = 2
  Retention = 3
  Ticks = {1}
  None = None
  Content <- AllKinds
  Big = {}
  Unsupported = {5}
  Opaque = {3}
  Corrupt = {4}
  FlushSlots = {1, 2}
  Scenarios <- ModifyOnly
PROPERTY Converges
CHECK_DEADLOCK FALSE
