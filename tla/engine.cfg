SPECIFICATION MCSpec
CONSTANTS
  Files = {f1}
  JobIds = {1, 2, 3, 4}
  Workers = {w1}
  MaxAttempts = 2
  Retention = 3
  Ticks = {1}
  None = None
  Content <- ThreeTexts
  Big = {3}
  Unsupported = {}
  Opaque = {}
  Corrupt = {}
  FlushSlots = {1}
  Scenarios <- Mixed
INVARIANTS EngineInv CalmKeepsFresh
PROPERTY Spec
CHECK_DEADLOCK FALSE
