SPECIFICATION MCSpec
CONSTANTS
  Files = {f1}
  JobIds = {1, 2, 3, 4}
  Workers = {w1, w2}
  MaxAttempts = 2
  Retention = 3
  Ticks = {1}
  None = None
  Content <- ThreeTexts
  Big = {}
  Unsupported = {}
  Opaque = {}
  Corrupt = {}
  FlushSlots = {1}
  Scenarios <- ThreeEdits
INVARIANT IndexedIsFresh
CHECK_DEADLOCK FALSE
