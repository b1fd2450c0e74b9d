SPECIFICATION MCSpec
CONSTANTS
  Searchers = {s1, s2}
  Indexers = {i1, i2}
  Kinds = {"bm25", "dense", "quality"}
  CacheSize = 1
  MaxChanges = 2
  Absent = Absent
  PoolThreads = {p1, p2}
  Services = {v1, v2}
  Dependents = {d1, d2}
  Nobody = Nobody
  Parts <- Both
INVARIANTS
  RequestsTypeOK HonestAnswers StaleNeedsOverlap
  AtomicWhileConfined
SYMMETRY ThreadSymmetry
CHECK_DEADLOCK FALSE
