SPECIFICATION MCSpec
CONSTANTS
  Procs = {p1, p2, p3}
  MaxRestarts = 3
  TicksToReset = 6
  Windows = TRUE
  None = None
  Crashes = 5
  Failures = 1
  Callers = {c1, c2, c3}
  LoaderThreads = {t1, t2}
  NoThread = NoThread
INVARIANTS SupervisorInv LoaderInv
PROPERTIES NoNewStart ExitLeadsToRestart WaitersReleased
CHECK_DEADLOCK FALSE
