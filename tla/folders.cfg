SPECIFICATION MCSpec
CONSTANTS
  Dirs = {"d", "e"}
  Root = "root"
  Self = ""
  None = None
  Files <- SomeFiles
  Ignored <- Temporary
  SubBatch = 2
  Timers = 2
  Paths = {"inner", "outer"}
  Below <- SomeBelow
  Requesters = {c1, c2}
  MaxRows = 3
  Program = Program
  Nothing = Nothing
  Scenarios <- AllScenarios
INVARIANTS FoldersTypeOK RowsFollowUnlessExcused WatchesFollowUnlessReplaced RootsKeepApart
CHECK_DEADLOCK FALSE
