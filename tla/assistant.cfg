SPECIFICATION MCFairSpec
CONSTANTS
  Turns = {m1, m2}
  Nobody = Nobody
  Requests = {r1, r2}
  MaxRevision = 3
  None = None
  Texts = {"first", "second", "blank"}
  Blank = {"blank"}
  Capacity = 1
  Askers = {a1, a2}
  Models = {"small", "large"}
  DefaultModel = "small"
  FirstText = "first"
  Scenarios <- AllScenarios
INVARIANTS AssistantTypeOK AnswersFollowQuestions QuestionsAccountedFor SlotSound SummariesAreTrue AnswersGrounded
CHECK_DEADLOCK FALSE
PROPERTIES QuestionsAnswered NobodyWaits
