SPECIFICATION Spec
CONSTANTS
  Tasks = {"task1"}
  Scores = {1}
  NoKey = NoKey
  Unordered = Unordered
  NoMetrics = NoMetrics
  MaxIterations = 2
  Patience = 2
  PhaseTries = 2
  RequestTries = 2
  ToolRounds = 1
  DesignRounds = 2
  LegacyFiles = {NoFile}
  MaxLives = 1
  NoFile = NoFile
  Torn = Torn
INVARIANT SubmitsTheBest
CHECK_DEADLOCK FALSE
