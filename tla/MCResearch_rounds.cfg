SPECIFICATION FairSpec
CONSTANTS
  Tasks = {"task1"}
  Scores = {1}
  NoKey = NoKey
  Unordered = Unordered
  NoMetrics = NoMetrics
  MaxIterations = 2
  Patience = 1
  PhaseTries = 2
  RequestTries = 2
  ToolRounds = 1
  DesignRounds = 2
  LegacyFiles <- MCLegacyFiles
  MaxLives = 2
  NoFile = NoFile
  Torn = Torn
INVARIANTS TypeOK TrainingCountsOnce  IterationBudget LossIsOneRound PackedStaysComplete
PROPERTIES HistoryOnlyGrows StopIsFinal RunEnds
CHECK_DEADLOCK FALSE
