SPECIFICATION Spec
CONSTANTS
  Configs <- MCConfigs
  Failures <- MCFailures
  ReportLife = 2
  MaxTime = 3
  MaxTurns = 2
  NoReport = NoReport
  Torn = Torn
INVARIANTS TypeOK FallbackWasReported
PROPERTY StartsOnFreshCheck
