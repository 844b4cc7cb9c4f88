CONSTANTS
  Tasks = {task1, task2}
  Files = {model_py, train_py}
  Texts = {old, new}
  Binary = Binary
  Absent = Absent
  NoVersion = NoVersion
  NoEntry = NoEntry
  NoCall = NoCall
  MaxSteps = 2
  MaxSessions = 2
  Claims <- MCClaims
  ToolNames <- MCToolNames
SYMMETRY Symmetry
SPECIFICATION Spec
INVARIANTS
  TypeOK
  WorksFromNewest
  LineageIsLogged
  SupportNeverShrinks
  PatchCheckedAgainstBase
  
  DirectoryMatchesVersion
  RecoveryComesFirst
  UnionTellsLineage
CHECK_DEADLOCK FALSE
