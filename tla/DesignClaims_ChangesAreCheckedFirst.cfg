CONSTANTS
  Tasks = {task1, task2}
  Files = {model_py}
  Texts = {old, new}
  Binary = Binary
  Absent = Absent
  NoVersion = NoVersion
  NoEntry = NoEntry
  NoCall = NoCall
  MaxSteps = 2
  MaxSessions = 2
  Claims <- MCClaims
  ToolNames = {"read_file"}
SPECIFICATION Spec
INVARIANT ChangesAreCheckedFirst
CHECK_DEADLOCK FALSE
