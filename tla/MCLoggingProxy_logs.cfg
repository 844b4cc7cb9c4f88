SPECIFICATION Spec
CONSTANTS
  Requests = {r1, r2}
  Tasks = {task1, task2}
  MaxEvents = 2
  Cut = Cut
  Sources = {"primary"}
SYMMETRY Symmetry
INVARIANTS TypeOK GivenIsLogged MergeFindsAll ExportIsOneLog
CHECK_DEADLOCK FALSE
