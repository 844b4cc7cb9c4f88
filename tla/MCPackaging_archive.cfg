CONSTANTS
  Tasks = {task1, task2}
  Sources = {train_py, model_py}
  Texts = {old, new}
  Bytecode = Bytecode
  Torn = Torn
SYMMETRY Symmetry
SPECIFICATION Spec
INVARIANTS
  TypeOK
  ArchiveMatchesItsManifest
  ArchiveIsCovered
PROPERTIES
  ArchiveIsFrozen
