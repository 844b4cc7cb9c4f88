SPECIFICATION Spec
CONSTANTS
  Everything = Everything
  NoPhase = NoPhase
  Urls = {url1, url2}
  Hashes = {hash1}
  NoHash = NoHash
  Files = {model_py}
  Texts = {old, new}
  Tasks = {task1}
  Labels = {label1}
  Contexts <- MCContexts
  MaxCalls = 2
  Absent = Absent
  Partial = Partial
  NoEntry = NoEntry
  NoSnap = NoSnap
  NoArchive = NoArchive
  Torn = Torn
  NoCall = NoCall
PROPERTY OnlyWriteFileMutates
CHECK_DEADLOCK FALSE
