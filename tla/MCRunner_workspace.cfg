SPECIFICATION FairSpec
CONSTANTS
  Everything = Everything
  NoPhase = NoPhase
  Urls = {url1, url2}
  Hashes = {hash1}
  NoHash = NoHash
  Files = {model_py}
  Texts = {old, new}
  Tasks = {task1}
  Labels = {label1}
  Contexts <- MCContexts
  MaxCalls = 3
  Absent = Absent
  Partial = Partial
  NoEntry = NoEntry
  NoSnap = NoSnap
  NoArchive = NoArchive
  Torn = Torn
  NoCall = NoCall
INVARIANTS TypeOK TracedByItsWriter  OneEntryPerSource 
PROPERTIES LostOnlyToMatch  CallEnds
CHECK_DEADLOCK FALSE
