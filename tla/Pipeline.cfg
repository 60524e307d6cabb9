SPECIFICATION FairSpec
CONSTANTS
  Chain <- MCChain
  None = None
  Rewind = 1
  startBlockOverride = 0
  Settings <- MCSettings
CHECK_DEADLOCK FALSE

  
PROPERTIES
  StoredAsReported
  CatchesUp
  ReadySignalled
