CONSTANTS
  Configs <- MCConfigs
  QueueLimit = 2
  SenderCapacity = 1
SPECIFICATION Spec
CHECK_DEADLOCK FALSE
INVARIANT PasteIsFresh
PROPERTIES EndReleasesAll ErrorsEndSession
