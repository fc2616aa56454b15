CONSTANTS
  Configs <- MCConfigs
  Primary <- MCPrimary
  Secondary <- MCSecondary
  QueueLimit = 2
  MaxPointers = 3
SPECIFICATION InputSpec
INVARIANTS
  StreamConsistent
  NothingStuck
  ServerAccepts
  TypedOnce
CHECK_DEADLOCK FALSE
