CONSTANTS
  Configs <- MCConfigs
  Settings = {"touches", "awake"}
SPECIFICATION Spec
CHECK_DEADLOCK FALSE
INVARIANTS  OneAudioHeader
 
