SPECIFICATION FairSpec
CONSTANTS
  Streams = {video, audio, control}
  AdbCommands = 2
  Ports = 2
  Attempts = 3
  KillAdb = TRUE
INVARIANTS
  NothingLeaks
  NoStrayKill
PROPERTIES
  StopTerminates
  DeathEndsAwait
CHECK_DEADLOCK FALSE
