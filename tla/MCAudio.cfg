SPECIFICATION FairSpec
CONSTANTS
  Capacity = 5
  Target = 2
  MaxInitial = 3
  MaxPlayed = 4
  Frames = {1,3,6}
  Pulls = {2,3}
  Serials = 6
INVARIANTS
  NoDataRace
  LatencyBounded
PROPERTIES
  PlaybackStarts
  ImplementsFifo
