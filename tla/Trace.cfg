SPECIFICATION FairSpec
CONSTANTS
  Setups <- MCSetups
  Vals = {0, 1}
  MEMBLOCKLEN = 2
  RISU_MAGIC = 9
INVARIANTS
  FailureIsGenuine
PROPERTIES
  ImplementsReplay
  PlaybackEnds
