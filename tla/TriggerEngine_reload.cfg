CONSTANTS
  Segments <- AllSegments
  Configs <- ConfigsReload
  Modes <- ActionModes
  SilentActions = {"note"}
  Outside <- TrustedOutside
  Timeout = 1
  MaxInvocations = 1
  MaxOutside = 1
  MaxReloads = 1
  NoAwait = NoAwait

SPECIFICATION FairSpec
INVARIANT NothingTwice
PROPERTIES AwaitsEnd QueuesDrain
CHECK_DEADLOCK FALSE
