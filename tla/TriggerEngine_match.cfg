CONSTANTS
  Segments <- AllSegments
  Configs <- ConfigsMatch
  Modes <- AllModes
  SilentActions = {}
  Outside <- AllOutside
  Timeout = 1
  MaxInvocations = 2
  MaxOutside = 2
  MaxReloads = 0
  NoAwait = NoAwait

SPECIFICATION Spec
INVARIANTS ArmedBeforeReply UntrustedNeverFires CorrelatesAlone
CHECK_DEADLOCK FALSE
