SPECIFICATION FairSpec
CONSTANTS
  a = a
  b = b
  Spokes <- TwoSpokes
  MaxSessions = 2
  MaxLocal = 1
  MaxClips = 1
  MaxFetches = 1
  Chunks = 2
INVARIANTS
  HubInv
  RegisteredGetsAll
  RepliesInOrder
PROPERTIES
  NoWriterLeak
  ImplementsFanOut
CHECK_DEADLOCK FALSE
