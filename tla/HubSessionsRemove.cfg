SPECIFICATION Spec
CONSTANTS
  a = a
  b = b
  Spokes <- OneSpoke
  MaxSessions = 2
  MaxLocal = 1
  MaxClips = 0
  MaxFetches = 0
  Chunks = 1
PROPERTIES
  RemovesOwnEntryOnly
CHECK_DEADLOCK FALSE
