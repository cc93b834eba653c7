SPECIFICATION FairSpec
CONSTANTS
  hub = hub
  spoke = spoke
  HubEnd = hub
  SpokeEnd = spoke
  MaxFrames = 1
  Capacity = 2
  Oversize <- NoFrames
  Requests <- NoFrames
  LinkMayFail = FALSE
PROPERTIES
  QueuedFrameIsSent
CHECK_DEADLOCK FALSE
