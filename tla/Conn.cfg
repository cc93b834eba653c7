SPECIFICATION FairSpec
CONSTANTS
  hub = hub
  spoke = spoke
  HubEnd = hub
  SpokeEnd = spoke
  MaxFrames = 2
  Capacity = 2
  Oversize <- HubSecond
  Requests <- First
  LinkMayFail = TRUE
INVARIANTS
  ConnInv
  FramesWhole
PROPERTIES
  ImplementsDuplex
  InboundFrameFreesWriter
  BrokenStreamEndsReader
CHECK_DEADLOCK FALSE
