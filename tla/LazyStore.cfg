SPECIFICATION Spec
CONSTANTS
  Payloads <- SixPayloads
  Size <- OwnSize
  Cap = 4
  InlineThreshold = 1
  ChunkSize = 2
INVARIANTS
  StoreInv
  ReplyReassembles
PROPERTIES
  EvictsOldestOnly
