SPECIFICATION Spec
CONSTANTS
  h = h
  a = a
  b = b
  Hub = h
  Spokes <- TwoSpokes
  Desktop <- AllDesktops
  MaxCopies = 1
  MaxTexts = 2
  MaxVersion = 4
  HistoryLimit = 2
  Flaky = {h}
  Recopiers = {b}
INVARIANTS
  TypeOK
  HistoryInOrder
  PerOriginOrder
  SnapshotsUnique
  OneCopyEchoBounded
  HubsTextWins
  OneCopyReachesAll
  SpokeShowsNewest
PROPERTIES
  ImplementsGossip
CHECK_DEADLOCK FALSE
