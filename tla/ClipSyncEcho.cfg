SPECIFICATION Spec
CONSTANTS
  h = h
  a = a
  b = b
  Hub = h
  Spokes <- OneSpoke
  Desktop <- BothDesktops
  MaxCopies = 1
  MaxTexts = 2
  MaxVersion = 8
  HistoryLimit = 1
  Flaky = {}
  Recopiers = {}
INVARIANTS
  EchoDiesOut
CHECK_DEADLOCK FALSE
