CONSTANTS
    s1 = s1
    s2 = s2
    Spokes = {s1, s2}
    Setups <- MCSetups
    Keys <- MCKeys
    Buttons = {2, 4}
    NoKeycode <- MCNoKeycode
    HeldAtStart <- MCHeldAtStart
    Flaky = {s1}
    MaxEvents = 4
SPECIFICATION Spec
INVARIANTS TypeOK SpokesInStep MaskIsWhatTheSpokeHolds KeyTablesAgree
CHECK_DEADLOCK FALSE
