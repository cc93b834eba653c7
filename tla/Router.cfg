CONSTANTS
    Nodes = {a, b, c}
    self = a
    Screens <- MCScreens
    Half = 8
    Deltas <- MCDeltas
    Mods = {shift}
    OtherKeys = {k}
    MaxConnects = 2
    MaxKeys = 2
    Unknown = Unknown
SPECIFICATION Spec
INVARIANTS RouterInv ReceiverKnowsModifiers EveryLinkHasAWayBack
PROPERTY CrossesOffTheScreen
CHECK_DEADLOCK FALSE
