CONSTANTS
    Procs = {p, q}
    Addrs = {a1, a2}
    GoodPins = {pin}
    BadPins = {typo}
    Binds = {b0, b1}
    DefaultBind = b0
    None = None
    Missing = Missing
    Empty = Empty
    MaxStarts = 3
SYMMETRY Alike
SPECIFICATION Spec
INVARIANTS CliInv SavedIsWhatRuns OneIdentity
CHECK_DEADLOCK FALSE
