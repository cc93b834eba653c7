CONSTANTS
    h1 = h1
    s1 = s1
    s2 = s2
    Spokes = {s1, s2}
    Hubs = {h1}
    Desktops = {s2}
    Addresses <- MCOneAddress
    MaxStarts = 3
    MaxLinks = 2
    MaxFaults = 1
SPECIFICATION FairSpec
INVARIANTS TypeOK PairedIsRecognised IdentityIsStable PinOutlivesRestarts
PROPERTIES PinnedLearnsItsPinOnly DialIsAnswered HeadlessSpokeRedials
CHECK_DEADLOCK FALSE
