CONSTANTS
    h1 = h1
    s1 = s1
    s2 = s2
    Spokes = {s1, s2}
    Hubs = {h1}
    Desktops = {s2}
    Addresses <- MCTwoAddresses
    MaxStarts = 3
    MaxLinks = 2
    MaxFaults = 0
SPECIFICATION FairSpec
PROPERTIES SpokeRedials
CHECK_DEADLOCK FALSE
