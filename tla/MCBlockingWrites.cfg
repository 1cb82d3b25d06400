SPECIFICATION FairSpec
CONSTANTS
    s1 = s1
    s2 = s2
    s3 = s3
    c1 = c1
    c2 = c2
    Servers = {s1, s2, s3}
    Clients = {c1, c2}
    Home <- ChainHome
    Links <- Chain
    Room = 1
    IovMax = 2
    Nobody = Nobody
    MaxMessages = 4
INVARIANTS
    EmbraceNeedsBacklog
    
PROPERTIES
    HangsOnlyInPairs
CHECK_DEADLOCK FALSE
