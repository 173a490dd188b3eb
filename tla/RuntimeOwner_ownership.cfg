SPECIFICATION FairOwnerSpec
CONSTANTS
    d1 = d1
    d2 = d2
    other = other
    None = None
    Daemons <- TwoDaemons
    Others <- OneOther
    TTL = 2
    MaxTime = 3
CHECK_DEADLOCK FALSE
INVARIANTS
    OwnerTypeOK
    OwnerUnlessMissed
    ServingIsDiscoverable
PROPERTIES
    LostStaysLost
    SupersededExits
