SPECIFICATION FairSpec
CONSTANTS
    Instruments = {"i1", "i2", "i3"}
    Clients = {"c1"}
    MaxInstruments = 2
    MaxRows = 3
    MaxWire = 2
    MaxBuffered = 1
INVARIANTS
    SubscriberNeverFails
PROPERTIES
    ImplementsFeed
    CatchesUp
    CloseEnds
CHECK_DEADLOCK FALSE
