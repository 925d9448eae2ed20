CONSTANTS
    Library <- Two
    Scope <- Two
    Size <- Growing
    MaxSize = 2
    Workers = {w1, w2}
    Drive = 5
    FreeFirst <- AllFree
    Reserve = 1
    Headroom = 1
    UsesSwarm = TRUE
    Events = {"quiet", "refresh", "taken", "freed", "removed", "verify", "restart"}
    MaxEvents = 2
SPECIFICATION FairSpec
INVARIANTS
    TypeOK
    OneFetcherPerFile
    UnsharedIsLastInHand
PROPERTIES
    EverythingArrives
