CONSTANTS
    Library <- Three
    Scope <- Two
    Size <- Equal
    MaxSize = 1
    Workers = {w1, w2}
    Drive = 5
    FreeFirst <- AllFree
    Reserve = 2
    Headroom = 1
    UsesSwarm = FALSE
    Events = {"freed", "quiet", "refresh", "restart"}
    MaxEvents = 3
SPECIFICATION Spec
INVARIANTS
    HeldNeverOvercounts
PROPERTIES
    OvershootIsBounded
SYMMETRY Interchangeable
