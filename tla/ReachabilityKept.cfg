CONSTANTS
    Range = {1, 2}
    Outside = {1, 2}
    Pinned = 0
    Explicit = 0
    Asks = TRUE
    Window = 1
    MaxDay = 4
    MaxStops = 1
SPECIFICATION Spec
INVARIANTS
    TypeOK
    EvidenceKept
    AnnouncedIsOurs
CHECK_DEADLOCK FALSE
