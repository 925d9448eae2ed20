CONSTANTS
    Held = 1
    Fresh = 1
    Window = 1
    Dialers = {d1}
    Cycle <- LeastCycle
SPECIFICATION FairSpec
INVARIANTS
    TypeOK
    PausedIsWakeable
    ServesWithFiles
PROPERTIES
    QuietFallsSilent
    IdleIsPausedAgain
    StillnessLasts
CHECK_DEADLOCK FALSE
