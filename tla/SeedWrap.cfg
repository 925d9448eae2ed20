CONSTANTS
    Held = 2
    Fresh = 1
    Window = 2
    Dialers = {}
    Cycle <- LeastCycle
SPECIFICATION FairSpec
PROPERTIES
    TurnsCome
    WindowIsServed
CHECK_DEADLOCK FALSE
