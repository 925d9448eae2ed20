CONSTANTS
    NUrls = 1
    Versions <- TwoVersions
    SizeOf <- Sizes
    Hole = hole
    NoFile = nofile
    SlackOf <- LackOne
    Faults = {"crash", "powercut", "syncerror", "list", "mirror", "vanish"}
    MaxFaults = 2
SPECIFICATION AnsweredSpec
INVARIANTS
    TypeOK
PROPERTIES
    FetchReturns
CHECK_DEADLOCK FALSE
