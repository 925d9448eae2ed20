CONSTANTS
    t1 = t1
    t2 = t2
    Torrents = {t1, t2}
    Windows <- TwoWindows
    MaxRows = 1
    Modes = {"hybrid"}
    NewModes = {"orbit"}
    MaxLate = 1
SPECIFICATION FairSpec
INVARIANTS
    TypeOK
PROPERTIES
    GrantFollows
    RowsFollow
    SourceFollows
    TestIsAnswered
CHECK_DEADLOCK FALSE
