CONSTANTS
    NUrls = 2
    Versions <- OneVersion
    SizeOf <- ThreeBlocks
    Hole = hole
    NoFile = nofile
    SlackOf <- LackOne
    Faults = {"crash", "powercut", "torn"}
    MaxFaults = 2
SPECIFICATION Spec
INVARIANTS
    HeldIsWhole
PROPERTIES
    HttpFilesSurvive
    KeepsItsPromise
    GivesUpAfterAskingAll
CHECK_DEADLOCK FALSE
