CONSTANTS
    Files = {"old", "film"}
    First = {"old"}
    Audio = {"old"}
    BySpeaker = {"film"}
    Scopes = {"picks", "audio"}
    MaxEdits = 1
SPECIFICATION FairSpec
INVARIANTS
    TypeOK
    NothingUnapproved
    PicksAreReadAtOnce
PROPERTIES
    WantedArrives
CHECK_DEADLOCK FALSE
