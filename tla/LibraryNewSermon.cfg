CONSTANTS
    Files = {"old", "film"}
    First = {"old"}
    Audio = {"old"}
    BySpeaker = {"film"}
    Scopes = {"picks", "audio"}
    MaxEdits = 1
SPECIFICATION FairSpec
PROPERTIES
    NewSermonArrives
CHECK_DEADLOCK FALSE
