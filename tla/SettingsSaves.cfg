CONSTANTS
    DayMinutes = 4
    DayHours <- Hours
    Kilo = 4
    U32 = 15
    AutoPeers = 8
    AutoWindow = 2000
    Folders = {"disk"}
    HoldsFiles = TRUE
    Commands = {c1}
    Inputs <- Racing
    Typable <- Typing
    Envs <- Environments
    MaxSessions = 3
    Faults = {"crash", "full", "powercut"}
    MaxFaults = 1
SPECIFICATION Spec
INVARIANTS
    TypeOK
    WholeUnlessRaced
    IdentityKept
    AcceptedIsReadBack
    ChoiceIsShown
    QuietAsWritten
PROPERTIES
    EditsApplyInTurn
CHECK_DEADLOCK FALSE
