SPECIFICATION FairSpec
CONSTANTS
    Agent = {new1, new2, old1}
    OldBuild = {old1}
    Client = {c1, c2}
    Letters = {"z", "q", "w", "s"}
    MayCrash = TRUE
    MaySlow = TRUE
    Nothing = Nothing
INVARIANTS
    NoStaleSocket
    UnlocksOwnBuild
PROPERTIES
    ComesToRest
CHECK_DEADLOCK FALSE
