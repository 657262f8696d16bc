SPECIFICATION FairSpec
CONSTANTS
    Uploader = {u1, u2}
    Chosen = {"rename", "overwrite", "fail"}
    Old = Old
    RENAME_MAX_TRIES = 1
    MAX_CLOCK = 1
    MayFail = TRUE
    None = None
INVARIANTS
    ReportedIsStored
PROPERTIES
    UploadsAreAtomic
    EveryUploadEnds
CHECK_DEADLOCK FALSE
