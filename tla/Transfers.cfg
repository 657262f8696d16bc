SPECIFICATION Spec
CONSTANTS
    None = None
    CANDIDATE_LIMIT = 2
    NameOrder <- NamesInOrder
    Stem <- TheStems
    Folder <- TheFolders
    MAX_DEPTH = 2
    Files0 <- TheFiles0
    CAP = 2
    CACHE_TTL = 0
    Cursors <- TheCursors
    MAX_CHANGES = 1
    Argv <- TheArgv
    Local0 <- TheLocal0
    Hidden <- TheHidden
    Star <- star
    RENAME_TRIES = 1
    MAX_JOBS = 1
    MayFail = TRUE
INVARIANTS
    FreshEnough
    ExitIsHonest
    EachHasItsCopy
    OwnUploadsShown
CHECK_DEADLOCK FALSE
