SPECIFICATION Spec
CONSTANTS
    None = None
    a = a
    b = b
    ghost = ghost
    pass = pass
    wrong = wrong
    s1 = s1
    s2 = s2
    Bad = Bad
    KnownTags <- TheTags
    Carrier = "unknown"
    Policy <- ThePolicy
    MaxMemory = 3
    MaxIterations = 3
    MaxParallelism = 2
    Commands <- TheCommands
    PassFiles <- ThePassFiles
    Passphrases = {pass, wrong}
    Salts = {s1, s2}
    Tokens = {"t2"}
    Containers <- TheContainers
    Accounts <- TheAccounts
    MAX_EVENTS = 3
INVARIANTS
    ReportedHolds
PROPERTIES
    HandedKeyOpens
    RewriteKeepsEntries
    SameAgain
    ScriptsEnd
CHECK_DEADLOCK FALSE
