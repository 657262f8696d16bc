SPECIFICATION Spec
CONSTANTS
    Alias = {a1, a2}
    Transfer = {t1, t2}
    Unlocker = {z1}
    Tui = {u1}
    Wiper = {w1}
    MAX_TOKEN = 2
    MayFail = TRUE
    MAX_EDITS = 1
    None = None
INVARIANTS
    SyncedWhenTold
PROPERTIES
    TokenPushIsFresh
CHECK_DEADLOCK FALSE
