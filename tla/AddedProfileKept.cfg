SPECIFICATION Spec
CONSTANTS
    Alias = {a1, a2}
    Transfer = {t1}
    Unlocker = {}
    Tui = {u1}
    Wiper = {}
    MAX_TOKEN = 2
    MayFail = FALSE
    MAX_EDITS = 1
    None = None
INVARIANT
    AddedProfileKept
CHECK_DEADLOCK FALSE
