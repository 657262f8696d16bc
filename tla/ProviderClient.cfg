SPECIFICATION Spec
CONSTANTS
    Client = {zz, completer}
    zz = zz
    completer = completer
    Kept = {completer}
    Call <- MCCall
    EXPIRY_SKEW = 2
    REFRESH_TIMEOUT = 1
    TRANSIT = 1
    LIFETIME = 3
    PAGE_SIZE = 1
    RootName = "zz"
    Names = {"d", "f"}
    MAX_CLOCK = 3
    MAX_CHANGES = 1
    MAX_CALLS = 2
    MAX_EVENTS = 3
    None = None
CHECK_DEADLOCK FALSE
INVARIANTS
    ListingIsHonest
    TakesTheOneNamed
    StaysAuthorised
    FreshOnArrival
