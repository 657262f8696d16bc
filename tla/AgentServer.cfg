SPECIFICATION FairServerSpec
CONSTANTS
    Alias = {a1}
    ProfileId = {i1}
    Auth = {u1}
    Kek = {k1}
    Ttl = {}
    DEFAULT_TTL = 1
    IDLE_EXIT = 0
    CACHE_TTL = 0
    Prefix <- JustRoot
    Kind = {"Both"}
    None = None
    Client = {c1, c2}
    Sent <- AllOps
INVARIANTS
    AnsweredExitIsFinal
    FetchedIsHeld
PROPERTIES
    PollingDoesNotRenew
    ConnectedIsServed
    ExpiredSessionEnds
    AgentExits
CHECK_DEADLOCK FALSE
