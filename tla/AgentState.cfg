SPECIFICATION Spec
CONSTANTS
    Alias = {a1, a2}
    ProfileId = {i1, i2}
    Auth = {u1, u2}
    Kek = {k1}
    Ttl = {1}
    DEFAULT_TTL = 0
    IDLE_EXIT = 0
    CACHE_TTL = 0
    Prefix <- JustRoot
    Kind = {Both}
    None = None
INVARIANTS
    LockedHoldsNothing
    ActiveAliasResolves
    CachesFollowActive
    ContainerMirrorsSession
