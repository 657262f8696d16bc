------------------------------ MODULE AgentState ------------------------------
(***************************************************************************)
(* The secrets the agent keeps in RAM and every request that touches them. *)
(* One action is one request served by the single-threaded agent: the      *)
(* touch() of handle_connection and the whole arm of dispatch              *)
(* (src/agent/server.rs), down to the AgentState method it calls           *)
(* (src/agent/state.rs), the completion caches (list_cache.rs,             *)
(* remote_client.rs) and the write of the container file.  The reply is    *)
(* the last parameter of the action.                                       *)
(*                                                                         *)
(* Instants are modelled by their age.  An age is only ever compared with  *)
(* a limit, so it stops growing two ticks past that limit.                 *)
(***************************************************************************)
EXTENDS Naturals, Sequences

CONSTANTS
    Alias,       \* names of inner profiles
    ProfileId,   \* profile_id values
    Auth,        \* provider credentials and settings of a profile
    Kek,         \* key encryption keys (one per passphrase, salt and policy)
    Ttl,         \* values the ttl_secs of an Unlock may take
    DEFAULT_TTL, \* session TTL the agent starts with
    IDLE_EXIT,   \* idle limit of a locked agent
    CACHE_TTL,   \* age limit of a cached listing
    Prefix,      \* remote folders that may be listed, as sequences of segments
    Kind,        \* EntryKindFilter
    None         \* Option::None

Profile == [id : ProfileId, auth : Auth]

\* A container: aliases and profile ids are both unique in it.
ProfileSet ==
    {s \in UNION {[A -> Profile] : A \in (SUBSET Alias) \ {{}}} :
        \A a, b \in DOMAIN s : s[a].id = s[b].id => a = b}

Container == [kek : Kek, set : ProfileSet]
Key       == [prefix : Prefix, kind : Kind]
Owner     == [alias : Alias, profile : Profile]

ASSUME LimitsAssumption ==
    /\ Ttl \subseteq Nat
    /\ DEFAULT_TTL \in Nat
    /\ IDLE_EXIT \in Nat
    /\ CACHE_TTL \in Nat

ASSUME NoneAssumption ==
    /\ None \notin Alias
    /\ None \notin Kek
    /\ None \notin Nat
    /\ None \notin ProfileSet
    /\ None \notin Container
    /\ None \notin Profile
    /\ None \notin [owner : Owner, carried : BOOLEAN]
    /\ None \notin [owner : Owner, carried : BOOLEAN, age : Nat]

VARIABLES
    profile_set,  \* Inner.profile_set, or None when locked
    kek,          \* Inner.kek
    active_alias, \* Inner.active_alias
    session_age,  \* age of Inner.unlocked_at
    ttl,          \* Inner.ttl
    idle_age,     \* age of Inner.last_activity
    list_cache,   \* per key: whose listing, its age, cached before the last Unlock?
    warm_client,  \* the provider client kept by RemoteClientCache
    container,    \* the encrypted file, as (key, contents)
    foreign,      \* history: another process wrote the file during this session
    unsaved       \* history: the last write of the file failed

secrets == <<profile_set, kek, active_alias, ttl>>
caches  == <<list_cache, warm_client>>
disk    == <<container, foreign, unsaved>>
vars    == <<secrets, session_age, idle_age, caches, disk>>

CachedListing == [owner : Owner, carried : BOOLEAN, age : Nat]
WarmClient    == [owner : Owner, carried : BOOLEAN]

TypeOK ==
    /\ profile_set \in ProfileSet \union {None}
    /\ kek \in Kek \union {None}
    /\ active_alias \in Alias \union {None}
    /\ session_age \in Nat \union {None}
    /\ ttl \in Nat
    /\ idle_age \in Nat
    /\ list_cache \in [Key -> CachedListing \union {None}]
    /\ warm_client \in WarmClient \union {None}
    /\ container \in Container \union {None}
    /\ foreign \in BOOLEAN
    /\ unsaved \in BOOLEAN

-------------------------------------------------------------------------------
is_unlocked == profile_set # None

\* get_active_profile_renewing_ttl finds a profile only when both are set.
HasActive ==
    /\ is_unlocked
    /\ active_alias # None
    /\ active_alias \in DOMAIN profile_set

Active == [alias |-> active_alias, profile |-> profile_set[active_alias]]

EmptyCache == [k \in Key |-> None]

\* fault: the provider client outlives the switch of credentials
drop_list_cache_only ==
    /\ list_cache' = EmptyCache
    /\ UNCHANGED warm_client

drop_completion_caches ==
    /\ list_cache' = EmptyCache
    /\ warm_client' = None

walk_to_root(p) == {SubSeq(p, 1, n) : n \in 0 .. Len(p)}

touch == idle_age' = 0

RenewedAge == IF session_age = None THEN None ELSE 0

\* Saturating age: two ticks past the limit nothing more can be told apart.
Older(age, limit) == IF age > limit + 1 THEN age ELSE age + 1

-------------------------------------------------------------------------------
Init ==
    /\ profile_set = None
    /\ kek = None
    /\ active_alias = None
    /\ session_age = None
    /\ ttl = DEFAULT_TTL
    /\ idle_age = 0
    /\ list_cache = EmptyCache
    /\ warm_client = None
    /\ container \in Container \union {None}
    /\ foreign = FALSE
    /\ unsaved = FALSE

\* fault: an Unlock without a TTL clears the TTL
TtlAsSent(t) == t

TtlAfter(t) == IF t = None THEN ttl ELSE t

\* AgentRequest::Unlock.  The caches are not dropped: what an earlier session
\* left in them is carried into the new one.
Unlock(s, k, a, t, reply) ==
    /\ touch
    /\ \/ /\ a \notin DOMAIN s
          /\ reply = "AliasNotFound"
          /\ UNCHANGED <<secrets, session_age, caches, disk>>
       \/ /\ a \in DOMAIN s
          /\ reply = "Unlocked"
          /\ profile_set' = s
          /\ kek' = k
          /\ active_alias' = a
          /\ ttl' = TtlAfter(t)
          /\ session_age' = 0
          /\ list_cache' = [x \in Key |->
                IF list_cache[x] = None THEN None
                ELSE [list_cache[x] EXCEPT !.carried = TRUE]]
          /\ warm_client' = IF warm_client = None THEN None
                            ELSE [warm_client EXCEPT !.carried = TRUE]
          /\ foreign' = (container # [kek |-> k, set |-> s])
          /\ unsaved' = FALSE
          /\ UNCHANGED container

\* fault: the active alias survives the lock
ForgetAllButAlias ==
    /\ profile_set' = None
    /\ kek' = None
    /\ session_age' = None
    /\ foreign' = FALSE
    /\ unsaved' = FALSE
    /\ UNCHANGED <<active_alias, ttl, container>>

\* fault: the start of the session survives the lock
ForgetAllButAge ==
    /\ profile_set' = None
    /\ kek' = None
    /\ active_alias' = None
    /\ foreign' = FALSE
    /\ unsaved' = FALSE
    /\ UNCHANGED <<session_age, ttl, container>>

ForgetSecrets ==
    /\ profile_set' = None
    /\ kek' = None
    /\ active_alias' = None
    /\ session_age' = None
    /\ foreign' = FALSE
    /\ unsaved' = FALSE
    /\ UNCHANGED <<ttl, container>>

Lock(reply) ==
    /\ touch
    /\ reply = "Locked"
    /\ ForgetSecrets
    /\ drop_completion_caches

GetProfile(reply) ==
    /\ touch
    /\ reply = IF HasActive THEN "Profile" ELSE "NotUnlocked"
    /\ session_age' = RenewedAge
    /\ UNCHANGED <<secrets, caches, disk>>

SetActiveAlias(a, reply) ==
    /\ touch
    /\ \/ /\ ~is_unlocked
          /\ reply = "NotUnlocked"
          /\ UNCHANGED <<secrets, caches>>
       \/ /\ is_unlocked
          /\ a \notin DOMAIN profile_set
          /\ reply = "AliasNotFound"
          /\ UNCHANGED <<secrets, caches>>
       \/ /\ is_unlocked
          /\ a \in DOMAIN profile_set
          /\ reply = "Updated"
          /\ active_alias' = a
          /\ drop_completion_caches
          /\ UNCHANGED <<profile_set, kek, ttl>>
    /\ UNCHANGED <<session_age, disk>>

\* fault: the set as it was before the update is written
persist_old(s, reply) ==
    /\ reply \in IF kek = None THEN {"NotUnlocked"} ELSE {"Updated", "Io"}
    /\ container' = IF reply = "Updated" THEN [kek |-> kek, set |-> profile_set] ELSE container
    /\ foreign' = (reply # "Updated" /\ foreign)
    /\ unsaved' = (reply # "Updated")

\* Encrypt, write the temporary file, rename it.  Any step may fail, and then
\* the file is left as it was while RAM already holds s.
persist(s, reply) ==
    /\ reply \in IF kek = None THEN {"NotUnlocked"} ELSE {"Updated", "Io"}
    /\ container' = IF reply = "Updated" THEN [kek |-> kek, set |-> s] ELSE container
    /\ foreign' = (reply # "Updated" /\ foreign)
    /\ unsaved' = (reply # "Updated")

UpdateProfile(a, p, reply) ==
    /\ touch
    /\ \/ /\ ~is_unlocked
          /\ reply = "NotUnlocked"
          /\ UNCHANGED <<profile_set, caches, disk>>
       \/ /\ is_unlocked
          /\ a \notin DOMAIN profile_set
          /\ reply = "AliasNotFound"
          /\ UNCHANGED <<profile_set, caches, disk>>
       \/ /\ is_unlocked
          /\ a \in DOMAIN profile_set
          /\ profile_set' = [profile_set EXCEPT ![a] = p]
          /\ IF active_alias = a THEN drop_completion_caches ELSE UNCHANGED caches
          /\ persist(profile_set', reply)
    /\ UNCHANGED <<kek, active_alias, ttl, session_age>>

\* fault: the active alias is kept whatever the new set holds
AliasAsBefore(s) == active_alias

AliasKept(s) == IF active_alias \in DOMAIN s THEN active_alias ELSE None

UpdateProfileSet(s, reply) ==
    /\ touch
    /\ \/ /\ ~is_unlocked
          /\ reply = "NotUnlocked"
          /\ UNCHANGED <<profile_set, active_alias, caches, disk>>
       \/ /\ is_unlocked
          /\ profile_set' = s
          /\ active_alias' = AliasKept(s)
          /\ drop_completion_caches
          /\ persist(s, reply)
    /\ UNCHANGED <<kek, ttl, session_age>>

\* ListCache::get finds an entry only up to its TTL and drops an older one.
CacheHit(k) == list_cache[k] # None /\ list_cache[k].age <= CACHE_TTL

\* with_client keeps the warm client as long as the profile id is the same.
ClientFor(owner) ==
    IF warm_client # None /\ warm_client.owner.profile.id = owner.profile.id
    THEN warm_client
    ELSE [owner |-> owner, carried |-> FALSE]

\* A hit is served before any look at the session: it renews no TTL.  A miss
\* asks the provider, and a provider error is returned without being cached.
ListRemote(k, reply) ==
    /\ touch
    /\ \/ /\ CacheHit(k)
          /\ reply = "RemoteList"
          /\ UNCHANGED <<session_age, caches>>
       \/ /\ ~CacheHit(k)
          /\ ~HasActive
          /\ reply = "NotUnlocked"
          /\ session_age' = RenewedAge
          /\ list_cache' = [list_cache EXCEPT ![k] = None]
          /\ UNCHANGED warm_client
       \/ /\ ~CacheHit(k)
          /\ HasActive
          /\ session_age' = RenewedAge
          /\ \/ \* build_remote failed: the slot keeps what it had
                /\ reply = "Io"
                /\ ClientFor(Active) # warm_client
                /\ list_cache' = [list_cache EXCEPT ![k] = None]
                /\ UNCHANGED warm_client
             \/ \* RemoteFs::list failed
                /\ reply = "Io"
                /\ warm_client' = ClientFor(Active)
                /\ list_cache' = [list_cache EXCEPT ![k] = None]
             \/ /\ reply = "RemoteList"
                /\ warm_client' = ClientFor(Active)
                /\ list_cache' = [list_cache EXCEPT ![k] =
                        [owner |-> ClientFor(Active).owner,
                         carried |-> ClientFor(Active).carried,
                         age |-> 0]]
    /\ UNCHANGED <<secrets, disk>>

InvalidateRemote(p, reply) ==
    /\ touch
    /\ reply = "Updated"
    /\ list_cache' = [k \in Key |->
            IF k.prefix \in walk_to_root(p) THEN None ELSE list_cache[k]]
    /\ UNCHANGED <<secrets, session_age, warm_client, disk>>

\* fault: asking for the status renews the session
EnquireRenewing(reply) ==
    /\ touch
    /\ reply \in {"Pong", "Status", "Exited"}
    /\ session_age' = RenewedAge
    /\ UNCHANGED <<secrets, caches, disk>>

\* Ping, Status and Exit read the state at most; the flag that ends the
\* process is raised after the reply to Exit has been written (AgentServer).
Enquire(reply) ==
    /\ touch
    /\ reply \in {"Pong", "Status", "Exited"}
    /\ UNCHANGED <<secrets, session_age, caches, disk>>

-------------------------------------------------------------------------------
\* check_ttl_and_lock, called by the accept loop only.
check_ttl_and_lock ==
    /\ session_age # None
    /\ session_age > ttl
    /\ ForgetSecrets
    /\ drop_completion_caches
    /\ UNCHANGED idle_age

Tick ==
    /\ session_age' = IF session_age = None THEN None ELSE Older(session_age, ttl)
    /\ idle_age' = Older(idle_age, IDLE_EXIT)
    /\ list_cache' = [k \in Key |->
            IF list_cache[k] = None THEN None
            ELSE [list_cache[k] EXCEPT !.age = Older(@, CACHE_TTL)]]
    /\ UNCHANGED <<secrets, warm_client, disk>>

\* The CLI rotating a key, the TUI adding or deleting a profile, setup or wipe:
\* other processes replace or remove the file at any time.
OtherProcessWritesContainer ==
    /\ container' \in Container \union {None}
    /\ container' # container
    /\ foreign' = is_unlocked
    /\ UNCHANGED <<secrets, session_age, idle_age, caches, unsaved>>

Next ==
    \/ \E s \in ProfileSet, k \in Kek, a \in Alias, t \in Ttl \union {None} :
            Unlock(s, k, a, t, "Unlocked") \/ Unlock(s, k, a, t, "AliasNotFound")
    \/ Lock("Locked")
    \/ \E r \in {"Profile", "NotUnlocked"} : GetProfile(r)
    \/ \E a \in Alias, r \in {"Updated", "NotUnlocked", "AliasNotFound"} :
            SetActiveAlias(a, r)
    \/ \E a \in Alias, p \in Profile, r \in {"Updated", "Io", "NotUnlocked", "AliasNotFound"} :
            /\ UpdateProfile(a, p, r)
            /\ is_unlocked => profile_set' \in ProfileSet
    \/ \E s \in ProfileSet, r \in {"Updated", "Io", "NotUnlocked"} :
            UpdateProfileSet(s, r)
    \/ \E k \in Key, r \in {"RemoteList", "Io", "NotUnlocked"} : ListRemote(k, r)
    \/ \E p \in Prefix : InvalidateRemote(p, "Updated")
    \/ \E r \in {"Pong", "Status", "Exited"} : Enquire(r)
    \/ check_ttl_and_lock
    \/ Tick
    \/ OtherProcessWritesContainer

Spec == Init /\ [][Next]_vars

-------------------------------------------------------------------------------
\* After Lock or an expiry nothing of the session is left in RAM: no profile,
\* no key, no alias, no cached listing and no provider client.  The cache-hit
\* path of list_remote relies on it, since it never looks at the session.
LockedHoldsNothing ==
    ~is_unlocked =>
        /\ kek = None
        /\ active_alias = None
        /\ session_age = None
        /\ list_cache = EmptyCache
        /\ warm_client = None

\* An unlocked agent can always re-encrypt and always expires: the key and the
\* start of the session are there exactly as long as the profiles are, so no
\* update is left in RAM because persist found no key.
UnlockedIsComplete == is_unlocked => kek # None /\ session_age # None

\* The active alias never dangles: however the profiles are replaced, it names
\* one of them or nothing.
ActiveAliasResolves ==
    active_alias # None => is_unlocked /\ active_alias \in DOMAIN profile_set

\* What was listed since the last Unlock was listed with the credentials of the
\* profile that is active now: every switch of profile or credentials drops both
\* caches, and a reused client is one for the same credentials.
CachesFollowActive ==
    /\ \A k \in Key : list_cache[k] # None /\ ~list_cache[k].carried =>
            HasActive /\ list_cache[k].owner = Active
    /\ warm_client # None /\ ~warm_client.carried =>
            HasActive /\ warm_client.owner = Active

\* Until another process writes the file or a write fails, what RAM holds can be
\* read back from disk with the key the agent holds.
ContainerMirrorsSession ==
    is_unlocked /\ ~foreign /\ ~unsaved =>
        container = [kek |-> kek, set |-> profile_set]
===============================================================================
