----------------------------- MODULE Agent_proofs -----------------------------
(***************************************************************************)
(* What holds of the agent for every set of profiles, keys, folders,       *)
(* clients and requests: first of its state (AgentState), then of the      *)
(* process around it (AgentServer).                                        *)
(*                                                                         *)
(* IInv is TypeOK and the five safety invariants of AgentState together:   *)
(* none of them is inductive alone (the caches follow the active profile   *)
(* only because the alias resolves and a locked agent holds nothing),      *)
(* their conjunction is.  Every step of the server is a step of AgentState *)
(* or leaves its state alone, so that the server implements AgentState's   *)
(* specification and every theorem about it holds of the server.  On top   *)
(* of that come the order of answering and ending.                         *)
(***************************************************************************)
EXTENDS AgentServer, TLAPS

Safe ==
    /\ LockedHoldsNothing
    /\ UnlockedIsComplete
    /\ ActiveAliasResolves
    /\ CachesFollowActive
    /\ ContainerMirrorsSession

IInv == TypeOK /\ Safe

-------------------------------------------------------------------------------
\* An alias found in a container is a proper alias with a proper profile.
LEMMA ProfileSetMember ==
    ASSUME NEW s \in ProfileSet, NEW a \in DOMAIN s
    PROVE  a \in Alias /\ s[a] \in Profile
BY DEF ProfileSet

\* The active profile, when there is one, is a proper owner of a listing.
LEMMA ActiveIsOwner ==
    ASSUME TypeOK, HasActive
    PROVE  Active \in Owner
<1>1. profile_set \in ProfileSet
    BY DEF TypeOK, HasActive, is_unlocked
<1>2. active_alias \in Alias /\ profile_set[active_alias] \in Profile
    BY <1>1, ProfileSetMember DEF HasActive
<1>3. QED
    BY <1>2 DEF Active, Owner

\* Clearing both caches leaves them well typed.
LEMMA EmptyCacheType == EmptyCache \in [Key -> CachedListing \union {None}]
BY DEF EmptyCache

\* None is never mistaken for a profile set, a key, an alias or an age.
LEMMA NoneIsNothing ==
    /\ None \notin Alias /\ None \notin Kek /\ None \notin Nat
    /\ None \notin ProfileSet /\ None \notin CachedListing /\ None \notin WarmClient
BY NoneAssumption DEF CachedListing, WarmClient

\* Ages stay natural numbers.
LEMMA OlderType ==
    ASSUME NEW age \in Nat, NEW limit \in Nat
    PROVE  Older(age, limit) \in Nat
BY DEF Older

-------------------------------------------------------------------------------
LEMMA InitInv == Init => IInv
<1> SUFFICES ASSUME Init PROVE IInv
    OBVIOUS
<1>1. TypeOK
    BY EmptyCacheType, LimitsAssumption DEF Init, TypeOK
<1>2. Safe
    BY DEF Init, Safe, LockedHoldsNothing, UnlockedIsComplete, ActiveAliasResolves,
           CachesFollowActive, ContainerMirrorsSession, is_unlocked, EmptyCache
<1>3. QED
    BY <1>1, <1>2 DEF IInv

\* Forgetting the secrets together with both caches re-establishes everything.
LEMMA ForgetInv ==
    ASSUME TypeOK, ForgetSecrets, drop_completion_caches, idle_age' \in Nat
    PROVE  IInv'
<1>1. TypeOK'
    BY EmptyCacheType DEF TypeOK, ForgetSecrets, drop_completion_caches
<1>2. Safe'
    BY DEF Safe, ForgetSecrets, drop_completion_caches, LockedHoldsNothing,
           UnlockedIsComplete, ActiveAliasResolves, CachesFollowActive,
           ContainerMirrorsSession, is_unlocked, EmptyCache
<1>3. QED
    BY <1>1, <1>2 DEF IInv

LEMMA UnlockInv ==
    ASSUME IInv, NEW s \in ProfileSet, NEW k \in Kek, NEW a \in Alias,
           NEW t \in Ttl \union {None}, NEW r, Unlock(s, k, a, t, r)
    PROVE  IInv'
<1>1. CASE UNCHANGED <<secrets, session_age, caches, disk>>
    BY <1>1 DEF IInv, Safe, TypeOK, Unlock, TtlAfter, touch, secrets, caches, disk,
        LockedHoldsNothing, UnlockedIsComplete, ActiveAliasResolves,
        CachesFollowActive, ContainerMirrorsSession, is_unlocked, HasActive, Active
<1>2. CASE ~ UNCHANGED <<secrets, session_age, caches, disk>>
    <2>1. /\ profile_set' = s /\ kek' = k /\ active_alias' = a /\ a \in DOMAIN s
          /\ ttl' = IF t = None THEN ttl ELSE t
          /\ session_age' = 0 /\ idle_age' = 0
          /\ unsaved' = FALSE /\ container' = container
          /\ foreign' = (container # [kek |-> k, set |-> s])
          /\ list_cache' = [x \in Key |->
                IF list_cache[x] = None THEN None
                ELSE [list_cache[x] EXCEPT !.carried = TRUE]]
          /\ warm_client' = IF warm_client = None THEN None
                            ELSE [warm_client EXCEPT !.carried = TRUE]
        BY <1>2 DEF Unlock, TtlAfter, touch
    <2>2. list_cache' \in [Key -> CachedListing \union {None}]
        BY <2>1 DEF IInv, TypeOK, CachedListing
    <2>3. warm_client' \in WarmClient \union {None}
        BY <2>1 DEF IInv, TypeOK, WarmClient
    <2>4. ttl' \in Nat
        BY <2>1, LimitsAssumption DEF IInv, TypeOK
    <2>5. TypeOK'
        BY <2>1, <2>2, <2>3, <2>4 DEF IInv, TypeOK
    <2>6. CachesFollowActive'
        <3>1. ASSUME NEW x \in Key, list_cache'[x] # None
              PROVE  list_cache'[x].carried
            BY <2>1, <3>1 DEF IInv, TypeOK, CachedListing
        <3>2. warm_client' # None => warm_client'.carried
            BY <2>1 DEF IInv, TypeOK, WarmClient
        <3>3. QED
            BY <3>1, <3>2 DEF CachesFollowActive
    <2>7. LockedHoldsNothing' /\ UnlockedIsComplete' /\ ActiveAliasResolves'
        BY <2>1, NoneIsNothing
        DEF LockedHoldsNothing, UnlockedIsComplete, ActiveAliasResolves, is_unlocked
    <2>8. ContainerMirrorsSession'
        BY <2>1, Zenon DEF ContainerMirrorsSession
    <2>9. QED
        BY <2>5, <2>6, <2>7, <2>8 DEF IInv, Safe
<1>3. QED
    BY <1>1, <1>2

\* Requests that change ages only.
LEMMA AgesOnlyInv ==
    ASSUME IInv, UNCHANGED <<secrets, caches, disk>>,
           session_age' \in Nat \union {None}, idle_age' \in Nat,
           session_age' = None <=> session_age = None
    PROVE  IInv'
BY DEF IInv, Safe, TypeOK, secrets, caches, disk, LockedHoldsNothing,
       UnlockedIsComplete, ActiveAliasResolves, CachesFollowActive,
       ContainerMirrorsSession, is_unlocked, HasActive, Active

LEMMA LockInv ==
    ASSUME IInv, NEW r, Lock(r)
    PROVE  IInv'
BY ForgetInv DEF IInv, Lock, touch

LEMMA GetProfileInv ==
    ASSUME IInv, NEW r, GetProfile(r)
    PROVE  IInv'
<1>1. /\ session_age' \in Nat \union {None} /\ idle_age' \in Nat
      /\ session_age' = None <=> session_age = None
    BY NoneIsNothing DEF GetProfile, touch, RenewedAge
<1>2. QED
    BY <1>1, AgesOnlyInv DEF GetProfile

LEMMA EnquireInv ==
    ASSUME IInv, NEW r, Enquire(r)
    PROVE  IInv'
<1>1. /\ session_age' \in Nat \union {None} /\ idle_age' \in Nat
      /\ session_age' = None <=> session_age = None
    BY DEF Enquire, touch, IInv, TypeOK
<1>2. QED
    BY <1>1, AgesOnlyInv DEF Enquire

LEMMA SetActiveAliasInv ==
    ASSUME IInv, NEW a \in Alias, NEW r, SetActiveAlias(a, r)
    PROVE  IInv'
<1>1. CASE UNCHANGED <<secrets, caches>>
    <2>1. /\ session_age' \in Nat \union {None} /\ idle_age' \in Nat
          /\ session_age' = session_age
        BY DEF SetActiveAlias, touch, IInv, TypeOK
    <2>2. QED
        BY <1>1, <2>1, AgesOnlyInv DEF SetActiveAlias
<1>2. CASE ~ UNCHANGED <<secrets, caches>>
    <2>1. /\ is_unlocked /\ a \in DOMAIN profile_set /\ active_alias' = a
          /\ drop_completion_caches
          /\ UNCHANGED <<profile_set, kek, ttl, session_age, container, foreign, unsaved>>
          /\ idle_age' = 0
        BY <1>2 DEF SetActiveAlias, touch, disk
    <2>2. TypeOK'
        BY <2>1, EmptyCacheType DEF IInv, TypeOK, drop_completion_caches
    <2>3. Safe'
        BY <2>1 DEF IInv, Safe, LockedHoldsNothing, UnlockedIsComplete,
            ActiveAliasResolves, CachesFollowActive, ContainerMirrorsSession,
            is_unlocked, drop_completion_caches, EmptyCache
    <2>4. QED
        BY <2>2, <2>3 DEF IInv
<1>3. QED
    BY <1>1, <1>2

\* A write of the container keeps the file and its history variables typed,
\* and when it succeeds the file is what was asked for.
LEMMA PersistResult ==
    ASSUME IInv, is_unlocked, NEW s \in ProfileSet, NEW r, persist(s, r)
    PROVE  /\ container' \in Container \union {None}
           /\ foreign' \in BOOLEAN /\ unsaved' \in BOOLEAN
           /\ ~unsaved' => container' = [kek |-> kek, set |-> s]
<1>1. kek \in Kek
    BY DEF IInv, Safe, TypeOK, UnlockedIsComplete
<1>2. CASE r = "Updated"
    BY <1>1, <1>2 DEF persist, Container
<1>3. CASE r # "Updated"
    BY <1>3 DEF persist, IInv, TypeOK
<1>4. QED
    BY <1>2, <1>3

\* A refused update touches nothing but the idle clock.
LEMMA UpdateProfileInv ==
    ASSUME IInv, NEW a \in Alias, NEW p \in Profile, NEW r, UpdateProfile(a, p, r),
           is_unlocked => profile_set' \in ProfileSet
    PROVE  IInv'
<1>1. CASE UNCHANGED <<profile_set, caches, disk>>
    <2>1. /\ session_age' \in Nat \union {None} /\ idle_age' \in Nat
          /\ UNCHANGED <<secrets, session_age>>
        BY <1>1 DEF UpdateProfile, touch, IInv, TypeOK, secrets
    <2>2. QED
        BY <1>1, <2>1, AgesOnlyInv
<1>2. CASE ~ UNCHANGED <<profile_set, caches, disk>>
    <2>1. /\ is_unlocked /\ a \in DOMAIN profile_set
          /\ profile_set' = [profile_set EXCEPT ![a] = p]
          /\ IF active_alias = a THEN drop_completion_caches ELSE UNCHANGED caches
          /\ persist(profile_set', r)
          /\ UNCHANGED <<kek, active_alias, ttl, session_age>>
          /\ idle_age' = 0
        BY <1>2 DEF UpdateProfile, touch
    <2>2. profile_set \in ProfileSet
        BY <2>1 DEF IInv, TypeOK, is_unlocked
    <2>3. /\ DOMAIN profile_set' = DOMAIN profile_set
          /\ \A b \in DOMAIN profile_set : b # a => profile_set'[b] = profile_set[b]
        BY <2>1, <2>2 DEF ProfileSet
    <2>4. profile_set' \in ProfileSet /\ profile_set' # None
        BY <2>1, NoneIsNothing
    <2>5. /\ container' \in Container \union {None}
          /\ foreign' \in BOOLEAN /\ unsaved' \in BOOLEAN
          /\ ~unsaved' => container' = [kek |-> kek, set |-> profile_set']
        BY <2>1, <2>4, PersistResult
    <2>6. TypeOK'
        BY <2>1, <2>4, <2>5, EmptyCacheType
        DEF IInv, TypeOK, caches, drop_completion_caches
    <2>7. /\ LockedHoldsNothing' /\ UnlockedIsComplete' /\ ActiveAliasResolves'
          /\ ContainerMirrorsSession'
        BY <2>1, <2>3, <2>4, <2>5
        DEF IInv, Safe, LockedHoldsNothing, UnlockedIsComplete, ActiveAliasResolves,
            ContainerMirrorsSession, is_unlocked
    <2>8. CachesFollowActive'
        <3>1. CASE active_alias = a
            BY <2>1, <3>1 DEF CachesFollowActive, drop_completion_caches, EmptyCache
        <3>2. CASE active_alias # a
            <4>1. UNCHANGED <<list_cache, warm_client>>
                BY <2>1, <3>2 DEF caches
            <4>2. HasActive => HasActive' /\ Active' = Active
                BY <2>1, <2>3, <2>4, <3>2 DEF HasActive, Active, is_unlocked
            <4>3. QED
                BY <4>1, <4>2 DEF IInv, Safe, CachesFollowActive
        <3>3. QED
            BY <3>1, <3>2
    <2>9. QED
        BY <2>6, <2>7, <2>8 DEF IInv, Safe
<1>3. QED
    BY <1>1, <1>2

LEMMA UpdateProfileSetInv ==
    ASSUME IInv, NEW s \in ProfileSet, NEW r, UpdateProfileSet(s, r)
    PROVE  IInv'
<1>1. CASE ~is_unlocked
    <2>1. UNCHANGED <<secrets, session_age, caches, disk>> /\ idle_age' = 0
        BY <1>1 DEF UpdateProfileSet, AliasKept, touch, secrets
    <2>2. QED
        BY <2>1, AgesOnlyInv DEF IInv, TypeOK
<1>2. CASE is_unlocked
    <2>1. /\ profile_set' = s
          /\ active_alias' = IF active_alias \in DOMAIN s THEN active_alias ELSE None
          /\ drop_completion_caches
          /\ persist(s, r)
          /\ UNCHANGED <<kek, ttl, session_age>>
          /\ idle_age' = 0
        BY <1>2 DEF UpdateProfileSet, AliasKept, touch
    <2>2. /\ container' \in Container \union {None}
          /\ foreign' \in BOOLEAN /\ unsaved' \in BOOLEAN
          /\ ~unsaved' => container' = [kek |-> kek, set |-> s]
        BY <1>2, <2>1, PersistResult
    <2>3. TypeOK'
        BY <2>1, <2>2, EmptyCacheType DEF IInv, TypeOK, drop_completion_caches
    <2>4. Safe'
        BY <1>2, <2>1, <2>2, NoneIsNothing
        DEF IInv, Safe, LockedHoldsNothing, UnlockedIsComplete, ActiveAliasResolves,
            CachesFollowActive, ContainerMirrorsSession, is_unlocked,
            drop_completion_caches, EmptyCache
    <2>5. QED
        BY <2>3, <2>4 DEF IInv
<1>3. QED
    BY <1>1, <1>2

\* A hit changes nothing; a miss drops the entry or replaces it by a listing
\* made with the warm client, whose credentials are the active ones unless the
\* client itself was carried over from an earlier session.
LEMMA ListRemoteInv ==
    ASSUME IInv, NEW k \in Key, NEW r, ListRemote(k, r)
    PROVE  IInv'
<1> DEFINE client == ClientFor(Active)
           listing == [owner |-> client.owner, carried |-> client.carried, age |-> 0]
<1>0. UNCHANGED <<secrets, disk>> /\ idle_age' = 0
    BY DEF ListRemote, touch
<1>1. HasActive => /\ client \in WarmClient
                   /\ ~client.carried => client.owner = Active
    <2>1. SUFFICES ASSUME HasActive
                   PROVE  /\ client \in WarmClient
                          /\ ~client.carried => client.owner = Active
        OBVIOUS
    <2>2. Active \in Owner
        BY <2>1, ActiveIsOwner DEF IInv
    <2>3. CASE client = warm_client
        BY <2>1, <2>2, <2>3 DEF IInv, Safe, TypeOK, CachesFollowActive, ClientFor, WarmClient
    <2>4. CASE client = [owner |-> Active, carried |-> FALSE]
        BY <2>2, <2>4 DEF WarmClient
    <2>5. QED
        BY <2>3, <2>4 DEF ClientFor
<1>2. session_age' \in Nat \union {None} /\ (session_age' = None <=> session_age = None)
    BY NoneIsNothing DEF ListRemote, RenewedAge, IInv, TypeOK
<1>3. CASE UNCHANGED caches
    BY <1>0, <1>2, <1>3, AgesOnlyInv
<1>4. CASE ~ UNCHANGED caches
    <2>1. \/ list_cache' = [list_cache EXCEPT ![k] = None]
          \/ HasActive /\ list_cache' = [list_cache EXCEPT ![k] = listing]
        BY <1>4 DEF ListRemote, caches
    <2>2. \/ warm_client' = warm_client
          \/ HasActive /\ warm_client' = client
        BY <1>4 DEF ListRemote, caches
    <2>3. HasActive => listing \in CachedListing
        BY <1>1 DEF WarmClient, CachedListing
    <2>4. TypeOK'
        BY <1>0, <1>1, <1>2, <2>1, <2>2, <2>3 DEF IInv, TypeOK, secrets, disk
    <2>5. HasActive' = HasActive /\ Active' = Active /\ is_unlocked' = is_unlocked
        BY <1>0 DEF secrets, HasActive, Active, is_unlocked
    <2>6. CachesFollowActive'
        <3>1. ASSUME NEW x \in Key, list_cache'[x] # None, ~list_cache'[x].carried
              PROVE  HasActive /\ list_cache'[x].owner = Active
            <4>1. CASE list_cache'[x] = list_cache[x]
                BY <3>1, <4>1 DEF IInv, Safe, CachesFollowActive
            <4>2. CASE HasActive /\ list_cache'[x] = listing
                BY <1>1, <3>1, <4>2
            <4>3. QED
                BY <2>1, <3>1, <4>1, <4>2 DEF IInv, TypeOK
        <3>2. ASSUME warm_client' # None, ~warm_client'.carried
              PROVE  HasActive /\ warm_client'.owner = Active
            BY <1>1, <2>2, <3>2 DEF IInv, Safe, CachesFollowActive
        <3>3. QED
            BY <2>5, <3>1, <3>2 DEF CachesFollowActive
    <2>7. ~is_unlocked => list_cache' = EmptyCache /\ warm_client' = None
        BY <2>1, <2>2 DEF IInv, Safe, LockedHoldsNothing, HasActive, EmptyCache
    <2>8. /\ LockedHoldsNothing' /\ UnlockedIsComplete' /\ ActiveAliasResolves'
          /\ ContainerMirrorsSession'
        BY <1>0, <1>2, <2>5, <2>7
        DEF IInv, Safe, LockedHoldsNothing, UnlockedIsComplete, ActiveAliasResolves,
            ContainerMirrorsSession, is_unlocked, secrets, disk, EmptyCache
    <2>9. QED
        BY <2>4, <2>6, <2>8 DEF IInv, Safe
<1>5. QED
    BY <1>3, <1>4

LEMMA InvalidateRemoteInv ==
    ASSUME IInv, NEW p \in Prefix, NEW r, InvalidateRemote(p, r)
    PROVE  IInv'
<1>1. /\ UNCHANGED <<secrets, session_age, warm_client, disk>> /\ idle_age' = 0
      /\ list_cache' = [k \in Key |->
            IF k.prefix \in walk_to_root(p) THEN None ELSE list_cache[k]]
    BY DEF InvalidateRemote, touch
<1>2. TypeOK'
    BY <1>1 DEF IInv, TypeOK, secrets, disk
<1>3. Safe'
    BY <1>1 DEF IInv, Safe, TypeOK, secrets, disk, LockedHoldsNothing,
        UnlockedIsComplete, ActiveAliasResolves, CachesFollowActive,
        ContainerMirrorsSession, is_unlocked, HasActive, Active, EmptyCache
<1>4. QED
    BY <1>2, <1>3 DEF IInv

LEMMA CheckTtlInv ==
    ASSUME IInv, check_ttl_and_lock
    PROVE  IInv'
BY ForgetInv DEF IInv, TypeOK, check_ttl_and_lock

LEMMA TickInv ==
    ASSUME IInv, Tick
    PROVE  IInv'
<1>1. /\ session_age' = IF session_age = None THEN None ELSE Older(session_age, ttl)
      /\ idle_age' = Older(idle_age, IDLE_EXIT)
      /\ list_cache' = [k \in Key |->
            IF list_cache[k] = None THEN None
            ELSE [list_cache[k] EXCEPT !.age = Older(@, CACHE_TTL)]]
      /\ UNCHANGED <<secrets, warm_client, disk>>
    BY DEF Tick
<1>2. /\ session_age' \in Nat \union {None} /\ (session_age' = None <=> session_age = None)
      /\ idle_age' \in Nat
    BY <1>1, OlderType, NoneIsNothing, LimitsAssumption DEF IInv, TypeOK
<1>3. list_cache' \in [Key -> CachedListing \union {None}]
    BY <1>1, OlderType, LimitsAssumption DEF IInv, TypeOK, CachedListing
<1>4. TypeOK'
    BY <1>1, <1>2, <1>3 DEF IInv, TypeOK, secrets, disk
<1>5. \A k \in Key :
        /\ list_cache[k] = None => list_cache'[k] = None
        /\ list_cache'[k] # None =>
                /\ list_cache[k] # None
                /\ list_cache'[k].carried = list_cache[k].carried
                /\ list_cache'[k].owner = list_cache[k].owner
    BY <1>1 DEF IInv, TypeOK, CachedListing
<1>6. ~is_unlocked => list_cache' = EmptyCache
    BY <1>1 DEF IInv, Safe, LockedHoldsNothing, EmptyCache
<1>7. /\ HasActive' = HasActive /\ Active' = Active /\ is_unlocked' = is_unlocked
      /\ UNCHANGED <<profile_set, kek, active_alias, warm_client, container, foreign, unsaved>>
    BY <1>1 DEF secrets, disk, HasActive, Active, is_unlocked
<1>8. CachesFollowActive'
    BY <1>5, <1>7 DEF IInv, Safe, CachesFollowActive
<1>9. /\ LockedHoldsNothing' /\ UnlockedIsComplete' /\ ActiveAliasResolves'
      /\ ContainerMirrorsSession'
    BY <1>2, <1>6, <1>7
    DEF IInv, Safe, LockedHoldsNothing, UnlockedIsComplete, ActiveAliasResolves,
        ContainerMirrorsSession, is_unlocked, EmptyCache
<1>10. QED
    BY <1>4, <1>8, <1>9 DEF IInv, Safe

LEMMA OtherProcessInv ==
    ASSUME IInv, OtherProcessWritesContainer
    PROVE  IInv'
<1>1. /\ container' \in Container \union {None}
      /\ foreign' = is_unlocked
      /\ UNCHANGED <<secrets, session_age, idle_age, caches, unsaved>>
    BY DEF OtherProcessWritesContainer
<1>2. TypeOK'
    BY <1>1 DEF IInv, TypeOK, secrets, caches, is_unlocked
<1>3. ContainerMirrorsSession'
    BY <1>1 DEF ContainerMirrorsSession, is_unlocked, secrets
<1>4. LockedHoldsNothing' /\ UnlockedIsComplete' /\ ActiveAliasResolves' /\ CachesFollowActive'
    BY <1>1 DEF IInv, Safe, secrets, caches, LockedHoldsNothing, UnlockedIsComplete,
        ActiveAliasResolves, CachesFollowActive, is_unlocked, HasActive, Active, EmptyCache
<1>5. QED
    BY <1>2, <1>3, <1>4 DEF IInv, Safe

-------------------------------------------------------------------------------
LEMMA NextInv == IInv /\ [Next]_vars => IInv'
<1> SUFFICES ASSUME IInv, [Next]_vars PROVE IInv'
    OBVIOUS
<1>1. CASE UNCHANGED vars
    <2>1. UNCHANGED <<secrets, caches, disk, session_age, idle_age>>
        BY <1>1 DEF vars
    <2>2. QED
        BY <2>1, AgesOnlyInv DEF IInv, TypeOK
<1>2. CASE Next
    <2>1. ASSUME NEW s \in ProfileSet, NEW k \in Kek, NEW a \in Alias,
                 NEW t \in Ttl \union {None}, NEW r, Unlock(s, k, a, t, r)
          PROVE  IInv'
        BY <2>1, UnlockInv
    <2>2. ASSUME NEW a \in Alias, NEW p \in Profile, NEW r, UpdateProfile(a, p, r),
                 is_unlocked => profile_set' \in ProfileSet
          PROVE  IInv'
        BY <2>2, UpdateProfileInv
    <2>3. QED
        BY <1>2, <2>1, <2>2, LockInv, GetProfileInv, SetActiveAliasInv,
           UpdateProfileSetInv, ListRemoteInv, InvalidateRemoteInv, EnquireInv,
           CheckTtlInv, TickInv, OtherProcessInv
        DEF Next
<1>3. QED
    BY <1>1, <1>2

\* The strengthened invariant holds in every state of the agent.
THEOREM Invariance == Spec => []IInv
BY InitInv, NextInv, PTL DEF Spec

\* Every variable of the agent keeps its type, whatever requests, failed writes,
\* expiries and foreign writes it meets.
THEOREM TypeCorrect == Spec => []TypeOK
<1>1. IInv => TypeOK
    BY DEF IInv
<1>2. QED
    BY <1>1, Invariance, PTL

\* A locked agent holds no profile, key, alias, cached listing or client.
THEOREM LockScrubs == Spec => []LockedHoldsNothing
<1>1. IInv => LockedHoldsNothing
    BY DEF IInv, Safe
<1>2. QED
    BY <1>1, Invariance, PTL

\* An unlocked agent has a key to persist with and a start to expire from.
THEOREM UnlockedComplete == Spec => []UnlockedIsComplete
<1>1. IInv => UnlockedIsComplete
    BY DEF IInv, Safe
<1>2. QED
    BY <1>1, Invariance, PTL

\* The active alias always names a profile that is there.
THEOREM AliasResolves == Spec => []ActiveAliasResolves
<1>1. IInv => ActiveAliasResolves
    BY DEF IInv, Safe
<1>2. QED
    BY <1>1, Invariance, PTL

\* Listings and clients made since the last Unlock belong to the active profile.
THEOREM CachesTrackActive == Spec => []CachesFollowActive
<1>1. IInv => CachesFollowActive
    BY DEF IInv, Safe
<1>2. QED
    BY <1>1, Invariance, PTL

\* With no foreign write and no failed one, the file is the session on disk.
THEOREM ContainerMirrors == Spec => []ContainerMirrorsSession
<1>1. IInv => ContainerMirrorsSession
    BY DEF IInv, Safe
<1>2. QED
    BY <1>1, Invariance, PTL

-------------------------------------------------------------------------------
(* The process around the state. *)

\* The part of ServerTypeOK that is about the sockets and the loop.
LinksOK ==
    /\ peer \in [Client -> {"absent", "ready", "waiting", "closed"}]
    /\ inbox \in [Client -> Request \union {None}]
    /\ backlog \in Seq(Client)
    /\ serving \in Client \union {None}
    /\ exit_flag \in BOOLEAN
    /\ alive \in BOOLEAN
    /\ fetched \in Client \union {None}

ServerInv == IInv /\ LinksOK /\ AnsweredExitIsFinal /\ FetchedIsHeld

-------------------------------------------------------------------------------
\* A request that decoded carries members of the sets the agent's own
\* specification quantifies over.
LEMMA RequestFields ==
    ASSUME NEW q \in Request
    PROVE  /\ q.op = "Unlock" =>
                q.set \in ProfileSet /\ q.kek \in Kek /\ q.alias \in Alias
                    /\ q.ttl \in Ttl \union {None}
           /\ q.op = "UpdateProfile" => q.alias \in Alias /\ q.profile \in Profile
           /\ q.op = "UpdateProfileSet" => q.set \in ProfileSet
           /\ q.op = "SetActiveAlias" => q.alias \in Alias
           /\ q.op = "ListRemote" => q.key \in Key
           /\ q.op = "InvalidateRemote" => q.prefix \in Prefix
BY DEF Request, Garbled

\* Whatever dispatch does is one request of AgentState.
LEMMA DispatchIsNext ==
    ASSUME NEW q \in Request, NEW r \in Reply, Dispatch(q, r)
    PROVE  Next
<1>1. CASE q.op = "Unlock" /\ Unlock(q.set, q.kek, q.alias, q.ttl, r)
    <2>1. r \in {"Unlocked", "AliasNotFound"}
        BY <1>1 DEF Unlock
    <2>2. QED
        BY <1>1, <2>1, RequestFields DEF Next
<1>2. CASE q.op = "GetProfile" /\ GetProfile(r)
    <2>1. r \in {"Profile", "NotUnlocked"}
        BY <1>2 DEF GetProfile
    <2>2. QED
        BY <1>2, <2>1 DEF Next
<1>3. CASE /\ q.op = "UpdateProfile"
           /\ UpdateProfile(q.alias, q.profile, r)
           /\ is_unlocked => profile_set' \in ProfileSet
    <2>1. r \in {"Updated", "Io", "NotUnlocked", "AliasNotFound"}
        BY <1>3 DEF UpdateProfile, persist
    <2>2. QED
        BY <1>3, <2>1, RequestFields DEF Next
<1>4. CASE q.op = "UpdateProfileSet" /\ UpdateProfileSet(q.set, r)
    <2>1. r \in {"Updated", "Io", "NotUnlocked"}
        BY <1>4 DEF UpdateProfileSet, persist
    <2>2. QED
        BY <1>4, <2>1, RequestFields DEF Next
<1>5. CASE q.op = "SetActiveAlias" /\ SetActiveAlias(q.alias, r)
    <2>1. r \in {"Updated", "NotUnlocked", "AliasNotFound"}
        BY <1>5 DEF SetActiveAlias
    <2>2. QED
        BY <1>5, <2>1, RequestFields DEF Next
<1>6. CASE q.op = "ListRemote" /\ ListRemote(q.key, r)
    <2>1. r \in {"RemoteList", "Io", "NotUnlocked"}
        BY <1>6 DEF ListRemote
    <2>2. QED
        BY <1>6, <2>1, RequestFields DEF Next
<1>7. CASE q.op = "InvalidateRemote" /\ InvalidateRemote(q.prefix, r)
    <2>1. r = "Updated"
        BY <1>7 DEF InvalidateRemote
    <2>2. QED
        BY <1>7, <2>1, RequestFields DEF Next
<1>8. CASE q.op = "Lock" /\ Lock(r)
    <2>1. r = "Locked"
        BY <1>8 DEF Lock
    <2>2. QED
        BY <1>8, <2>1 DEF Next
<1>9. CASE Enquire(r)
    <2>1. r \in {"Pong", "Status", "Exited"}
        BY <1>9 DEF Enquire
    <2>2. QED
        BY <1>9, <2>1 DEF Next
<1>10. QED
    BY <1>1, <1>2, <1>3, <1>4, <1>5, <1>6, <1>7, <1>8, <1>9 DEF Dispatch

\* The whole server seen from AgentState: requests are served one at a time,
\* accepting a connection is no more than a touch, and a process that ends
\* leaves its last state behind.
LEMMA StepIsStateStep ==
    ASSUME LinksOK, [ServerNext]_svars
    PROVE  [Next]_vars
<1>1. CASE UNCHANGED svars
    BY <1>1 DEF svars
<1>2. CASE LoopExitRequested \/ LoopIdleExit
    BY <1>2 DEF LoopExitRequested, LoopIdleExit, LeaveRun
<1>3. CASE LoopCheckTtl
    BY <1>3 DEF LoopCheckTtl, Next
<1>4. CASE LoopAccept
    <2>1. Enquire("Pong")
        BY <1>4 DEF LoopAccept, Enquire
    <2>2. QED
        BY <2>1 DEF Next
<1>5. ASSUME NEW c \in Client, NEW q \in Sent[c], Send(c, q)
      PROVE  UNCHANGED vars
    BY <1>5 DEF Send
<1>6. ASSUME NEW c \in Client, Connect(c) \/ Close(c) \/ EndConnection(c)
      PROVE  UNCHANGED vars
    BY <1>6 DEF Connect, Close, EndConnection
<1>7. ASSUME NEW c \in Client, Serve(c)
      PROVE  Next
    <2>1. inbox[c] \in Request
        BY <1>7 DEF LinksOK, Serve
    <2>2. QED
        BY <1>7, <2>1, DispatchIsNext DEF Serve
<1>8. CASE ServerTick
    BY <1>8 DEF ServerTick, Next
<1>9. QED
    BY <1>1, <1>2, <1>3, <1>4, <1>5, <1>6, <1>7, <1>8 DEF ServerNext, Loop

-------------------------------------------------------------------------------
LEMMA ServerInitInv == ServerInit => ServerInv
<1> SUFFICES ASSUME ServerInit PROVE ServerInv
    OBVIOUS
<1>1. IInv
    BY InitInv DEF ServerInit
<1>2. LinksOK
    <2>1. <<>> \in Seq(Client)
        OBVIOUS
    <2>2. inbox \in [Client -> Request \union {None}]
        BY DEF ServerInit
    <2>3. peer \in [Client -> {"absent", "ready", "waiting", "closed"}]
        BY DEF ServerInit
    <2>4. QED
        BY <2>1, <2>2, <2>3 DEF ServerInit, LinksOK
<1>3. QED
    BY <1>1, <1>2 DEF ServerInv, ServerInit, AnsweredExitIsFinal, FetchedIsHeld

\* Sockets, backlog and flags keep their types.
LEMMA LinksStep ==
    ASSUME LinksOK, [ServerNext]_svars
    PROVE  LinksOK'
<1>1. CASE UNCHANGED svars
    BY <1>1 DEF svars, links, service, LinksOK
<1>2. CASE LoopExitRequested \/ LoopIdleExit
    <2>1. <<>> \in Seq(Client)
        OBVIOUS
    <2>2. LeaveRun
        BY <1>2 DEF LoopExitRequested, LoopIdleExit
    <2>3. inbox' \in [Client -> Request \union {None}]
        BY <2>2 DEF LeaveRun
    <2>4. peer' \in [Client -> {"absent", "ready", "waiting", "closed"}]
        BY <2>2 DEF LinksOK, LeaveRun
    <2>5. QED
        BY <2>1, <2>2, <2>3, <2>4 DEF LinksOK, LeaveRun, service
<1>3. CASE LoopCheckTtl \/ ServerTick
    BY <1>3 DEF LinksOK, LoopCheckTtl, ServerTick, links, service
<1>4. CASE LoopAccept
    <2>1. Head(backlog) \in Client /\ Tail(backlog) \in Seq(Client)
        BY <1>4 DEF LinksOK, LoopAccept
    <2>2. QED
        BY <1>4, <2>1 DEF LinksOK, LoopAccept
<1>5. ASSUME NEW c \in Client, Connect(c)
      PROVE  LinksOK'
    BY <1>5 DEF LinksOK, Connect, service
<1>6. ASSUME NEW c \in Client, NEW q \in Sent[c], Send(c, q)
      PROVE  LinksOK'
    <2>1. q \in Request
        BY ServerAssumption
    <2>2. QED
        BY <1>6, <2>1 DEF LinksOK, Send, service
<1>7. ASSUME NEW c \in Client, Close(c)
      PROVE  LinksOK'
    BY <1>7 DEF LinksOK, Close, service
<1>8. ASSUME NEW c \in Client, Serve(c)
      PROVE  LinksOK'
    <2>1. /\ inbox' = [inbox EXCEPT ![c] = None]
          /\ UNCHANGED <<backlog, alive>>
        BY <1>8 DEF Serve
    <2>2. /\ peer' \in [Client -> {"absent", "ready", "waiting", "closed"}]
          /\ serving' \in Client \union {None}
          /\ exit_flag' \in BOOLEAN
        BY <1>8 DEF Serve, Answer, Hangup, LinksOK
    <2>3. fetched' \in Client \union {None}
        BY <1>8 DEF Serve, Knows, LinksOK
    <2>4. QED
        BY <2>1, <2>2, <2>3 DEF LinksOK
<1>9. ASSUME NEW c \in Client, EndConnection(c)
      PROVE  LinksOK'
    BY <1>9 DEF LinksOK, EndConnection, Hangup
<1>10. QED
    BY <1>1, <1>2, <1>3, <1>4, <1>5, <1>6, <1>7, <1>8, <1>9 DEF ServerNext, Loop

\* The flag is raised in the turn that hangs up, and nothing is accepted under it.
LEMMA ExitStep ==
    ASSUME LinksOK, AnsweredExitIsFinal, [ServerNext]_svars
    PROVE  AnsweredExitIsFinal'
<1>1. CASE UNCHANGED svars
    BY <1>1 DEF svars, service, AnsweredExitIsFinal
<1>2. CASE Loop
    BY <1>2 DEF Loop, LoopExitRequested, LoopCheckTtl, LoopIdleExit, LoopAccept, LeaveRun,
                AtLoop, service, AnsweredExitIsFinal
<1>3. ASSUME NEW c \in Client, NEW q \in Sent[c], Send(c, q)
      PROVE  AnsweredExitIsFinal'
    BY <1>3 DEF Send, service, AnsweredExitIsFinal
<1>4. ASSUME NEW c \in Client, Connect(c) \/ Close(c)
      PROVE  AnsweredExitIsFinal'
    BY <1>4 DEF Connect, Close, service, AnsweredExitIsFinal
<1>5. ASSUME NEW c \in Client, Serve(c)
      PROVE  AnsweredExitIsFinal'
    <2>1. serving = c /\ serving # None
        BY <1>5, ServerAssumption DEF Serve
    <2>2. ~exit_flag
        BY <2>1 DEF AnsweredExitIsFinal
    <2>3. QED
        BY <1>5, <2>2 DEF Serve, Answer, Hangup, AnsweredExitIsFinal
<1>6. ASSUME NEW c \in Client, EndConnection(c)
      PROVE  AnsweredExitIsFinal'
    BY <1>6 DEF EndConnection, Hangup, AnsweredExitIsFinal
<1>7. CASE ServerTick
    BY <1>7 DEF ServerTick, service, AnsweredExitIsFinal
<1>8. QED
    BY <1>1, <1>2, <1>3, <1>4, <1>5, <1>6, <1>7 DEF ServerNext

\* A request leaves an active profile, unless it is one of those that may take it
\* away.
LEMMA KeepsActive ==
    ASSUME IInv, HasActive, NEW q \in Request, NEW r \in Reply, Dispatch(q, r),
           q.op \notin {"Lock", "UpdateProfileSet"}
    PROVE  HasActive'
<1>1. IInv'
    BY DispatchIsNext, NextInv
<1>2. ActiveAliasResolves'
    BY <1>1 DEF IInv, Safe
<1>3. active_alias # None /\ is_unlocked /\ active_alias \in DOMAIN profile_set
    BY DEF HasActive
<1>4. SUFFICES active_alias' # None
    BY <1>2 DEF HasActive, ActiveAliasResolves
<1>5. CASE q.op = "Unlock" /\ Unlock(q.set, q.kek, q.alias, q.ttl, r)
    <2>1. q.alias \in Alias
        BY <1>5, RequestFields
    <2>2. active_alias' \in {active_alias, q.alias}
        BY <1>5 DEF Unlock, secrets
    <2>3. QED
        BY <1>3, <2>1, <2>2, NoneAssumption
<1>6. CASE q.op = "SetActiveAlias" /\ SetActiveAlias(q.alias, r)
    <2>1. q.alias \in Alias
        BY <1>6, RequestFields
    <2>2. active_alias' \in {active_alias, q.alias}
        BY <1>6 DEF SetActiveAlias, secrets
    <2>3. QED
        BY <1>3, <2>1, <2>2, NoneAssumption
<1>7. CASE GetProfile(r) \/ Enquire(r) \/ (q.op = "UpdateProfile" /\ UpdateProfile(q.alias, q.profile, r))
           \/ (q.op = "ListRemote" /\ ListRemote(q.key, r))
           \/ (q.op = "InvalidateRemote" /\ InvalidateRemote(q.prefix, r))
    BY <1>3, <1>7 DEF GetProfile, Enquire, UpdateProfile, ListRemote, InvalidateRemote, secrets
<1>8. QED
    BY <1>5, <1>6, <1>7 DEF Dispatch

\* Who was given the profile is the one served, and nobody else can take the
\* session away meanwhile.
LEMMA FetchedStep ==
    ASSUME IInv, LinksOK, FetchedIsHeld, [ServerNext]_svars
    PROVE  FetchedIsHeld'
<1>1. UNCHANGED secrets => (HasActive <=> HasActive')
    BY DEF secrets, HasActive, is_unlocked
<1>2. CASE UNCHANGED svars
    BY <1>1, <1>2 DEF svars, vars, service, FetchedIsHeld
<1>3. CASE LoopExitRequested \/ LoopIdleExit
    BY <1>1, <1>3 DEF LoopExitRequested, LoopIdleExit, LeaveRun, vars, service, FetchedIsHeld
<1>4. CASE LoopCheckTtl \/ LoopAccept
    <2>1. serving = None /\ fetched' = fetched
        BY <1>4 DEF LoopCheckTtl, LoopAccept, AtLoop, service
    <2>2. fetched = None
        BY <2>1 DEF FetchedIsHeld
    <2>3. QED
        BY <2>1, <2>2 DEF FetchedIsHeld
<1>5. ASSUME NEW c \in Client, NEW q \in Sent[c], Send(c, q)
      PROVE  FetchedIsHeld'
    BY <1>1, <1>5 DEF Send, vars, service, FetchedIsHeld
<1>6. ASSUME NEW c \in Client, Connect(c) \/ Close(c)
      PROVE  FetchedIsHeld'
    BY <1>1, <1>6 DEF Connect, Close, vars, service, FetchedIsHeld
<1>7. ASSUME NEW c \in Client, Serve(c)
      PROVE  FetchedIsHeld'
    <2>1. PICK q \in Request, r \in Reply :
              /\ q = inbox[c] /\ Dispatch(q, r)
              /\ fetched' = IF serving' = None THEN None ELSE Knows(c, q, r)
        BY <1>7 DEF Serve, LinksOK
    <2>2. serving = c /\ serving' \in {c, None}
        BY <1>7 DEF Serve, Answer, Hangup
    <2>3. CASE r = "Profile"
        <3>1. GetProfile(r)
            BY <2>1, <2>3 DEF Dispatch, Unlock, UpdateProfile, persist, UpdateProfileSet,
               SetActiveAlias, ListRemote, InvalidateRemote, Lock, Enquire
        <3>2. HasActive /\ UNCHANGED secrets
            BY <2>3, <3>1 DEF GetProfile
        <3>3. QED
            BY <1>1, <2>1, <2>2, <2>3, <3>2 DEF Knows, FetchedIsHeld
    <2>4. CASE r # "Profile"
        <3>1. CASE fetched' = None
            BY <3>1 DEF FetchedIsHeld
        <3>2. CASE fetched' # None
            <4>1. /\ q.op \notin {"Lock", "UpdateProfileSet"}
                  /\ fetched' = fetched /\ serving' # None
                BY <2>1, <2>4, <3>2 DEF Knows
            <4>2. HasActive /\ fetched = serving
                BY <3>2, <4>1 DEF FetchedIsHeld
            <4>3. HasActive'
                BY <2>1, <4>1, <4>2, KeepsActive
            <4>4. QED
                BY <2>2, <4>1, <4>2, <4>3 DEF FetchedIsHeld
        <3>3. QED
            BY <3>1, <3>2
    <2>5. QED
        BY <2>3, <2>4
<1>8. ASSUME NEW c \in Client, EndConnection(c)
      PROVE  FetchedIsHeld'
    BY <1>8 DEF EndConnection, FetchedIsHeld
<1>9. CASE ServerTick
    BY <1>1, <1>9 DEF ServerTick, Tick, service, FetchedIsHeld
<1>10. QED
    BY <1>2, <1>3, <1>4, <1>5, <1>6, <1>7, <1>8, <1>9 DEF ServerNext, Loop

LEMMA ServerNextInv == ServerInv /\ [ServerNext]_svars => ServerInv'
<1> SUFFICES ASSUME ServerInv, [ServerNext]_svars PROVE ServerInv'
    OBVIOUS
<1>1. IInv'
    BY StepIsStateStep, NextInv DEF ServerInv
<1>2. LinksOK' /\ AnsweredExitIsFinal' /\ FetchedIsHeld'
    BY LinksStep, ExitStep, FetchedStep DEF ServerInv
<1>3. QED
    BY <1>1, <1>2 DEF ServerInv

THEOREM ServerInvariance == ServerSpec => []ServerInv
BY ServerInitInv, ServerNextInv, PTL DEF ServerSpec

-------------------------------------------------------------------------------
\* The accept loop with its clients implements AgentState: no interleaving of
\* connections, cut connections and late requests does anything to the secrets
\* that a sequence of single requests could not do.
THEOREM ServerImplementsState == ServerSpec => Spec
<1>1. ServerInit => Init
    BY DEF ServerInit
<1>2. ServerInv /\ [ServerNext]_svars => [Next]_vars
    BY StepIsStateStep DEF ServerInv
<1>3. QED
    BY <1>1, <1>2, ServerInvariance, PTL DEF ServerSpec, Spec

\* The process, its sockets and its state keep their types.
THEOREM ServerTypeCorrect == ServerSpec => []ServerTypeOK
<1>1. ServerInv => ServerTypeOK
    BY DEF ServerInv, IInv, LinksOK, ServerTypeOK
<1>2. QED
    BY <1>1, ServerInvariance, PTL

\* Once the reply to Exit has been written, run() serves nobody any more.
THEOREM ExitEndsService == ServerSpec => []AnsweredExitIsFinal
<1>1. ServerInv => AnsweredExitIsFinal
    BY DEF ServerInv
<1>2. QED
    BY <1>1, ServerInvariance, PTL

\* A transfer never comes back to an agent without the session it was given.
THEOREM FetchedStaysHeld == ServerSpec => []FetchedIsHeld
<1>1. ServerInv => FetchedIsHeld
    BY DEF ServerInv
<1>2. QED
    BY <1>1, ServerInvariance, PTL

-------------------------------------------------------------------------------
\* The requests that may start a session afresh; all others leave its age alone
\* or end it.
Renewing(q) ==
    \/ q.op \in {"GetProfile", "Unlock"}
    \/ q.op = "ListRemote" /\ ~CacheHit(q.key)

LEMMA DispatchAge ==
    ASSUME NEW q \in Request, NEW r \in Reply, Dispatch(q, r)
    PROVE  Renewing(q) \/ session_age' \in {session_age, None}
<1>1. CASE q.op \in {"GetProfile", "Unlock"}
    BY <1>1 DEF Renewing
<1>2. CASE q.op = "ListRemote" /\ ListRemote(q.key, r)
    BY <1>2 DEF Renewing, ListRemote
<1>3. CASE q.op = "Lock" /\ Lock(r)
    BY <1>3 DEF Lock, ForgetSecrets
<1>4. CASE UpdateProfile(q.alias, q.profile, r)
    BY <1>4 DEF UpdateProfile
<1>5. CASE UpdateProfileSet(q.set, r)
    BY <1>5 DEF UpdateProfileSet
<1>6. CASE SetActiveAlias(q.alias, r) \/ InvalidateRemote(q.prefix, r) \/ Enquire(r)
    BY <1>6 DEF SetActiveAlias, InvalidateRemote, Enquire
<1>7. QED
    BY <1>1, <1>2, <1>3, <1>4, <1>5, <1>6 DEF Dispatch

\* The clock never makes a session younger.
LEMMA TickAges ==
    ASSUME TypeOK, Tick
    PROVE  session_age' = None \/ session_age' >= session_age
<1>1. CASE session_age = None
    <2>1. session_age' = IF session_age = None THEN None ELSE Older(session_age, ttl)
        BY DEF Tick
    <2>2. QED
        BY <1>1, <2>1
<1>2. CASE session_age # None
    <2>1. session_age \in Nat /\ ttl \in Nat
        BY <1>2 DEF TypeOK
    <2>2. session_age' = Older(session_age, ttl)
        <3>1. session_age' = IF session_age = None THEN None ELSE Older(session_age, ttl)
            BY DEF Tick
        <3>2. QED
            BY <1>2, <3>1
    <2>3. QED
        BY <2>1, <2>2 DEF Older
<1>3. QED
    BY <1>1, <1>2

\* Asking for the status, and completion served from the cache, never prolong a
\* session: only obtaining the profile, unlocking or calling the provider does.
THEOREM PollingCannotRenew == ServerSpec => PollingDoesNotRenew
<1> DEFINE Renewed == /\ serving # None
                      /\ inbox[serving] # None
                      /\ \/ inbox[serving].op \in {"GetProfile", "Unlock"}
                         \/ inbox[serving].op = "ListRemote" /\ ~CacheHit(inbox[serving].key)
           Younger == session_age # None /\ session_age' # None /\ session_age' < session_age
<1>1. ASSUME ServerInv, [ServerNext]_svars, Younger
      PROVE  Renewed
    <2>1. session_age \in Nat /\ session_age' # session_age /\ session_age' # None
          /\ ~(session_age' >= session_age)
        <3>1. session_age \in Nat /\ session_age' \in Nat
            <4>1. ServerInv'
                BY <1>1, ServerNextInv
            <4>2. QED
                BY <1>1, <4>1 DEF ServerInv, IInv, TypeOK
        <3>2. QED
            BY <1>1, <3>1
    <2>2. CASE ServerTick
        BY <1>1, <2>1, <2>2, TickAges DEF ServerInv, IInv, ServerTick
    <2>3. CASE Loop
        BY <2>1, <2>3 DEF Loop, LoopExitRequested, LoopCheckTtl, LoopIdleExit, LoopAccept,
                          LeaveRun, check_ttl_and_lock, ForgetSecrets, vars
    <2>4. ASSUME NEW c \in Client, NEW q \in Sent[c], Send(c, q)
          PROVE  Renewed
        BY <2>1, <2>4 DEF Send, vars
    <2>5. ASSUME NEW c \in Client, Connect(c) \/ Close(c) \/ EndConnection(c)
          PROVE  Renewed
        BY <2>1, <2>5 DEF Connect, Close, EndConnection, vars
    <2>6. ASSUME NEW c \in Client, Serve(c)
          PROVE  Renewed
        <3>1. /\ serving = c /\ serving # None
              /\ inbox[c] \in Request /\ inbox[c] # None
            BY <1>1, <2>6, ServerAssumption DEF ServerInv, LinksOK, Serve
        <3>2. PICK r \in Reply : Dispatch(inbox[c], r)
            BY <2>6 DEF Serve
        <3>3. Renewing(inbox[c])
            BY <2>1, <3>1, <3>2, DispatchAge
        <3>4. QED
            BY <3>1, <3>3 DEF Renewing
    <2>7. CASE UNCHANGED svars
        BY <2>1, <2>7 DEF svars, vars
    <2>8. QED
        BY <1>1, <2>2, <2>3, <2>4, <2>5, <2>6, <2>7 DEF ServerNext
<1>2. ServerInv /\ [ServerNext]_svars => [Younger => Renewed]_svars
    BY <1>1
<1>3. QED
    BY <1>2, ServerInvariance, PTL DEF ServerSpec, PollingDoesNotRenew
===============================================================================
