---------------------------- MODULE RemoteListing ----------------------------
(***************************************************************************)
(* The remote folder as completion sees it: the listings the agent keeps   *)
(* for a TTL (src/src/agent/list_cache.rs, list_remote in agent/state.rs)  *)
(* and the reply one `zz __complete` gets (src/src/sacs).                  *)
(*                                                                         *)
(* Time counts in ticks; CACHE_TTL ticks are the 60 seconds of DEFAULT_TTL.*)
(* A key is a folder, spelled as a path of segments, and a kind.           *)
(***************************************************************************)
EXTENDS Completion

CONSTANTS
    Stem,           \* what names begin with
    Folder,         \* names of folders
    MAX_DEPTH,      \* bound: how deep remote folders nest
    Files0,         \* the files in the remote folder at first
    CAP,            \* MAX_LIST_RESULTS: 200
    CACHE_TTL,
    Cursors,        \* the command lines and cursor words TAB is pressed at
    MAX_CHANGES     \* bound: changes made by other devices

VARIABLES
    agent,      \* absent, old (of another build), locked or unlocked
    tree,       \* the remote folder: its folders and files
    cache,      \* ListCache::map
    shown,      \* the reply the last TAB got, until the next step
    past,       \* ghost: the trees there were, by the ticks since
    changes     \* ghost: changes made by other devices so far

listingVars == <<agent, tree, cache, shown, past, changes>>

Path == UNION {[1..n -> Folder] : n \in 0..MAX_DEPTH}
Kind == {"Directory", "Both"}
Key  == Path \X Kind

\* A name: a stem, what was appended when it was packed and the number a renaming
\* gave it.  Paths are sequences of names.
FileName == [stem : Stem, ext : {"", ".zst", ".tar.zst"}, copy : Nat]

Name(stem)        == [stem |-> stem, ext |-> "", copy |-> 0]
Packed(name, ext) == [name EXCEPT !.ext = ext]

\* A file in the remote folder; from tells its contents.
RemoteFile == [dir : Seq(FileName), name : FileName, from : SUBSET Seq(FileName)]

ASSUME ListingAssumption ==
    /\ MAX_DEPTH \in Nat /\ CAP \in Nat /\ CACHE_TTL \in Nat
    /\ Folder \subseteq FileName
    /\ Files0 \subseteq RemoteFile /\ IsFiniteSet(Files0)
    /\ \A f \in Files0 : IsFiniteSet(f.from)
    /\ \A f, g \in Files0 : f.dir = g.dir /\ f.name = g.name => f = g
    /\ \A c \in Cursors : c.cur.dir \in Path

Listing(t, p) ==
    {[name |-> f.name, dir |-> FALSE] : f \in {f \in t.files : f.dir = p}}
        \cup {[name |-> Last(q), dir |-> TRUE] :
                 q \in {q \in t.folders : q # <<>> /\ Front(q) = p}}

OfKind(kind, entries) ==
    IF kind = "Both" THEN entries ELSE {e \in entries : e.dir}

-------------------------------------------------------------------------------
(***************************************************************************)
(* The list cache.                                                         *)
(***************************************************************************)

Live(c, key) == c[key] # None /\ c[key].age <= CACHE_TTL

EmptyCache == [key \in Key |-> None]

\* fault: an entry is kept and served whatever its age
get_forever(c, p, kind) == c[<<p, kind>>]

\* A hit is an entry of that folder and kind no older than the TTL.
get(c, p, kind) == IF Live(c, <<p, kind>>) THEN c[<<p, kind>>] ELSE None

\* fault: only the folder that was written to is dropped
walk_only_leaf(p) == {p}

walk_to_root(p) == Prefixes(p)

invalidate_prefix_to_root(c, p) ==
    [key \in Key |-> IF key[1] \in walk_to_root(p) THEN None ELSE c[key]]

\* What a fetch makes of the provider's answer: cut to CAP, the kind filtered
\* first; whether anything was cut is decided before the filter.
Shaped(kind, raw) ==
    {[entries |-> E, truncated |-> Cardinality(raw) > CAP, age |-> 0] :
        E \in IF Cardinality(OfKind(kind, raw)) <= CAP THEN {OfKind(kind, raw)}
              ELSE kSubset(CAP, OfKind(kind, raw))}

-------------------------------------------------------------------------------
InitListing ==
    /\ agent = "unlocked"
    /\ tree = [folders |-> {<<>>} \cup UNION {Prefixes(f.dir) : f \in Files0},
               files |-> Files0]
    /\ cache = EmptyCache
    /\ shown = None
    /\ past = [i \in 0..CACHE_TTL |-> {tree}]
    /\ changes = 0

\* The remote folder becomes t.
Becomes(t) ==
    /\ tree' = t
    /\ past' = [past EXCEPT ![0] = @ \cup {t}]

Reply(c, p, kind, e) ==
    shown' = [cursor |-> c, prefix |-> p, kind |-> kind, entries |-> e.entries,
              truncated |-> e.truncated]

\* ListCache::put.
put(c, p, kind, e) == [c EXCEPT ![<<p, kind>>] = e]

\* list_remote: a hit needs nothing else; a miss asks the provider, which may
\* fail or not know the folder, and only an answer is kept.
list_remote(c, p, kind) ==
    LET hit == get(cache, p, kind) IN
    \/ /\ hit # None
       /\ Reply(c, p, kind, hit)
       /\ UNCHANGED cache
    \/ /\ hit = None /\ p \in tree.folders
       /\ \E e \in Shaped(kind, Listing(tree, p)) :
             /\ cache' = put(cache, p, kind, e)
             /\ \/ Reply(c, p, kind, e)
                \/ shown' = None            \* the client gave up after 5 s
    \/ /\ hit = None
       /\ shown' = None
       /\ UNCHANGED cache

\* handle_complete: the socket is probed, Status decides whether the cursor word
\* is looked at, and at most one listing is asked for.
Complete ==
    \E c \in Cursors :
        LET state == classify(TRUE, FALSE, agent # "absent", agent = "unlocked")
            asks  == Context(state, c.words).asks
        IN  /\ asks # None
            /\ list_remote(c, parent_for_remote_prefix(c.cur), asks)
            /\ UNCHANGED <<agent, tree, past, changes>>

\* The session: lock, the profile replaced or another alias clears the cache, an
\* agent that ended takes it along; unlock finds it empty or leaves it alone.
Session ==
    /\ agent' \in {"absent", "old", "locked", "unlocked"}
    /\ \/ cache' = EmptyCache
       \/ agent' = "unlocked" /\ UNCHANGED cache
    /\ shown' = None
    /\ UNCHANGED <<tree, past, changes>>

Tick ==
    /\ cache' = [key \in Key |->
           IF cache[key] = None THEN None
           ELSE [cache[key] EXCEPT !.age = IF @ > CACHE_TTL THEN @ ELSE @ + 1]]
    /\ past' = [i \in 0..CACHE_TTL |-> IF i = 0 THEN {tree} ELSE past[i - 1]]
    /\ shown' = None
    /\ UNCHANGED <<agent, tree, changes>>

\* Another device adds or removes a file.
Elsewhere(f) ==
    /\ changes < MAX_CHANGES
    /\ \/ /\ f \in tree.files
          /\ Becomes([tree EXCEPT !.files = @ \ {f}])
       \/ /\ \A g \in tree.files : ~(g.dir = f.dir /\ g.name = f.name)
          /\ Becomes([folders |-> tree.folders \cup Prefixes(f.dir),
                      files |-> tree.files \cup {f}])
    /\ changes' = changes + 1
    /\ shown' = None
    /\ UNCHANGED <<agent, cache>>

-------------------------------------------------------------------------------
\* What a TAB gets is what the folder held at some time in the last TTL, of the
\* kind it asked for: all of it, or a part when the agent says it was cut.
FreshEnough ==
    shown # None =>
        \E i \in 0..CACHE_TTL : \E t \in past[i] :
            LET was == OfKind(shown.kind, Listing(t, shown.prefix)) IN
            IF shown.truncated THEN shown.entries \subseteq was
            ELSE shown.entries = was
===============================================================================
