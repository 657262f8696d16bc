------------------------ MODULE ProviderClient_proofs ------------------------
(***************************************************************************)
(* The provider clients, for any clients, calls, delays, page sizes and    *)
(* bounds: tokens stay accepted and arrive fresh, a listing of many pages  *)
(* is honest, and what is taken by its id had the path.                    *)
(***************************************************************************)
EXTENDS ProviderClient, FiniteSetTheorems, WellFoundedInduction, TLAPS

Stages == {"idle", "begin", "root", "mkroot", "walk", "mkdir", "leaf", "get", "remove",
           "probe", "page", "report"}
AnyName == Names \union {RootName}
Thing == [id : Nat \ {0}, name : AnyName, in : Nat, folder : BOOLEAN]
Entry == [id : Nat \ {0}, name : AnyName, folder : BOOLEAN]

\* The types of what the service and of what the clients keep.
ServiceType ==
    /\ provider \in {"nextcloud", "google_drive", "onedrive", "dropbox"}
    /\ things \subseteq Thing /\ IsFiniteSet(things)
    /\ issued \in Seq(Nat)
    /\ accepted \subseteq Nat /\ IsFiniteSet(accepted)
    /\ clock \in Nat
    /\ session \in Account
    /\ used \in [changes : Nat, calls : Nat, ids : Nat]

ClientType ==
    /\ pc \in [Client -> Stages]
    /\ call \in [Client -> Asked \union {None}]
    /\ profile \in [Client -> Account \union {None}]
    /\ dirty \in [Client -> BOOLEAN]
    /\ rest \in [Client -> Seq(AnyName)]
    /\ here \in [Client -> Nat \union {None}]
    /\ got = [c \in Client |-> got[c]]
    /\ checked \in [Client -> BOOLEAN]
    /\ reply \in [Client -> TokenAnswer \union {None}]
    /\ sent \in [Client -> Nat]
    /\ result = [c \in Client |-> result[c]]

\* A client with a call was built from a profile, and one that resolves or makes
\* folders has segments left; a token is on its way only to one that needs it.
Started ==
    \A c \in Client :
        /\ pc[c] # "idle" => call[c] # None /\ profile[c] # None
        /\ pc[c] \in {"walk", "mkdir"} => rest[c] # <<>>
        /\ pc[c] = "probe" => ~HasTokens
        /\ reply[c] # None => TokenFirst(c) /\ ~checked[c]

TypeInv == ServiceType /\ ClientType /\ Started

-------------------------------------------------------------------------------
\* The service accepts the refresh token of a profile, unless all were revoked.
Usable(p) == accepted # {} => p.refresh \in accepted

TokensKept ==
    /\ Usable(session)
    /\ \A c \in Client : profile[c] # None => Usable(profile[c])
    /\ \A c \in Client : reply[c] # None /\ reply[c].refresh # None =>
            (accepted # {} => reply[c].refresh \in accepted)

\* A profile takes its token for fresh at most REFRESH_TIMEOUT longer than it is.
Dated(p) ==
    /\ p.access \in 1 .. Len(issued)
    /\ p.expires_at <= issued[p.access] + REFRESH_TIMEOUT

Waiting(c) == pc[c] \notin {"idle", "report"}

TimeInv ==
    /\ Dated(session)
    /\ \A c \in Client :
        /\ profile[c] # None => Dated(profile[c])
        /\ ~Waiting(c) => ~checked[c]
        /\ Waiting(c) => sent[c] <= clock /\ clock - sent[c] <= Patience(c)
        /\ reply[c] # None =>
            /\ reply[c].access \in 1 .. Len(issued)
            /\ issued[reply[c].access] = sent[c] + LIFETIME
        /\ checked[c] => issued[profile[c].access] > sent[c] + TRANSIT

-------------------------------------------------------------------------------
\* Ids are unique, everything is in a folder, and names are unless on Drive.
ThingsInv ==
    /\ \A t, u \in things : t.id = u.id => t = u
    /\ \A t \in things : Exists(t.in) /\ t.id <= used.ids
    /\ provider # "google_drive" =>
        \A t, u \in things : t.in = u.in /\ t.name = u.name => t = u

\* A root folder a profile knows was one, if it is there.
KnownRoot(p) ==
    p.root_id = None \/
        /\ ById
        /\ p.root_id \in 1 .. used.ids
        /\ \A t \in things : t.id = p.root_id => t.folder

RootInv ==
    /\ KnownRoot(session)
    /\ \A c \in Client : profile[c] # None => KnownRoot(profile[c])

\* What a stage says of the call.
StageOf(c) ==
    /\ pc[c] \in {"begin", "probe", "page"} => call[c].op = "list"
    /\ pc[c] = "leaf" => call[c].op \in {"download", "delete"}
    /\ pc[c] = "get" => call[c].op = "download"
    /\ pc[c] = "remove" => call[c].op = "delete"
    /\ pc[c] = "mkdir" => call[c].op = "ensure"
    /\ pc[c] = "begin" => HasTokens
    /\ pc[c] \in {"root", "mkroot", "walk", "leaf"} => ById
    /\ pc[c] = "mkroot" => profile[c].root_id = None
    /\ pc[c] \in {"begin", "probe", "root", "mkroot"} => here[c] = None
    /\ pc[c] \in {"begin", "probe", "root", "mkroot", "walk", "mkdir"} => got[c] = {}
    /\ ById /\ pc[c] \in {"begin", "root", "mkroot"} => rest[c] = call[c].dirs

StageInv == \A c \in Client : StageOf(c)

-------------------------------------------------------------------------------
\* Where the path of a call leads by now, segment by segment; the names it leads
\* to, or the ids that have it.
Way(c) == Along(things, RootIds(things, profile[c]), call[c].dirs)
Places(c) == Reached(things, RootIds(things, profile[c]), call[c].dirs)
NamesAt(c) == UNION {NamesIn(things, id) : id \in Places(c)}
Holders(c) == {t.id : t \in Named(things, profile[c], call[c])}

\* The history of a call covers what it could find now.
HistoryOf(c) ==
    IF call[c].op = "list"
    THEN /\ Ambiguous(things) => lasting[c] = {}
         /\ lasting[c] \subseteq NamesAt(c) /\ NamesAt(c) \subseteq ever[c]
         /\ Ambiguous(things) \/ Places(c) = {} => missing[c]
    ELSE /\ Holders(c) \subseteq named[c]
         /\ Ambiguous(things) \/ (~\E id \in Holders(c) : Holders(c) = {id}) => missing[c]

HistoryInv == \A c \in Client : pc[c] # "idle" => HistoryOf(c)

\* The path was gone at some time during the call.
Lost(c) == missing[c] /\ (call[c].op = "list" => lasting[c] = {})

\* How many segments are resolved, and that the others are the rest of the path.
Depth(c) == IF pc[c] \in {"page", "leaf"} THEN Len(call[c].dirs) ELSE Len(call[c].dirs) - Len(rest[c])

SplitOf(c) ==
    pc[c] = "walk" /\ call[c].op # "ensure" =>
        /\ Len(rest[c]) <= Len(call[c].dirs)
        /\ \A i \in 1 .. Len(rest[c]) : rest[c][i] = call[c].dirs[Depth(c) + i]

\* What is resolved so far is on the way of the path, or the path was lost.
PlaceOf(c) ==
    pc[c] \in {"walk", "leaf", "page"} /\ call[c].op # "ensure" =>
        \/ here[c] = None /\ pc[c] = "page" /\ ~ById
        \/ here[c] \in 1 .. used.ids /\ here[c] \in Way(c)[Depth(c)]
        \/ here[c] \in 1 .. used.ids /\ ~Exists(here[c]) /\ Lost(c)

PlaceInv == \A c \in Client : SplitOf(c) /\ PlaceOf(c)

\* An id about to be taken had the path, and still has it unless that was lost.
TargetOf(c) ==
    pc[c] \in {"get", "remove"} /\ ById =>
        here[c] \in named[c] /\ (here[c] \in Holders(c) \/ missing[c])

TargetInv == \A c \in Client : TargetOf(c)

GotNames(c) == {e.name : e \in got[c]}

\* What was there throughout and is not listed yet has an id behind the cursor.
PagesOf(c) ==
    pc[c] = "page" =>
        /\ got[c] \subseteq Entry
        /\ \A e \in got[c] : e.id <= used.ids
        /\ GotNames(c) \subseteq ever[c]
        /\ here[c] = None => got[c] = {}
        /\ \A n \in lasting[c] \ GotNames(c) : \A t \in things :
            t.in = here[c] /\ t.name = n => \A e \in got[c] : e.id < t.id

PageInv == \A c \in Client : PagesOf(c)

EndInv == ListingIsHonest /\ TakesTheOneNamed
-------------------------------------------------------------------------------
\* Induction over the natural numbers, for a set: from the least that is not in it.
LEMMA Induction ==
    ASSUME NEW S, 0 \in S, \A n \in Nat : n \in S => n + 1 \in S
    PROVE  Nat \subseteq S
<1>1. SUFFICES ASSUME Nat \ S # {} PROVE FALSE
    OBVIOUS
<1>2. PICK x \in Nat \ S : \A y \in Nat \ S : ~(<<y, x>> \in OpToRel(<, Nat))
    BY ONLY <1>1, NatLessThanWellFounded, WFMin
<1>3. x \in Nat /\ x # 0
    BY <1>2
<1>4. ASSUME x - 1 \in S
      PROVE  FALSE
    <2>1. (x - 1) + 1 = x /\ x - 1 \in Nat
        BY <1>3
    <2>2. (x - 1) + 1 \in S
        BY <2>1, <1>4
    <2>3. QED
        BY <2>1, <2>2, <1>2
<1>5. x - 1 \in Nat \ S /\ x - 1 < x
    BY <1>3, <1>4
<1>6. <<x - 1, x>> \in OpToRel(<, Nat)
    BY <1>3, <1>5 DEF OpToRel
<1>7. QED
    BY <1>2, <1>5, <1>6

\* Along is the function its definition describes: roots first, then the folders of
\* each segment in those of the one before.
LEMMA AlongDef ==
    ASSUME NEW T, NEW roots, NEW dirs, Len(dirs) \in Nat
    PROVE  /\ Along(T, roots, dirs)[0] = roots
           /\ \A n \in 1 .. Len(dirs) : Along(T, roots, dirs)[n] =
                UNION {{t.id : t \in Folders(T, id, dirs[n])} : id \in Along(T, roots, dirs)[n - 1]}
<1> DEFINE L == Len(dirs)
           Below(A, n) == UNION {{t.id : t \in Folders(T, id, dirs[n])} : id \in A}
           Good(g, k) == g = [n \in 0 .. k |-> IF n = 0 THEN roots ELSE Below(g[n - 1], n)]
           Can == {k \in Nat : \E g : Good(g, k)}
           at == Along(T, roots, dirs)
<1> HIDE DEF Below
<1>1. 0 \in Can
    <2>1. Good([n \in 0 .. 0 |-> roots], 0)
        OBVIOUS
    <2>2. QED
        BY <2>1
<1>2. ASSUME NEW k \in Nat, k \in Can
      PROVE  k + 1 \in Can
    <2>1. PICK g : Good(g, k)
        BY <1>2
    <2> DEFINE h == [n \in 0 .. k + 1 |-> IF n <= k THEN g[n] ELSE Below(g[k], k + 1)]
    <2>2. \A n \in 0 .. k + 1 : h[n] = IF n = 0 THEN roots ELSE Below(h[n - 1], n)
        <3> TAKE n \in 0 .. k + 1
        <3>1. CASE n = 0
            BY <2>1, <3>1
        <3>2. CASE n # 0 /\ n <= k
            BY <2>1, <3>2
        <3>3. CASE n = k + 1
            BY <2>1, <3>3
        <3>4. QED
            BY <3>1, <3>2, <3>3
    <2> HIDE DEF h
    <2>3. h = [n \in 0 .. k + 1 |-> h[n]]
        BY DEF h
    <2>4. Good(h, k + 1)
        BY <2>2, <2>3
    <2>5. QED
        BY <2>4
<1>3. L \in Can
    <2>1. Nat \subseteq Can
        <3> HIDE DEF Can
        <3>1. QED
            BY <1>1, <1>2, Induction
    <2>2. QED
        BY <2>1
<1>4. at = CHOOSE g : Good(g, L)
    BY DEF Along, Below
<1>5. Good(at, L)
    BY <1>3, <1>4
<1>6. QED
    <2>1. at[0] = roots
        BY <1>5
    <2>2. \A n \in 1 .. L : at[n] = Below(at[n - 1], n)
        BY <1>5
    <2>3. QED
        BY <2>1, <2>2 DEF Below

\* The same, element by element.
LEMMA AlongStep ==
    ASSUME NEW T, NEW roots, NEW dirs, Len(dirs) \in Nat, NEW n \in 1 .. Len(dirs), NEW id
    PROVE  id \in Along(T, roots, dirs)[n] <=>
            \E t \in T : /\ t.folder /\ t.id = id /\ t.name = dirs[n]
                       /\ t.in \in Along(T, roots, dirs)[n - 1]
BY AlongDef DEF Folders, Children

\* More folders and more roots lead further, and renamed files change nothing.
LEMMA AlongGrows ==
    ASSUME NEW T, NEW T2, NEW roots, NEW roots2, NEW dirs, Len(dirs) \in Nat,
           \A t \in T : t.folder => t \in T2, roots \subseteq roots2
    PROVE  \A n \in 0 .. Len(dirs) : Along(T, roots, dirs)[n] \subseteq Along(T2, roots2, dirs)[n]
<1> DEFINE A == Along(T, roots, dirs)
           B == Along(T2, roots2, dirs)
           S == {n \in Nat : n <= Len(dirs) => A[n] \subseteq B[n]}
<1>1. 0 \in S
    BY AlongDef
<1>2. ASSUME NEW n \in Nat, n \in S
      PROVE  n + 1 \in S
    <2>1. SUFFICES ASSUME n + 1 <= Len(dirs), NEW id \in A[n + 1]
                   PROVE  id \in B[n + 1]
        OBVIOUS
    <2>2. n + 1 \in 1 .. Len(dirs) /\ (n + 1) - 1 = n /\ A[n] \subseteq B[n]
        BY <1>2, <2>1
    <2> HIDE DEF A, B
    <2>3. PICK t \in T : t.folder /\ t.id = id /\ t.name = dirs[n + 1] /\ t.in \in A[n]
        BY <2>1, <2>2, AlongStep DEF A
    <2>4. QED
        BY <2>2, <2>3, AlongStep DEF B
<1> HIDE DEF S
<1>3. Nat \subseteq S
    BY <1>1, <1>2, Induction
<1>4. QED
    BY <1>3 DEF S

\* Past the roots there are only ids of folders.
LEMMA AlongFolders ==
    ASSUME NEW T, NEW roots, NEW dirs, Len(dirs) \in Nat,
           NEW n \in 0 .. Len(dirs), NEW id \in Along(T, roots, dirs)[n]
    PROVE  id \in roots \/ \E t \in T : t.id = id /\ t.folder
<1>1. CASE n = 0
    BY <1>1, AlongDef
<1>2. CASE n \in 1 .. Len(dirs)
    BY <1>2, AlongStep
<1>3. QED
    BY <1>1, <1>2

\* Without two folders of one name a path leads to one place.
Lone(S) == \A x, y \in S : x = y

\* Without ambiguous names one root leads to at most one folder a segment.
LEMMA AlongLone ==
    ASSUME NEW T, NEW roots, NEW dirs, Len(dirs) \in Nat, ~Ambiguous(T), Lone(roots)
    PROVE  \A n \in 0 .. Len(dirs) : Lone(Along(T, roots, dirs)[n])
<1> DEFINE A == Along(T, roots, dirs)
           S == {n \in Nat : n <= Len(dirs) => Lone(A[n])}
<1>1. 0 \in S
    BY AlongDef
<1>2. ASSUME NEW n \in Nat, n \in S
      PROVE  n + 1 \in S
    <2>1. SUFFICES ASSUME n + 1 <= Len(dirs), NEW x \in A[n + 1], NEW y \in A[n + 1]
                   PROVE  x = y
        BY DEF Lone
    <2>2. n + 1 \in 1 .. Len(dirs) /\ (n + 1) - 1 = n /\ Lone(A[n])
        BY <1>2, <2>1
    <2> HIDE DEF A
    <2>3. PICK t \in T : t.folder /\ t.id = x /\ t.name = dirs[n + 1] /\ t.in \in A[n]
        BY <2>1, <2>2, AlongStep DEF A
    <2>4. PICK u \in T : u.folder /\ u.id = y /\ u.name = dirs[n + 1] /\ u.in \in A[n]
        BY <2>1, <2>2, AlongStep DEF A
    <2>5. QED
        BY <2>2, <2>3, <2>4 DEF Lone, Ambiguous
<1> HIDE DEF S
<1>3. Nat \subseteq S
    BY <1>1, <1>2, Induction
<1>4. QED
    BY <1>3 DEF S

\* Where a path has led to nothing it leads nowhere.
LEMMA AlongEnds ==
    ASSUME NEW T, NEW roots, NEW dirs, Len(dirs) \in Nat,
           NEW k \in 0 .. Len(dirs), Along(T, roots, dirs)[k] = {}
    PROVE  Reached(T, roots, dirs) = {}
<1> DEFINE A == Along(T, roots, dirs)
           S == {n \in Nat : n >= k /\ n <= Len(dirs) => A[n] = {}}
<1>1. 0 \in S
    OBVIOUS
<1>2. ASSUME NEW n \in Nat, n \in S
      PROVE  n + 1 \in S
    <2>1. SUFFICES ASSUME n + 1 >= k, n + 1 <= Len(dirs), n + 1 # k
                   PROVE  A[n + 1] = {}
        OBVIOUS
    <2>2. n + 1 \in 1 .. Len(dirs) /\ (n + 1) - 1 = n /\ A[n] = {}
        BY <1>2, <2>1
    <2> HIDE DEF A
    <2>3. QED
        BY <2>2, AlongStep DEF A
<1> HIDE DEF S
<1>3. Nat \subseteq S
    BY <1>1, <1>2, Induction
<1>4. QED
    BY <1>3 DEF S, Reached

\* Who leaves folders in place with what is above them leaves the path to them.
LEMMA AlongSurvives ==
    ASSUME NEW T, NEW T2, NEW roots, NEW roots2, NEW dirs, Len(dirs) \in Nat,
           \A t, u \in T : t.id = u.id => t = u,
           T2 \subseteq T,
           \A id \in roots : id \in roots2 \/ ~\E t \in T2 : t.id = id \/ t.in = id,
           \A t \in T2, u \in T : t.in = u.id => u \in T2
    PROVE  \A n \in 0 .. Len(dirs) : \A id \in Along(T, roots, dirs)[n] :
                \/ id \in Along(T2, roots2, dirs)[n]
                \/ ~\E t \in T2 : t.id = id \/ t.in = id
<1> DEFINE A == Along(T, roots, dirs)
           B == Along(T2, roots2, dirs)
           S == {n \in Nat : n <= Len(dirs) =>
                    \A id \in A[n] : id \in B[n] \/ ~\E t \in T2 : t.id = id \/ t.in = id}
<1>1. 0 \in S
    BY AlongDef
<1>2. ASSUME NEW n \in Nat, n \in S
      PROVE  n + 1 \in S
    <2>1. SUFFICES ASSUME n + 1 <= Len(dirs), NEW id \in A[n + 1],
                          NEW v \in T2, v.id = id \/ v.in = id
                   PROVE  id \in B[n + 1]
        OBVIOUS
    <2>2. n + 1 \in 1 .. Len(dirs) /\ (n + 1) - 1 = n
        BY <2>1
    <2>3. \A x \in A[n] : x \in B[n] \/ ~\E t \in T2 : t.id = x \/ t.in = x
        BY <1>2, <2>1
    <2> HIDE DEF A, B
    <2>4. PICK t \in T : t.folder /\ t.id = id /\ t.name = dirs[n + 1] /\ t.in \in A[n]
        BY <2>1, <2>2, AlongStep DEF A
    <2>5. t \in T2
        BY <2>1, <2>4
    <2>6. t.in \in B[n]
        BY <2>3, <2>4, <2>5
    <2>7. QED
        BY <2>2, <2>4, <2>5, <2>6, AlongStep DEF B
<1> HIDE DEF S
<1>3. Nat \subseteq S
    BY <1>1, <1>2, Induction
<1>4. QED
    BY <1>3 DEF S

\* A path from the top through a folder is one from that folder.
Longer(all, r, dirs) ==
    /\ Len(dirs) \in Nat /\ Len(all) = Len(dirs) + 1
    /\ all[1] = r /\ \A n \in 1 .. Len(dirs) : all[n + 1] = dirs[n]
Starts(T, r, top, roots) ==
    /\ \A x : x \in top <=> x = Top
    /\ \A x : x \in roots <=> \E t \in Folders(T, Top, r) : t.id = x

\* The way from the second segment on, from the folders after the first.
LEMMA AlongTail ==
    ASSUME NEW T, NEW r, NEW dirs, NEW all, NEW top, NEW roots,
           Longer(all, r, dirs), Starts(T, r, top, roots)
    PROVE  Reached(T, top, all) = Reached(T, roots, dirs)
<1> DEFINE A == Along(T, top, all)
           B == Along(T, roots, dirs)
           S == {n \in Nat : n <= Len(dirs) => A[n + 1] = B[n]}
<1>1. /\ Len(all) = Len(dirs) + 1 /\ Len(dirs) \in Nat /\ Len(all) \in Nat
      /\ all[1] = r /\ \A n \in 1 .. Len(dirs) : all[n + 1] = dirs[n]
    BY DEF Longer
<1> HIDE DEF A, B
<1>2. /\ A[0] = top
      /\ \A n \in 1 .. Len(all) : \A id : id \in A[n] <=>
            \E t \in T : t.folder /\ t.id = id /\ t.name = all[n] /\ t.in \in A[n - 1]
    BY <1>1, AlongDef, AlongStep DEF A
<1>3. /\ B[0] = roots
      /\ \A n \in 1 .. Len(dirs) : \A id : id \in B[n] <=>
            \E t \in T : t.folder /\ t.id = id /\ t.name = dirs[n] /\ t.in \in B[n - 1]
    BY <1>1, AlongDef, AlongStep DEF B
<1>4. 0 \in S
    <2>1. 1 \in 1 .. Len(all) /\ 1 - 1 = 0
        BY <1>1
    <2>2. \A id : id \in A[1] <=> \E t \in T : t.folder /\ t.id = id /\ t.name = all[1] /\ t.in \in A[1 - 1]
        BY <1>2, <2>1
    <2>3. \A id : id \in A[1] <=> id \in B[0]
        BY <1>1, <1>2, <1>3, <2>1, <2>2 DEF Folders, Children, Starts
    <2>4. A[1] = B[0]
        BY <2>3
    <2>5. QED
        BY <2>4
<1>5. ASSUME NEW n \in Nat, n \in S
      PROVE  n + 1 \in S
    <2>1. SUFFICES ASSUME n + 1 <= Len(dirs)
                   PROVE  A[n + 2] = B[n + 1]
        OBVIOUS
    <2>2. /\ n + 1 \in 1 .. Len(dirs) /\ (n + 1) - 1 = n
          /\ n + 2 \in 1 .. Len(all) /\ (n + 2) - 1 = n + 1 /\ A[n + 1] = B[n]
          /\ all[n + 2] = dirs[n + 1]
        BY <1>1, <1>5, <2>1
    <2>3. \A id : id \in A[n + 2] <=> \E t \in T : /\ t.folder /\ t.id = id /\ t.name = all[n + 2]
                                                    /\ t.in \in A[(n + 2) - 1]
        BY ONLY <1>2, <2>2
    <2>4. \A id : id \in B[n + 1] <=> \E t \in T : /\ t.folder /\ t.id = id /\ t.name = dirs[n + 1]
                                                    /\ t.in \in B[(n + 1) - 1]
        BY ONLY <1>3, <2>2
    <2>5. \A id : id \in A[n + 2] <=> id \in B[n + 1]
        BY ONLY <2>2, <2>3, <2>4
    <2>6. QED
        BY ONLY <2>5
<1> HIDE DEF S
<1>6. Nat \subseteq S
    BY <1>4, <1>5, Induction
<1>7. A[Len(dirs) + 1] = B[Len(dirs)]
    BY <1>1, <1>6 DEF S
<1>8. QED
    BY <1>1, <1>7 DEF Reached, A, B

\* A path from the top whose first segment leads to the roots is the path from these.
LEMMA AlongShift ==
    ASSUME NEW T, NEW r \in AnyName, NEW dirs \in Seq(Names)
    PROVE  Reached(T, {Top}, <<r>> \o dirs) = Reached(T, {t.id : t \in Folders(T, Top, r)}, dirs)
<1>1. Longer(<<r>> \o dirs, r, dirs)
    BY DEF AnyName, Longer
<1>2. Starts(T, r, {Top}, {t.id : t \in Folders(T, Top, r)})
    BY DEF Starts
<1>3. QED
    BY <1>1, <1>2, AlongTail

\* What a path leads to is known by a number.
LEMMA PathIds ==
    ASSUME NEW T \in SUBSET Thing, NEW k \in Asked,
           NEW id \in Reached(T, {Top}, <<RootName>> \o k.dirs)
    PROVE  id \in Nat
<1>1. k.dirs \in Seq(Names) /\ RootName \in AnyName
    BY DEF Asked, AnyName
<1> DEFINE roots == {t.id : t \in Folders(T, Top, RootName)}
<1>2. id \in Reached(T, roots, k.dirs)
    BY <1>1, AlongShift
<1>3. roots \subseteq Nat
    BY DEF Folders, Children, Thing
<1> HIDE DEF roots
<1>4. Len(k.dirs) \in 0 .. Len(k.dirs) /\ Len(k.dirs) \in Nat
    BY <1>1
<1>5. id \in roots \/ \E t \in T : t.id = id /\ t.folder
    BY <1>2, <1>4, AlongFolders DEF Reached
<1>6. QED
    BY <1>3, <1>5 DEF Thing

-------------------------------------------------------------------------------
\* What a step of c does with the other clients: nothing.
Aside(c) ==
    \A d \in Client \ {c} :
        /\ pc'[d] = pc[d] /\ call'[d] = call[d] /\ profile'[d] = profile[d]
        /\ dirty'[d] = dirty[d] /\ rest'[d] = rest[d] /\ here'[d] = here[d]
        /\ got'[d] = got[d] /\ checked'[d] = checked[d] /\ reply'[d] = reply[d]
        /\ sent'[d] = sent[d] /\ result'[d] = result[d]

\* What every answer to a request leaves: the call goes on with another request,
\* or ends; tokens stay as they are.
Answered(c) ==
    /\ ClientType' /\ Aside(c)
    /\ UNCHANGED <<provider, issued, accepted, session, clock>>
    /\ Waiting(c) /\ pc'[c] \notin {"idle", "probe"}
    /\ pc'[c] \in {"walk", "mkdir"} => rest'[c] # <<>>
    /\ call'[c] = call[c] /\ ~checked'[c] /\ reply'[c] = None
    /\ pc'[c] # "report" => sent'[c] = clock
    /\ \/ profile'[c] = profile[c]
       \/ /\ pc[c] \in {"root", "mkroot"}
          /\ \E id \in Nat : profile'[c] = [profile[c] EXCEPT !.root_id = id]

\* The parts of ClientType when a step changes what belongs to one client.
LEMMA GoTypes ==
    ASSUME ClientType, clock \in Nat, NEW c \in Client, NEW next \in Stages \ {"idle", "probe"}, Go(c, next)
    PROVE  /\ pc' \in [Client -> Stages] /\ checked' \in [Client -> BOOLEAN]
           /\ sent' \in [Client -> Nat] /\ result' = [d \in Client |-> result'[d]]
           /\ pc'[c] = next /\ ~checked'[c] /\ sent'[c] = clock
           /\ \A d \in Client \ {c} : /\ pc'[d] = pc[d] /\ checked'[d] = checked[d]
                                      /\ sent'[d] = sent[d] /\ result'[d] = result[d]
BY DEF ClientType, Go

\* ... when the call returns.
LEMMA ReturnTypes ==
    ASSUME ClientType, NEW c \in Client, NEW r, Return(c, r)
    PROVE  /\ pc' \in [Client -> Stages] /\ checked' \in [Client -> BOOLEAN]
           /\ sent' \in [Client -> Nat] /\ result' = [d \in Client |-> result'[d]]
           /\ pc'[c] = "report" /\ ~checked'[c] /\ result'[c] = r
           /\ \A d \in Client \ {c} : /\ pc'[d] = pc[d] /\ checked'[d] = checked[d]
                                      /\ sent'[d] = sent[d] /\ result'[d] = result[d]
<1>1. "report" \in Stages
    BY DEF Stages
<1>2. QED
    BY <1>1 DEF ClientType, Return

\* What Go and Return leave, whichever of them it is.
Moved(c) ==
    /\ pc' \in [Client -> Stages] /\ checked' \in [Client -> BOOLEAN]
    /\ sent' \in [Client -> Nat] /\ result' = [d \in Client |-> result'[d]]
    /\ pc'[c] \notin {"idle", "probe"} /\ ~checked'[c]
    /\ pc'[c] # "report" => sent'[c] = clock
    /\ \A d \in Client \ {c} : /\ pc'[d] = pc[d] /\ checked'[d] = checked[d]
                               /\ sent'[d] = sent[d] /\ result'[d] = result[d]

\* A step that goes on, or returns, touches its own client only.
LEMMA GoMoves ==
    ASSUME ClientType, clock \in Nat, NEW c \in Client, NEW next \in Stages \ {"idle", "probe"}, Go(c, next)
    PROVE  Moved(c) /\ pc'[c] = next
BY GoTypes DEF Moved

\* ... and when it returns.
LEMMA ReturnMoves ==
    ASSUME ClientType, NEW c \in Client, NEW r, Return(c, r)
    PROVE  Moved(c) /\ pc'[c] = "report" /\ result'[c] = r
BY ReturnTypes DEF Moved

\* Reaching a folder: with segments left the walk goes on.
LEMMA ReachMoves ==
    ASSUME ClientType, clock \in Nat, NEW c \in Client, NEW id \in Nat, NEW left \in Seq(AnyName),
           Reach(c, id, left)
    PROVE  /\ Moved(c)
           /\ rest' \in [Client -> Seq(AnyName)] /\ here' \in [Client -> Nat \union {None}]
           /\ \A d \in Client \ {c} : rest'[d] = rest[d] /\ here'[d] = here[d]
           /\ rest'[c] = left /\ here'[c] = id
           /\ \/ left # <<>> /\ pc'[c] = "walk"
              \/ left = <<>> /\ call[c].op = "list" /\ pc'[c] = "page"
              \/ left = <<>> /\ call[c].op = "ensure" /\ pc'[c] = "report" /\ result'[c] = "ok"
              \/ left = <<>> /\ call[c].op \in {"download", "delete"} /\ pc'[c] = "leaf"
<1>1. /\ rest' \in [Client -> Seq(AnyName)] /\ here' \in [Client -> Nat \union {None}]
      /\ \A d \in Client \ {c} : rest'[d] = rest[d] /\ here'[d] = here[d]
      /\ rest'[c] = left /\ here'[c] = id
    BY DEF Reach, ClientType
<1>2. {"walk", "page", "leaf"} \subseteq Stages \ {"idle", "probe"}
    BY DEF Stages
<1>3. CASE left # <<>> /\ Go(c, "walk")
    BY <1>1, <1>2, <1>3, GoMoves
<1>4. CASE left = <<>> /\ call[c].op = "list" /\ Go(c, "page")
    BY <1>1, <1>2, <1>4, GoMoves
<1>5. CASE left = <<>> /\ call[c].op = "ensure" /\ Return(c, "ok")
    BY <1>1, <1>5, ReturnMoves
<1>6. CASE left = <<>> /\ call[c].op \in {"download", "delete"} /\ Go(c, "leaf")
    BY <1>1, <1>2, <1>6, GoMoves
<1>7. QED
    BY <1>3, <1>4, <1>5, <1>6 DEF Reach

\* Requests that change nothing but where the call stands.
LEMMA PlainAnswers ==
    ASSUME TypeInv, NEW c \in Client,
           RefreshRefused(c) \/ Unauthorized(c) \/ Fails(c) \/ Begin(c) \/ Probe(c)
    PROVE  Answered(c)
<1> USE DEF TypeInv, ServiceType
<1>1. ASSUME Moved(c), Waiting(c), pc'[c] \notin {"walk", "mkdir"},
             UNCHANGED <<service, clock, call, profile, dirty, rest, here, got>>,
             (reply' = reply /\ reply[c] = None) \/ reply' = [reply EXCEPT ![c] = None]
      PROVE  Answered(c)
    <2>1. reply' \in [Client -> TokenAnswer \union {None}] /\ reply'[c] = None
          /\ \A d \in Client \ {c} : reply'[d] = reply[d]
        BY <1>1 DEF ClientType
    <2>2. ClientType'
        BY <1>1, <2>1 DEF ClientType, Moved
    <2>3. QED
        BY <1>1, <2>1, <2>2 DEF Answered, Aside, Moved, service
<1>2. {"root", "page"} \subseteq Stages \ {"idle", "probe"}
    BY DEF Stages
<1>3. CASE RefreshRefused(c)
    BY <1>1, <1>3, ReturnMoves DEF RefreshRefused, TokenFirst, Waiting
<1>4. CASE Unauthorized(c)
    BY <1>1, <1>4, ReturnMoves DEF Unauthorized, Ready, At, Request, Waiting
<1>5. CASE Fails(c)
    BY <1>1, <1>5, ReturnMoves DEF Fails, TokenFirst, Request, Waiting
<1>6. CASE Begin(c)
    BY <1>1, <1>2, <1>6, GoMoves DEF Begin, Ready, At, Waiting
<1>7. CASE Probe(c)
    BY <1>1, <1>2, <1>7, GoMoves, ReturnMoves DEF Probe, Send, Ready, At, Waiting
<1>8. QED
    BY <1>3, <1>4, <1>5, <1>6, <1>7

\* Requests about the root folder.
LEMMA RootAnswers ==
    ASSUME TypeInv, NEW c \in Client, CachedRoot(c) \/ FindRoot(c) \/ CreateRoot(c)
    PROVE  Answered(c)
<1> USE DEF TypeInv, ServiceType
<1>1. Waiting(c) /\ reply[c] = None /\ pc[c] \in {"root", "mkroot"}
    BY DEF CachedRoot, FindRoot, CreateRoot, Send, Ready, At, Waiting
<1>2. rest[c] \in Seq(AnyName) /\ profile[c] \in Account
    BY <1>1 DEF ClientType, Started, Waiting
<1>3. UNCHANGED <<provider, issued, accepted, session, clock, call, got, reply>>
    BY DEF CachedRoot, FindRoot, CreateRoot, service
<1>4. ASSUME Moved(c), UNCHANGED <<profile, dirty, rest, here>>, pc'[c] \notin {"walk", "mkdir"}
      PROVE  Answered(c)
    <2>1. ClientType'
        BY <1>3, <1>4 DEF ClientType, Moved
    <2>2. QED
        BY <1>1, <1>3, <1>4, <2>1 DEF Answered, Aside, Moved, ClientType
<1>5. ASSUME NEW id \in Nat, KeepRoot(c, id)
      PROVE  Answered(c)
    <2>1. /\ profile' \in [Client -> Account \union {None}]
          /\ profile'[c] = [profile[c] EXCEPT !.root_id = id]
          /\ \A d \in Client \ {c} : profile'[d] = profile[d] /\ dirty'[d] = dirty[d]
          /\ dirty' \in [Client -> BOOLEAN]
        BY <1>2, <1>5 DEF KeepRoot, ClientType, Account
    <2>2. Reach(c, id, rest[c])
        BY <1>5 DEF KeepRoot
    <2>3. /\ Moved(c)
          /\ pc'[c] \in {"walk", "mkdir"} => rest'[c] # <<>>
          /\ rest' \in [Client -> Seq(AnyName)] /\ here' \in [Client -> Nat \union {None}]
          /\ \A d \in Client \ {c} : rest'[d] = rest[d] /\ here'[d] = here[d]
        BY <1>2, <2>2, ReachMoves
    <2>4. ClientType'
        BY <1>3, <2>1, <2>3 DEF ClientType, Moved
    <2>5. QED
        BY <1>1, <1>3, <2>1, <2>3, <2>4 DEF Answered, Aside, Moved
<1>6. CASE CachedRoot(c)
    <2>1. profile[c].root_id \in Nat
        BY <1>2, <1>6 DEF CachedRoot, Account
    <2>2. /\ Moved(c)
          /\ pc'[c] \in {"walk", "mkdir"} => rest'[c] # <<>>
          /\ rest' \in [Client -> Seq(AnyName)] /\ here' \in [Client -> Nat \union {None}]
          /\ \A d \in Client \ {c} : rest'[d] = rest[d] /\ here'[d] = here[d]
        BY <1>2, <1>6, <2>1, ReachMoves DEF CachedRoot
    <2>3. UNCHANGED <<profile, dirty>>
        BY <1>6 DEF CachedRoot
    <2>4. ClientType'
        BY <1>3, <2>2, <2>3 DEF ClientType, Moved
    <2>5. QED
        BY <1>1, <1>3, <2>2, <2>3, <2>4 DEF Answered, Aside, Moved
<1>7. CASE FindRoot(c)
    <2>1. CASE \E t \in Folders(things, Top, RootName) : KeepRoot(c, t.id)
        BY <1>5, <2>1 DEF Folders, Children, Thing
    <2>2. CASE Go(c, "mkroot") /\ UNCHANGED <<profile, dirty, rest, here>>
        BY <1>4, <2>2, GoMoves DEF Stages
    <2>3. QED
        BY <1>7, <2>1, <2>2 DEF FindRoot
<1>8. CASE CreateRoot(c)
    <2>1. CASE KeepRoot(c, used.ids + 1)
        BY <1>5, <2>1
    <2>2. CASE Return(c, Taken) /\ UNCHANGED <<profile, dirty, rest, here>>
        BY <1>4, <2>2, ReturnMoves
    <2>3. QED
        BY <1>8, <2>1, <2>2 DEF CreateRoot
<1>9. QED
    BY <1>6, <1>7, <1>8

\* Requests that resolve or make the segments of a path.
LEMMA WalkAnswers ==
    ASSUME TypeInv, NEW c \in Client, Walk(c) \/ CreateFolder(c) \/ MakeFolder(c)
    PROVE  Answered(c)
<1> USE DEF TypeInv, ServiceType
<1>1. Waiting(c) /\ reply[c] = None /\ pc[c] \in {"walk", "mkdir"}
    BY DEF Walk, CreateFolder, MakeFolder, Send, Ready, At, Waiting
<1>2. rest[c] \in Seq(AnyName) /\ rest[c] # <<>> /\ Tail(rest[c]) \in Seq(AnyName)
    BY <1>1 DEF ClientType, Started
<1>3. UNCHANGED <<provider, issued, accepted, session, clock, call, profile, dirty, got, reply>>
    BY DEF Walk, CreateFolder, MakeFolder, service
<1>4. ASSUME Moved(c), rest' \in [Client -> Seq(AnyName)], here' \in [Client -> Nat \union {None}],
             \A d \in Client \ {c} : rest'[d] = rest[d] /\ here'[d] = here[d],
             pc'[c] \in {"walk", "mkdir"} => rest'[c] # <<>>
      PROVE  Answered(c)
    <2>1. ClientType'
        BY <1>3, <1>4 DEF ClientType, Moved
    <2>2. QED
        BY <1>1, <1>3, <1>4, <2>1 DEF Answered, Aside, Moved
<1>5. ASSUME Moved(c), UNCHANGED <<rest, here>>
      PROVE  Answered(c)
    BY <1>2, <1>4, <1>5 DEF ClientType
<1>6. ASSUME NEW id \in Nat, Descend(c, id)
      PROVE  Answered(c)
    BY <1>2, <1>4, <1>6, ReachMoves DEF Descend
<1>7. CASE Walk(c)
    <2>1. CASE \E t \in Folders(things, here[c], Head(rest[c])) : Descend(c, t.id)
        BY <1>6, <2>1 DEF Folders, Children, Thing
    <2>2. CASE Go(c, "mkdir") /\ UNCHANGED <<rest, here>>
        BY <1>5, <2>2, GoMoves DEF Stages
    <2>3. CASE (\E r : Return(c, r)) /\ UNCHANGED <<rest, here>>
        BY <1>5, <2>3, ReturnMoves
    <2>4. QED
        BY <1>7, <2>1, <2>2, <2>3 DEF Walk
<1>8. CASE CreateFolder(c)
    <2>1. CASE Descend(c, used.ids + 1)
        BY <1>6, <2>1
    <2>2. CASE (\E r : Return(c, r)) /\ UNCHANGED <<rest, here>>
        BY <1>5, <2>2, ReturnMoves
    <2>3. QED
        BY <1>8, <2>1, <2>2 DEF CreateFolder
<1>9. CASE MakeFolder(c)
    <2>1. rest' = [rest EXCEPT ![c] = Tail(@)] /\ here' = here
        BY <1>9 DEF MakeFolder
    <2>2. rest'[c] = Tail(rest[c]) /\ rest' \in [Client -> Seq(AnyName)]
          /\ \A d \in Client \ {c} : rest'[d] = rest[d]
        BY <1>2, <2>1 DEF ClientType
    <2>3. CASE Len(rest[c]) = 1 /\ Return(c, "ok")
        BY <1>4, <2>1, <2>2, <2>3, ReturnMoves DEF ClientType
    <2>4. CASE Len(rest[c]) # 1 /\ Go(c, "mkdir")
        <3>1. Len(rest'[c]) = Len(rest[c]) - 1 /\ Len(rest[c]) # 0
            BY <1>2, <2>2
        <3>2. rest'[c] # <<>>
            <4>1. Len(rest[c]) \in Nat
                BY <1>2
            <4>2. Len(rest'[c]) # 0
                BY <2>4, <3>1, <4>1
            <4>3. Len(<<>>) = 0
                OBVIOUS
            <4>4. QED
                BY <4>2, <4>3
        <3>3. QED
            BY <1>4, <2>1, <2>2, <2>4, <3>2, GoMoves DEF Stages, ClientType
    <2>5. QED
        BY <1>9, <2>3, <2>4 DEF MakeFolder
<1>10. QED
    BY <1>7, <1>8, <1>9

\* Requests about the file or folder that the path names.
LEMMA EndAnswers ==
    ASSUME TypeInv, NEW c \in Client, Leaf(c) \/ Get(c) \/ Delete(c) \/ Page(c)
    PROVE  Answered(c)
<1> USE DEF TypeInv, ServiceType
<1>1. Waiting(c) /\ reply[c] = None
    BY DEF Leaf, Get, Delete, Page, Send, Ready, At, Waiting
<1>2. UNCHANGED <<provider, issued, accepted, session, clock, call, profile, dirty, rest, reply>>
    BY DEF Leaf, Get, Delete, Page, service
<1>3. ASSUME Moved(c), here' \in [Client -> Nat \union {None}], got' = [d \in Client |-> got'[d]],
             \A d \in Client \ {c} : here'[d] = here[d] /\ got'[d] = got[d],
             pc'[c] \notin {"walk", "mkdir"}
      PROVE  Answered(c)
    <2>1. ClientType'
        BY <1>2, <1>3 DEF ClientType, Moved
    <2>2. QED
        BY <1>1, <1>2, <1>3, <2>1 DEF Answered, Aside, Moved
<1>4. ASSUME NEW g, got' = [got EXCEPT ![c] = g]
      PROVE  got' = [d \in Client |-> got'[d]] /\ \A d \in Client \ {c} : got'[d] = got[d]
    BY <1>4 DEF ClientType
<1>5. ASSUME NEW id \in Nat, here' = [here EXCEPT ![c] = id]
      PROVE  here' \in [Client -> Nat \union {None}] /\ \A d \in Client \ {c} : here'[d] = here[d]
    BY <1>5 DEF ClientType
<1>6. {"get", "remove", "page"} \subseteq Stages \ {"idle", "probe"}
    BY DEF Stages
<1>7. CASE Leaf(c)
    <2>1. got' = got
        BY <1>7 DEF Leaf
    <2>2. CASE (\E r : Return(c, r)) /\ UNCHANGED here
        BY <1>3, <2>1, <2>2, ReturnMoves DEF ClientType
    <2>3. CASE \E t \in Found(c) :
                /\ here' = [here EXCEPT ![c] = t.id]
                /\ (\E r : Return(c, r)) \/ Go(c, "get") \/ Go(c, "remove")
        <3>1. PICK t \in Found(c) :
                /\ here' = [here EXCEPT ![c] = t.id]
                /\ (\E r : Return(c, r)) \/ Go(c, "get") \/ Go(c, "remove")
            BY <2>3
        <3>2. t.id \in Nat
            BY DEF Found, Children, Thing
        <3>3. QED
            <4>1. Moved(c) /\ pc'[c] \notin {"walk", "mkdir"}
                BY <1>6, <3>1, GoMoves, ReturnMoves
            <4>2. QED
                BY <1>3, <1>5, <2>1, <3>1, <3>2, <4>1 DEF ClientType
    <2>4. QED
        BY <1>7, <2>2, <2>3 DEF Leaf
<1>8. CASE Get(c)
    <2>1. here' = here /\ (\E r : Return(c, r)) /\ (got' = got \/ \E g : got' = [got EXCEPT ![c] = g])
        BY <1>8 DEF Get
    <2>2. QED
        BY <1>3, <1>4, <2>1, ReturnMoves DEF ClientType
<1>9. CASE Delete(c)
    <2>1. here' = here /\ (\E r : Return(c, r)) /\ (got' = got \/ \E g : got' = [got EXCEPT ![c] = g])
        BY <1>9 DEF Delete
    <2>2. QED
        BY <1>3, <1>4, <2>1, ReturnMoves DEF ClientType
<1>10. CASE Page(c)
    <2>1. ASSUME NEW id \in PageOf(c), id \in Nat, here' = [here EXCEPT ![c] = id],
                 \E g : got' = [got EXCEPT ![c] = g], Go(c, "page") \/ \E r : Return(c, r)
          PROVE  Answered(c)
        BY <1>3, <1>4, <1>5, <1>6, <2>1, GoMoves, ReturnMoves
    <2>2. \A id \in PageOf(c) : id \in Nat
        <3>1. ASSUME NEW id \in Reached(things, {Top}, <<RootName>> \o call[c].dirs)
              PROVE  id \in Nat
            <4>1. call[c] \in Asked
                BY <1>1 DEF ClientType, Started, Waiting
            <4>2. QED
                BY <3>1, <4>1, PathIds
        <3>2. QED
            BY <3>1 DEF PageOf, ClientType
    <2>3. CASE (\E r : Return(c, r)) /\ UNCHANGED <<got, here>>
        BY <1>3, <2>3, ReturnMoves DEF ClientType
    <2>4. QED
        BY <1>10, <2>1, <2>2, <2>3 DEF Page
<1>11. QED
    BY <1>7, <1>8, <1>9, <1>10

-------------------------------------------------------------------------------
\* None is none of the values it stands in for.
LEMMA NoneIsNothing ==
    None \notin Nat /\ None \notin Names /\ None \notin Asked /\ None \notin Account /\ None \notin TokenAnswer
BY ProviderAssumption

\* The constants are numbers, and the skew covers both delays.
LEMMA Numbers ==
    /\ EXPIRY_SKEW \in Nat /\ REFRESH_TIMEOUT \in Nat /\ TRANSIT \in Nat
    /\ LIFETIME \in Nat /\ LIFETIME > EXPIRY_SKEW /\ REFRESH_TIMEOUT + TRANSIT <= EXPIRY_SKEW
    /\ PAGE_SIZE \in Nat \ {0}
BY ProviderAssumption

\* The number of the next refresh token.
LEMMA CountTokens == ASSUME ServiceType PROVE Cardinality(accepted) + 1 \in Nat
BY FS_CardinalityType DEF ServiceType

\* What a step on the token of c leaves.
Tokens(c) ==
    /\ ClientType' /\ Aside(c)
    /\ UNCHANGED <<provider, things, session, clock>>
    /\ UNCHANGED <<pc, call, rest, here, got, result>>
    /\ TokenFirst(c) /\ sent'[c] = clock
    /\ ~checked[c]

\* A token that is fresh enough passes the check.
LEMMA FreshTokenStep ==
    ASSUME TypeInv, NEW c \in Client, FreshToken(c)
    PROVE  /\ Tokens(c) /\ UNCHANGED <<issued, accepted, profile, dirty, reply>>
           /\ checked'[c] /\ reply[c] = None
<1> USE DEF TypeInv, ServiceType, FreshToken, service
<1>1. /\ checked' \in [Client -> BOOLEAN] /\ sent' \in [Client -> Nat]
      /\ \A d \in Client \ {c} : checked'[d] = checked[d] /\ sent'[d] = sent[d]
      /\ checked'[c] /\ sent'[c] = clock
    BY DEF ClientType
<1>2. ClientType'
    BY <1>1 DEF ClientType
<1>3. QED
    BY <1>1, <1>2 DEF Tokens, Aside

\* The endpoint answers with a token, and with a refresh token it accepts or none.
LEMMA RefreshIssuedStep ==
    ASSUME TypeInv, NEW c \in Client, RefreshIssued(c)
    PROVE  /\ Tokens(c) /\ UNCHANGED <<profile, dirty, checked>>
           /\ issued' = Append(issued, clock + LIFETIME)
           /\ reply[c] = None /\ profile[c].refresh \in accepted
           /\ \E r \in TokenAnswer :
                /\ reply'[c] = r /\ r.access = Len(issued')
                /\ \/ accepted' = accepted /\ r.refresh = None
                   \/ r.refresh \in Nat /\ accepted' = accepted \union {r.refresh}
<1> USE DEF TypeInv, ServiceType
<1>1. sent' \in [Client -> Nat] /\ sent'[c] = clock /\ \A d \in Client \ {c} : sent'[d] = sent[d]
    BY DEF RefreshIssued, ClientType
<1>2. Len(issued') \in Nat
    BY Numbers DEF RefreshIssued
<1>3. ASSUME NEW r \in TokenAnswer, reply' = [reply EXCEPT ![c] = r]
      PROVE  /\ reply' \in [Client -> TokenAnswer \union {None}] /\ reply'[c] = r
             /\ \A d \in Client \ {c} : reply'[d] = reply[d]
    BY <1>3 DEF ClientType
<1>4. PICK r \in TokenAnswer :
        /\ reply' = [reply EXCEPT ![c] = r] /\ r.access = Len(issued')
        /\ \/ accepted' = accepted /\ r.refresh = None
           \/ r.refresh \in Nat /\ accepted' = accepted \union {r.refresh}
    <2>1. CASE UNCHANGED accepted /\ reply' = [reply EXCEPT ![c] = [access |-> Len(issued'), refresh |-> None]]
        <3>1. [access |-> Len(issued'), refresh |-> None] \in TokenAnswer
            BY <1>2 DEF TokenAnswer
        <3>2. QED
            BY <2>1, <3>1
    <2>2. CASE /\ accepted' = accepted \union {Cardinality(accepted) + 1}
               /\ reply' = [reply EXCEPT ![c] =
                    [access |-> Len(issued'), refresh |-> Cardinality(accepted) + 1]]
        <3>1. [access |-> Len(issued'), refresh |-> Cardinality(accepted) + 1] \in TokenAnswer
            BY <1>2, CountTokens DEF TokenAnswer
        <3>2. QED
            BY <2>2, <3>1, CountTokens
    <2>3. QED
        BY <2>1, <2>2 DEF RefreshIssued
<1>5. ClientType'
    BY <1>1, <1>3, <1>4 DEF ClientType, RefreshIssued
<1>6. QED
    BY <1>1, <1>3, <1>4, <1>5 DEF Tokens, Aside, RefreshIssued

\* apply_refresh keeps a profile a profile, and its root folder.
LEMMA RefreshAppliedStep ==
    ASSUME TypeInv, NEW c \in Client, RefreshApplied(c), profile[c] # None, TokenFirst(c), ~checked[c]
    PROVE  /\ Tokens(c) /\ UNCHANGED <<issued, accepted>>
           /\ checked'[c] /\ reply[c] # None /\ reply'[c] = None
           /\ profile'[c] = apply_refresh(profile[c], reply[c]) /\ profile'[c] \in Account
<1> USE DEF TypeInv, ServiceType
<1>1. /\ sent' \in [Client -> Nat] /\ sent'[c] = clock
      /\ checked' \in [Client -> BOOLEAN] /\ checked'[c]
      /\ dirty' \in [Client -> BOOLEAN]
      /\ reply' \in [Client -> TokenAnswer \union {None}] /\ reply'[c] = None
      /\ \A d \in Client \ {c} : /\ sent'[d] = sent[d] /\ checked'[d] = checked[d]
                                 /\ dirty'[d] = dirty[d] /\ reply'[d] = reply[d]
    BY DEF RefreshApplied, ClientType
<1>2. apply_refresh(profile[c], reply[c]) \in Account
    <2>1. profile[c] \in Account /\ reply[c] \in TokenAnswer
        BY DEF ClientType, RefreshApplied
    <2>2. /\ reply[c].access \in Nat /\ clock + LIFETIME \in Nat
          /\ (IF reply[c].refresh = None THEN profile[c].refresh ELSE reply[c].refresh) \in Nat
        <3>1. reply[c].access \in Nat /\ reply[c].refresh \in Nat \union {None}
            BY <2>1 DEF TokenAnswer
        <3>2. profile[c].refresh \in Nat
            BY <2>1 DEF Account
        <3>3. clock \in Nat /\ LIFETIME \in Nat
            BY Numbers
        <3>4. QED
            BY <3>1, <3>2, <3>3
    <2>3. QED
        BY <2>1, <2>2 DEF Account, apply_refresh
<1>3. /\ profile' \in [Client -> Account \union {None}]
      /\ profile'[c] = apply_refresh(profile[c], reply[c])
      /\ \A d \in Client \ {c} : profile'[d] = profile[d]
    BY <1>2 DEF RefreshApplied, ClientType
<1>4. ClientType'
    BY <1>1, <1>3 DEF ClientType, RefreshApplied, service
<1>5. QED
    BY <1>1, <1>2, <1>3, <1>4 DEF Tokens, Aside, RefreshApplied, service

\* What the beginning of a call leaves.
Began(c, k) ==
    /\ ClientType' /\ Aside(c)
    /\ UNCHANGED <<provider, things, issued, accepted, session, clock, checked, reply>>
    /\ pc[c] = "idle" /\ pc'[c] = FirstRequest(k) /\ pc'[c] \in Stages \ {"idle"}
    /\ k \in Asked /\ call'[c] = k
    /\ profile'[c] # None /\ profile'[c] \in {session, profile[c]}
    /\ rest'[c] = (IF provider = "dropbox" THEN <<RootName>> \o k.dirs ELSE k.dirs)
    /\ pc'[c] \in {"walk", "mkdir"} => rest'[c] # <<>>
    /\ pc'[c] = "probe" => ~HasTokens
    /\ here'[c] = None /\ got'[c] = {} /\ sent'[c] = clock
    /\ result'[c] = IF pc'[c] = "report" THEN "ok" ELSE None

\* The first request by operation and service.
LEMMA FirstRequestStage ==
    ASSUME ServiceType, NEW k \in Asked
    PROVE  /\ FirstRequest(k) \in {"begin", "probe", "report", "mkdir", "root", "get", "remove"}
           /\ k.op = "list" => FirstRequest(k) = IF HasTokens THEN "begin" ELSE "probe"
           /\ FirstRequest(k) \in {"mkdir", "report"} =>
                k.op = "ensure" /\ ~ById /\ (FirstRequest(k) = "mkdir" => provider = "dropbox" \/ k.dirs # <<>>)
           /\ FirstRequest(k) = "root" => ById
           /\ FirstRequest(k) = "probe" => ~HasTokens
           /\ FirstRequest(k) = "begin" => HasTokens
           /\ FirstRequest(k) \in {"begin", "probe"} => k.op = "list"
           /\ FirstRequest(k) = "get" => k.op = "download" /\ ~ById
           /\ FirstRequest(k) = "remove" => k.op = "delete" /\ ~ById
<1>1. k.op \in {"list", "download", "delete", "ensure"} /\ provider \in {"nextcloud", "google_drive", "onedrive", "dropbox"}
    BY DEF Asked, ServiceType
<1>2. CASE k.op = "list"
    BY <1>2 DEF FirstRequest
<1>3. CASE k.op = "ensure" /\ ~ById
    BY <1>1, <1>3 DEF FirstRequest, HasTokens, ById
<1>4. CASE k.op # "list" /\ ById
    BY <1>4 DEF FirstRequest
<1>5. CASE k.op = "download" /\ ~ById
    BY <1>5 DEF FirstRequest
<1>6. CASE k.op = "delete" /\ ~ById
    BY <1>6 DEF FirstRequest
<1>7. QED
    BY <1>1, <1>2, <1>3, <1>4, <1>5, <1>6

\* Start leaves what Began says.
LEMMA StartStep ==
    ASSUME TypeInv, NEW c \in Client, NEW k \in Call[c], NEW kept \in BOOLEAN, Start(c, k, kept)
    PROVE  Began(c, k)
<1> USE DEF TypeInv, ServiceType
<1>1. k \in Asked
    BY ProviderAssumption
<1>2. FirstRequest(k) \in Stages \ {"idle"}
    BY <1>1, FirstRequestStage DEF Stages
<1>3. k.dirs \in Seq(AnyName) /\ <<RootName>> \o k.dirs \in Seq(AnyName) /\ <<RootName>> \o k.dirs # <<>>
    <2>1. k.dirs \in Seq(Names) /\ <<RootName>> \in Seq(AnyName)
        BY <1>1 DEF Asked, AnyName
    <2>2. k.dirs \in Seq(AnyName)
        BY <2>1 DEF AnyName
    <2>3. <<RootName>> \o k.dirs \in Seq(AnyName) /\ Len(<<RootName>> \o k.dirs) = 1 + Len(k.dirs) /\ Len(k.dirs) \in Nat
        BY <2>1, <2>2
    <2>4. Len(<<>>) = 0
        OBVIOUS
    <2>5. QED
        BY <2>2, <2>3, <2>4
<1>4. /\ pc' \in [Client -> Stages] /\ pc'[c] = FirstRequest(k)
      /\ call' \in [Client -> Asked \union {None}] /\ call'[c] = k
      /\ here' \in [Client -> Nat \union {None}] /\ here'[c] = None
      /\ got' = [d \in Client |-> got'[d]] /\ got'[c] = {}
      /\ sent' \in [Client -> Nat] /\ sent'[c] = clock
      /\ \A d \in Client \ {c} : /\ pc'[d] = pc[d] /\ call'[d] = call[d] /\ here'[d] = here[d]
                                 /\ got'[d] = got[d] /\ sent'[d] = sent[d]
    BY <1>1, <1>2 DEF Start, ClientType
<1>5. /\ result' = [d \in Client |-> result'[d]]
      /\ result'[c] = IF pc'[c] = "report" THEN "ok" ELSE None
      /\ \A d \in Client \ {c} : result'[d] = result[d]
    BY DEF Start, ClientType
<1>6. /\ rest' \in [Client -> Seq(AnyName)]
      /\ rest'[c] = (IF provider = "dropbox" THEN <<RootName>> \o k.dirs ELSE k.dirs)
      /\ \A d \in Client \ {c} : rest'[d] = rest[d]
    BY <1>3 DEF Start, ClientType
<1>7. /\ profile' \in [Client -> Account \union {None}]
      /\ profile'[c] # None /\ profile'[c] \in {session, profile[c]}
      /\ \A d \in Client \ {c} : profile'[d] = profile[d]
    BY NoneIsNothing DEF Start, ClientType
<1>8. dirty' \in [Client -> BOOLEAN] /\ \A d \in Client \ {c} : dirty'[d] = dirty[d]
    BY DEF Start, ClientType
<1>9. UNCHANGED <<provider, things, issued, accepted, session, clock, checked, reply>> /\ pc[c] = "idle"
    BY DEF Start, service
<1>10. ClientType'
    BY <1>4, <1>5, <1>6, <1>7, <1>8, <1>9 DEF ClientType
<1>11. (pc'[c] \in {"walk", "mkdir"} => rest'[c] # <<>>) /\ (pc'[c] = "probe" => ~HasTokens)
    BY ZenonT(40), <1>1, <1>3, <1>4, <1>6, FirstRequestStage
<1>12. QED
    BY <1>1, <1>2, <1>4, <1>5, <1>6, <1>7, <1>8, <1>9, <1>10, <1>11 DEF Began, Aside

\* What the end of a call leaves.
Ended(c) ==
    /\ ClientType' /\ Aside(c)
    /\ UNCHANGED <<provider, things, issued, accepted, clock, checked, reply>>
    /\ pc[c] = "report" /\ pc'[c] = "idle"
    /\ session' \in {session, profile[c]}
    /\ profile'[c] \in {profile[c], None}

\* Report leaves what Ended says.
LEMMA ReportStep ==
    ASSUME TypeInv, NEW c \in Client, Report(c)
    PROVE  Ended(c)
<1> USE DEF TypeInv, ServiceType
<1>1. /\ pc' \in [Client -> Stages] /\ pc'[c] = "idle"
      /\ call' \in [Client -> Asked \union {None}]
      /\ rest' \in [Client -> Seq(AnyName)]
      /\ here' \in [Client -> Nat \union {None}]
      /\ \A d \in Client \ {c} : /\ pc'[d] = pc[d] /\ call'[d] = call[d]
                                 /\ rest'[d] = rest[d] /\ here'[d] = here[d]
    BY DEF Report, ClientType, Stages
<1>2. /\ got' = [d \in Client |-> got'[d]] /\ result' = [d \in Client |-> result'[d]]
      /\ profile' \in [Client -> Account \union {None}]
      /\ profile'[c] \in {profile[c], None}
      /\ dirty' \in [Client -> BOOLEAN]
      /\ \A d \in Client \ {c} : /\ got'[d] = got[d] /\ result'[d] = result[d]
                                 /\ profile'[d] = profile[d] /\ dirty'[d] = dirty[d]
    BY DEF Report, ClientType
<1>3. session' \in {session, profile[c]}
    BY DEF Report, pending_provider_update
<1>4. UNCHANGED <<provider, things, issued, accepted, clock, checked, reply, sent>> /\ pc[c] = "report"
    BY DEF Report
<1>5. ClientType'
    BY <1>1, <1>2, <1>4 DEF ClientType
<1>6. QED
    BY <1>1, <1>2, <1>3, <1>4, <1>5 DEF Ended, Aside

-------------------------------------------------------------------------------
(* Types.                                                                  *)

\* How the folder may change in a step: a thing is added, one is removed with what
\* is below it, a file is renamed.
Added ==
    \E x \in Thing :
        /\ x.id = used.ids + 1 /\ Exists(x.in)
        /\ provider # "google_drive" => ~TakenIn(x.in, x.name)
        /\ things' = things \union {x} /\ used'.ids = used.ids + 1

Removed == (\E id : things' = things \ Beneath(things, id)) /\ used'.ids = used.ids

Renamed ==
    \E t \in things, n \in Names :
        /\ ~t.folder /\ ~TakenIn(t.in, n)
        /\ things' = (things \ {t}) \union {[t EXCEPT !.name = n]} /\ used'.ids = used.ids

ThingsChange == Added \/ Removed \/ Renamed \/ (things' = things /\ used'.ids = used.ids)

UsedType == used' \in [changes : Nat, calls : Nat, ids : Nat]

\* A folder the service creates is an addition.
LEMMA FolderAdded ==
    ASSUME TypeInv, NEW id, NEW name \in AnyName, Creates(id, name),
           things' = things \union {NewFolder(id, name)}, used' = [used EXCEPT !.ids = @ + 1]
    PROVE  ThingsChange /\ UsedType
<1>1. id \in Nat
    BY DEF Creates, Exists, Top, Thing, TypeInv, ServiceType
<1>2. NewFolder(id, name) \in Thing
    BY <1>1 DEF NewFolder, Thing, TypeInv, ServiceType
<1>3. NewFolder(id, name).id = used.ids + 1 /\ NewFolder(id, name).in = id /\ NewFolder(id, name).name = name
    BY DEF NewFolder
<1>4. used'.ids = used.ids + 1 /\ UsedType
    BY DEF TypeInv, ServiceType, UsedType
<1>5. Added
    BY <1>2, <1>3, <1>4 DEF Added, Creates
<1>6. QED
    BY <1>4, <1>5 DEF ThingsChange

\* What other devices do is an addition, a removal or a new name.
LEMMA OthersChangeThings ==
    ASSUME TypeInv, OthersChange
    PROVE  ThingsChange /\ UsedType
<1> USE DEF TypeInv, ServiceType
<1>1. CASE \E t \in things : things' = things \ Beneath(things, t.id) /\ used' = [used EXCEPT !.changes = @ + 1]
    BY <1>1 DEF ThingsChange, Removed, UsedType
<1>2. CASE \E t \in things, n \in Names :
            /\ ~t.folder /\ ~TakenIn(t.in, n)
            /\ things' = (things \ {t}) \union {[t EXCEPT !.name = n]}
            /\ used' = [used EXCEPT !.changes = @ + 1]
    <2>1. used'.ids = used.ids /\ UsedType
        BY <1>2 DEF UsedType
    <2>2. Renamed
        BY <1>2, <2>1 DEF Renamed
    <2>3. QED
        BY <2>1, <2>2 DEF ThingsChange
<1>3. ASSUME NEW id \in {Top} \union {t.id : t \in things}, NEW f \in BOOLEAN,
             NEW n \in IF id = Top THEN {RootName} ELSE Names,
             Exists(id) /\ ~TakenIn(id, n),
             things' = things \union {[id |-> used.ids + 1, name |-> n, in |-> id, folder |-> f]},
             used' = [used EXCEPT !.changes = @ + 1, !.ids = @ + 1]
      PROVE  ThingsChange /\ UsedType
    <2>1. used'.ids = used.ids + 1 /\ UsedType
        <3>1. used.changes + 1 \in Nat /\ used.ids + 1 \in Nat /\ used.calls \in Nat
            OBVIOUS
        <3>2. used' = [changes |-> used.changes + 1, calls |-> used.calls, ids |-> used.ids + 1]
            BY <1>3
        <3>3. QED
            BY <3>1, <3>2 DEF UsedType
    <2> DEFINE x == [id |-> used.ids + 1, name |-> n, in |-> id, folder |-> f]
    <2>2. x \in Thing
        BY DEF Thing, AnyName, Top
    <2>3. x.id = used.ids + 1 /\ x.in = id /\ x.name = n
        OBVIOUS
    <2>4. Added
        BY <1>3, <2>1, <2>2, <2>3 DEF Added
    <2>5. QED
        BY <2>1, <2>4 DEF ThingsChange
<1>4. QED
    BY <1>1, <1>2, <1>3 DEF OthersChange

\* So is what any step does to the folder.
LEMMA NextThings ==
    ASSUME TypeInv, Next
    PROVE  ThingsChange /\ UsedType
<1> USE DEF TypeInv, ServiceType
<1>1. ASSUME things' = things, used' = used
      PROVE  ThingsChange /\ UsedType
    BY <1>1 DEF ThingsChange, UsedType
<1>2. ASSUME things' = things, used' = [used EXCEPT !.calls = @ + 1] \/ used' = [used EXCEPT !.changes = @ + 1]
      PROVE  ThingsChange /\ UsedType
    BY <1>2 DEF ThingsChange, UsedType
<1>3. ASSUME NEW c \in Client, Step(c), UNCHANGED used
      PROVE  ThingsChange /\ UsedType
    BY <1>1, <1>3 DEF Step, FreshToken, RefreshIssued, RefreshRefused, RefreshApplied, Unauthorized, Fails,
        Begin, CachedRoot, FindRoot, Walk, Leaf, Get, Probe, Page, Report, service
<1>4. CASE Tick /\ UNCHANGED used
    BY <1>1, <1>4 DEF Tick, service
<1>5. ASSUME NEW c \in Client, Delete(c), UNCHANGED used
      PROVE  ThingsChange /\ UsedType
    BY <1>1, <1>5 DEF Delete, ThingsChange, Removed, UsedType
<1>6. ASSUME NEW c \in Client, CreateRoot(c)
      PROVE  ThingsChange /\ UsedType
    <2>1. RootName \in AnyName
        BY DEF AnyName
    <2>2. QED
        BY <1>1, <1>6, <2>1, FolderAdded DEF CreateRoot
<1>7. ASSUME NEW c \in Client, CreateFolder(c) \/ MakeFolder(c)
      PROVE  ThingsChange /\ UsedType
    <2>1. rest[c] \in Seq(AnyName) /\ rest[c] # <<>>
        BY <1>7 DEF CreateFolder, MakeFolder, Send, Ready, At, ClientType, Started
    <2>2. Head(rest[c]) \in AnyName
        BY <2>1
    <2>3. QED
        BY <1>1, <1>7, <2>2, FolderAdded DEF CreateFolder, MakeFolder
<1>8. ASSUME NEW c \in Client, NEW kept \in BOOLEAN, NEW k \in Call[c], Start(c, k, kept)
      PROVE  ThingsChange /\ UsedType
    BY <1>2, <1>8 DEF Start, service
<1>9. CASE Revoke
    BY <1>2, <1>9 DEF Revoke
<1>10. QED
    BY <1>3, <1>4, <1>5, <1>6, <1>7, <1>8, <1>9, OthersChangeThings DEF Next

\* Each of these leaves a finite set of things.
LEMMA ThingsType ==
    ASSUME TypeInv, ThingsChange
    PROVE  (things' \subseteq Thing) /\ IsFiniteSet(things')
<1> USE DEF TypeInv, ServiceType
<1>1. CASE Added
    <2>1. PICK x \in Thing : things' = things \union {x}
        BY <1>1 DEF Added
    <2>2. QED
        BY <2>1, FS_AddElement
<1>2. CASE Removed
    <2>1. things' \subseteq things
        BY <1>2 DEF Removed
    <2>2. QED
        BY <2>1, FS_Subset
<1>3. CASE Renamed
    <2>1. PICK t \in things, n \in Names : things' = (things \ {t}) \union {[t EXCEPT !.name = n]}
        BY <1>3 DEF Renamed
    <2>2. [t EXCEPT !.name = n] \in Thing
        BY DEF Thing, AnyName
    <2>3. IsFiniteSet(things \ {t})
        BY FS_Subset
    <2>4. QED
        BY <2>1, <2>2, <2>3, FS_AddElement
<1>4. CASE things' = things
    BY <1>4
<1>5. QED
    BY <1>1, <1>2, <1>3, <1>4 DEF ThingsChange

\* The kinds of steps.
LEMMA NextKinds ==
    ASSUME TypeInv, Next
    PROVE  \/ \E c \in Client : \/ Answered(c) \/ Ended(c) \/ (\E k \in Asked : Began(c, k))
                                \/ FreshToken(c) \/ RefreshIssued(c) \/ RefreshApplied(c)
           \/ Tick \/ OthersChange \/ Revoke
<1>1. ASSUME NEW c \in Client, Step(c)
      PROVE  Answered(c) \/ Ended(c) \/ FreshToken(c) \/ RefreshIssued(c) \/ RefreshApplied(c)
    BY <1>1, PlainAnswers, RootAnswers, WalkAnswers, EndAnswers, ReportStep DEF Step
<1>2. ASSUME NEW c \in Client, Delete(c) \/ CreateRoot(c) \/ CreateFolder(c) \/ MakeFolder(c)
      PROVE  Answered(c)
    BY <1>2, RootAnswers, WalkAnswers, EndAnswers
<1>3. ASSUME NEW c \in Client, NEW k \in Call[c], NEW kept \in BOOLEAN, Start(c, k, kept)
      PROVE  k \in Asked /\ Began(c, k)
    BY <1>3, StartStep DEF Began
<1>4. QED
    BY <1>1, <1>2, <1>3 DEF Next

\* Whose answer is applied needs one.
LEMMA Applies ==
    ASSUME TypeInv, NEW c \in Client, RefreshApplied(c)
    PROVE  /\ profile[c] \in Account /\ profile[c] # None /\ reply[c] \in TokenAnswer
           /\ TokenFirst(c) /\ ~checked[c] /\ Waiting(c)
BY DEF TypeInv, ClientType, Started, RefreshApplied, TokenFirst, Waiting

\* A client with a call has a profile.
LEMMA ProfileOf ==
    ASSUME TypeInv, NEW c \in Client, pc[c] # "idle"
    PROVE  profile[c] \in Account /\ profile[c] # None /\ call[c] \in Asked /\ call[c] # None
BY DEF TypeInv, ClientType, Started

\* The types hold initially ...
LEMMA InitTypes == Init => TypeInv
<1> SUFFICES ASSUME Init PROVE TypeInv
    OBVIOUS
<1>1. PICK expires \in {EXPIRY_SKEW, LIFETIME} : issued = <<expires>> /\ session = NewProfile(expires)
    BY DEF Init
<1>2. session \in Account /\ issued \in Seq(Nat)
    BY <1>1, Numbers DEF Account, NewProfile
<1>3. (things \subseteq Thing) /\ IsFiniteSet(things)
    <2> DEFINE all == {[id |-> 1, name |-> RootName, in |-> Top, folder |-> TRUE],
                       [id |-> 2, name |-> "d", in |-> 1, folder |-> TRUE],
                       [id |-> 3, name |-> "f", in |-> 1, folder |-> FALSE],
                       [id |-> 4, name |-> "f", in |-> 2, folder |-> FALSE]}
    <2>1. things = {} \/ things = all
        BY DEF Init
    <2>2. all \subseteq Thing
        <3>1. {"d", "f", RootName} \subseteq AnyName /\ {0, 1, 2} \subseteq Nat /\ {1, 2, 3, 4} \subseteq Nat \ {0}
            BY ProviderAssumption DEF AnyName
        <3>2. QED
            BY <3>1 DEF Thing, Top
    <2>3. IsFiniteSet(all)
        <3>1. ASSUME NEW w, NEW x, NEW y, NEW z
              PROVE  IsFiniteSet({w, x, y, z})
            <4>1. IsFiniteSet({w})
                BY FS_Singleton
            <4>2. IsFiniteSet({w} \union {x})
                BY <4>1, FS_AddElement
            <4>3. IsFiniteSet(({w} \union {x}) \union {y})
                BY <4>2, FS_AddElement
            <4>4. IsFiniteSet((({w} \union {x}) \union {y}) \union {z})
                BY <4>3, FS_AddElement
            <4>5. {w, x, y, z} = (({w} \union {x}) \union {y}) \union {z}
                OBVIOUS
            <4>6. QED
                BY <4>4, <4>5
        <3>2. QED
            BY <3>1
    <2> HIDE DEF all
    <2>4. QED
        BY <2>1, <2>2, <2>3, FS_EmptySet
<1>4. IsFiniteSet(accepted) /\ (accepted \subseteq Nat)
    <2>1. accepted = {1}
        BY DEF Init
    <2>2. IsFiniteSet(accepted)
        BY <2>1, FS_Singleton
    <2>3. QED
        BY <2>1, <2>2
<1>5. ServiceType
    BY <1>2, <1>3, <1>4 DEF Init, ServiceType
<1>6. ClientType
    BY DEF Init, ClientType, Stages
<1>7. Started
    BY DEF Init, Started
<1>8. QED
    BY <1>5, <1>6, <1>7 DEF TypeInv

\* What is said of every client stays true of the others.
LEMMA StartedKept ==
    ASSUME TypeInv, NEW c \in Client, ClientType', Aside(c), provider' = provider,
           pc'[c] # "idle" => call'[c] # None /\ profile'[c] # None,
           pc'[c] \in {"walk", "mkdir"} => rest'[c] # <<>>,
           pc'[c] = "probe" => ~HasTokens,
           reply'[c] # None => TokenFirst(c)' /\ ~checked'[c]
    PROVE  Started'
<1>1. ASSUME NEW d \in Client \ {c}
      PROVE  /\ pc'[d] # "idle" => call'[d] # None /\ profile'[d] # None
             /\ pc'[d] \in {"walk", "mkdir"} => rest'[d] # <<>>
             /\ pc'[d] = "probe" => ~HasTokens'
             /\ reply'[d] # None => TokenFirst(d)' /\ ~checked'[d]
    BY DEF TypeInv, Started, Aside, TokenFirst, HasTokens
<1>2. QED
    BY <1>1 DEF Started, HasTokens

\* ... and every step keeps them.
LEMMA NextTypes == TypeInv /\ [Next]_vars => TypeInv'
<1> SUFFICES ASSUME TypeInv, [Next]_vars PROVE TypeInv'
    OBVIOUS
<1>1. CASE UNCHANGED vars
    BY <1>1 DEF vars, own, TypeInv, ServiceType, ClientType, Started, TokenFirst, HasTokens
<1>2. CASE Next
    <2>1. (things' \subseteq Thing) /\ IsFiniteSet(things') /\ used' \in [changes : Nat, calls : Nat, ids : Nat]
        BY <1>2, NextThings, ThingsType DEF UsedType
    <2>2. ASSUME UNCHANGED <<provider, issued, accepted, session, clock>>
          PROVE  ServiceType'
        BY <2>1, <2>2 DEF TypeInv, ServiceType
    <2>3. ASSUME NEW c \in Client, Answered(c)
          PROVE  TypeInv'
        <3>1. call'[c] # None /\ profile'[c] # None
            BY <2>3, ProfileOf, NoneIsNothing DEF Answered, Waiting, Account
        <3>2. QED
            BY <2>2, <2>3, <3>1, StartedKept DEF Answered, TypeInv
    <2>4. ASSUME NEW c \in Client, Ended(c)
          PROVE  TypeInv'
        <3>1. reply'[c] = None
            BY <2>4 DEF Ended, TypeInv, Started, TokenFirst
        <3>2. Started'
            BY <2>4, <3>1, StartedKept DEF Ended
        <3>3. ServiceType'
            BY <2>1, <2>4, ProfileOf DEF Ended, TypeInv, ServiceType
        <3>4. QED
            BY <2>4, <3>2, <3>3 DEF Ended, TypeInv
    <2>5. ASSUME NEW c \in Client, NEW k \in Asked, Began(c, k)
          PROVE  TypeInv'
        <3>1. reply'[c] = None /\ call'[c] # None
            BY <2>5, NoneIsNothing DEF Began, TypeInv, Started, TokenFirst
        <3>2. Started'
            BY <2>5, <3>1, StartedKept DEF Began
        <3>3. QED
            BY <2>2, <2>5, <3>2 DEF Began, TypeInv
    <2>6. ASSUME NEW c \in Client, FreshToken(c)
          PROVE  TypeInv'
        <3>1. /\ Tokens(c) /\ UNCHANGED <<issued, accepted, profile, dirty, reply>> /\ reply[c] = None
            BY <2>6, FreshTokenStep
        <3>2. Started'
            BY <3>1, StartedKept DEF Tokens, TypeInv, Started
        <3>3. QED
            BY <2>2, <3>1, <3>2 DEF Tokens, TypeInv
    <2>7. ASSUME NEW c \in Client, RefreshIssued(c)
          PROVE  TypeInv'
        <3>1. PICK r \in TokenAnswer :
                /\ Tokens(c) /\ UNCHANGED <<profile, dirty, checked>>
                /\ issued' = Append(issued, clock + LIFETIME)
                /\ reply'[c] = r
                /\ \/ accepted' = accepted
                   \/ r.refresh \in Nat /\ accepted' = accepted \union {r.refresh}
            BY <2>7, RefreshIssuedStep
        <3>2. TokenFirst(c)'
            BY <3>1 DEF Tokens, TokenFirst, HasTokens
        <3>3. Started'
            BY <3>1, <3>2, StartedKept DEF Tokens, TypeInv, Started
        <3>4. issued' \in Seq(Nat) /\ (accepted' \subseteq Nat) /\ IsFiniteSet(accepted')
            <4>1. issued' \in Seq(Nat)
                BY <3>1, Numbers DEF TypeInv, ServiceType
            <4>2. (accepted \subseteq Nat) /\ IsFiniteSet(accepted)
                BY DEF TypeInv, ServiceType
            <4>3. accepted' \subseteq Nat
                BY <3>1, <4>2
            <4>4. IsFiniteSet(accepted')
                <5>1. IsFiniteSet(accepted \union {r.refresh})
                    BY <4>2, FS_AddElement
                <5>2. QED
                    BY <3>1, <4>2, <5>1
            <4>5. QED
                BY <4>1, <4>3, <4>4
        <3>5. QED
            BY <2>1, <3>1, <3>3, <3>4 DEF Tokens, TypeInv, ServiceType
    <2>8. ASSUME NEW c \in Client, RefreshApplied(c)
          PROVE  TypeInv'
        <3>1. /\ Tokens(c) /\ UNCHANGED <<issued, accepted>> /\ reply'[c] = None
              /\ profile'[c] = apply_refresh(profile[c], reply[c])
            BY <2>8, Applies, RefreshAppliedStep
        <3>2. profile'[c] # None
            <4>1. profile'[c] \in Account
                BY <2>8, <3>1, Applies, RefreshAppliedStep
            <4>2. QED
                BY <4>1, NoneIsNothing
        <3>3. Started'
            BY <3>1, <3>2, StartedKept DEF Tokens, TypeInv, Started
        <3>4. QED
            BY <2>2, <3>1, <3>3 DEF Tokens, TypeInv
    <2>9. CASE Tick \/ OthersChange \/ Revoke
        <3>1. UNCHANGED own /\ UNCHANGED <<provider, issued, session>>
            BY <2>9 DEF Tick, OthersChange, Revoke, service
        <3>2. accepted' \in {accepted, {}} /\ clock' \in {clock, clock + 1}
            BY <2>9 DEF Tick, OthersChange, Revoke, service
        <3>3. ServiceType'
            <4>1. (accepted' \subseteq Nat) /\ clock' \in Nat
                BY <3>2 DEF TypeInv, ServiceType
            <4>2. IsFiniteSet(accepted')
                BY <3>2, FS_EmptySet DEF TypeInv, ServiceType
            <4>3. QED
                BY <2>1, <3>1, <4>1, <4>2 DEF TypeInv, ServiceType
        <3>4. ClientType' /\ Started'
            BY <3>1 DEF own, TypeInv, ClientType, Started, TokenFirst, HasTokens
        <3>5. QED
            BY <3>3, <3>4 DEF TypeInv
    <2>10. QED
        BY <1>2, <2>3, <2>4, <2>5, <2>6, <2>7, <2>8, <2>9, NextKinds
<1>3. QED
    BY <1>1, <1>2

-------------------------------------------------------------------------------
(* Tokens.                                                                 *)

\* No token is forgotten: none was valid, or those that were still are.
Grown == accepted' # {} => accepted # {} /\ accepted \subseteq accepted'
Later == Len(issued) <= Len(issued') /\ \A i \in 1 .. Len(issued) : issued'[i] = issued[i]

\* TokensKept and TimeInv, of one client.
TokensOf(c) ==
    /\ profile[c] # None => Usable(profile[c])
    /\ reply[c] # None /\ reply[c].refresh # None => (accepted # {} => reply[c].refresh \in accepted)

TimeOf(c) ==
    /\ profile[c] # None => Dated(profile[c])
    /\ ~Waiting(c) => ~checked[c]
    /\ Waiting(c) => sent[c] <= clock /\ clock - sent[c] <= Patience(c)
    /\ reply[c] # None =>
        /\ reply[c].access \in 1 .. Len(issued)
        /\ issued[reply[c].access] = sent[c] + LIFETIME
    /\ checked[c] => issued[profile[c].access] > sent[c] + TRANSIT

Fresh == TokensKept /\ TimeInv

\* The invariant on tokens, client by client.
LEMMA FreshOf == Fresh <=> Usable(session) /\ Dated(session) /\ \A c \in Client : TokensOf(c) /\ TimeOf(c)
BY DEF Fresh, TokensKept, TimeInv, TokensOf, TimeOf

\* Expiries are times.
LEMMA Times ==
    ASSUME ServiceType
    PROVE  /\ clock \in Nat /\ clock - clock = 0 /\ Len(issued) \in Nat
           /\ \A i \in 1 .. Len(issued) : issued[i] \in Nat
BY DEF ServiceType

\* A request is waited for a number of seconds.
LEMMA PatienceNat == ASSUME NEW c PROVE Patience(c) \in Nat /\ Patience(c)' \in Nat
BY Numbers DEF Patience

\* More tokens change nothing about a profile.
LEMMA DatedLater ==
    ASSUME ServiceType, ServiceType', Later, NEW p \in Account, Dated(p)
    PROVE  /\ p.access \in 1 .. Len(issued') /\ issued'[p.access] = issued[p.access]
           /\ p.expires_at <= issued'[p.access] + REFRESH_TIMEOUT
<1>1. Len(issued) \in Nat /\ Len(issued') \in Nat
    BY Times DEF ServiceType
<1>2. p.access \in 1 .. Len(issued) /\ p.expires_at <= issued[p.access] + REFRESH_TIMEOUT
    BY DEF Dated
<1>3. issued'[p.access] = issued[p.access] /\ Len(issued) <= Len(issued')
    BY <1>2 DEF Later
<1>4. QED
    BY <1>1, <1>2, <1>3

\* Tokens and times of a client the step is not of.
LEMMA AsideFresh ==
    ASSUME TypeInv, TypeInv', NEW c \in Client, Aside(c), Grown, Later, clock' = clock,
           NEW d \in Client \ {c}, TokensOf(d), TimeOf(d)
    PROVE  TokensOf(d)' /\ TimeOf(d)'
<1>1. TokensOf(d)'
    BY DEF Aside, Grown, TokensOf, Usable
<1>2. profile[d] # None => Dated(profile[d])'
    <2>1. profile[d] # None => profile[d] \in Account
        BY DEF TypeInv, ClientType
    <2>2. ServiceType /\ ServiceType'
        BY DEF TypeInv
    <2>3. ASSUME profile[d] # None
          PROVE  Dated(profile[d]) /\ profile[d].access \in 1 .. Len(issued')
                 /\ profile[d].expires_at <= issued'[profile[d].access] + REFRESH_TIMEOUT
        BY <2>1, <2>2, <2>3, DatedLater DEF TimeOf
    <2>4. profile'[d] = profile[d]
        BY DEF Aside
    <2>5. QED
        BY <2>3, <2>4 DEF Dated
<1>3. reply[d] # None => reply[d].access \in 1 .. Len(issued') /\ issued'[reply[d].access] = sent[d] + LIFETIME
    <2>1. Len(issued) \in Nat /\ Len(issued') \in Nat
        BY Times DEF TypeInv
    <2>2. QED
        BY <2>1 DEF TimeOf, Later
<1>4. checked[d] => issued'[profile[d].access] > sent[d] + TRANSIT
    <2>1. checked[d] => profile[d] # None /\ Waiting(d)
        BY DEF TypeInv, Started, TimeOf, Waiting
    <2>2. checked[d] => profile[d].access \in 1 .. Len(issued)
        BY <2>1 DEF TimeOf, Dated
    <2>3. QED
        BY <2>2 DEF Later, TimeOf
<1>5. QED
    BY <1>1, <1>2, <1>3, <1>4 DEF TimeOf, Aside, Waiting, Patience, TypeInv, ClientType

\* The tokens of the account are accepted and dated initially ...
LEMMA InitFresh == Init => Fresh
<1> SUFFICES ASSUME Init PROVE Fresh
    OBVIOUS
<1>1. PICK expires \in {EXPIRY_SKEW, LIFETIME} : issued = <<expires>> /\ session = NewProfile(expires)
    BY DEF Init
<1>2. Usable(session) /\ Dated(session)
    <2>1. accepted = {1}
        BY DEF Init
    <2>2. expires \in Nat /\ Len(issued) = 1 /\ issued[1] = expires
        BY <1>1, Numbers
    <2>3. session.access = 1 /\ session.refresh = 1 /\ session.expires_at = expires
        BY <1>1 DEF NewProfile
    <2>4. QED
        BY <2>1, <2>2, <2>3, Numbers DEF Usable, Dated
<1>3. ASSUME NEW c \in Client
      PROVE  TokensOf(c) /\ TimeOf(c)
    BY DEF Init, TokensOf, TimeOf, Waiting
<1>4. QED
    BY <1>2, <1>3, FreshOf

\* ... and after every step.
LEMMA NextFresh == TypeInv /\ TypeInv' /\ Fresh /\ [Next]_vars => Fresh'
<1> SUFFICES ASSUME TypeInv, TypeInv', Fresh, [Next]_vars PROVE Fresh'
    OBVIOUS
<1>1. Usable(session) /\ Dated(session) /\ \A c \in Client : TokensOf(c) /\ TimeOf(c)
    BY FreshOf
<1>2. ASSUME Usable(session)', Dated(session)', \A c \in Client : TokensOf(c)' /\ TimeOf(c)'
      PROVE  Fresh'
    BY <1>2 DEF Fresh, TokensKept, TimeInv, TokensOf, TimeOf
<1>3. ASSUME UNCHANGED <<issued, accepted>>
      PROVE  Grown /\ Later
    BY <1>3 DEF Grown, Later, TypeInv, ServiceType
<1>4. ASSUME NEW c \in Client, Aside(c), Grown, Later, UNCHANGED clock, session' = session,
             TokensOf(c)', TimeOf(c)'
      PROVE  Fresh'
    <2>1. \A d \in Client : TokensOf(d)' /\ TimeOf(d)'
        BY <1>1, <1>4, AsideFresh
    <2>2. Usable(session)'
        BY <1>1, <1>4 DEF Usable, Grown
    <2>3. Dated(session)'
        <3>1. session \in Account /\ ServiceType /\ ServiceType' /\ Later /\ session' = session
            BY <1>4 DEF TypeInv, ServiceType
        <3>2. session.access \in 1 .. Len(issued') /\ session.expires_at <= issued'[session.access] + REFRESH_TIMEOUT
            BY <1>1, <3>1, DatedLater
        <3>3. QED
            BY <3>1, <3>2 DEF Dated
    <2>4. QED
        BY <1>2, <2>1, <2>2, <2>3
<1>5. CASE UNCHANGED vars
    BY <1>1, <1>2, <1>5 DEF vars, own, Usable, Dated, TokensOf, TimeOf, Waiting, Patience
<1>6. ASSUME NEW c \in Client, Answered(c)
      PROVE  Fresh'
    <2>1. profile[c] \in Account /\ profile[c] # None
        BY <1>6, ProfileOf DEF Answered, Waiting
    <2>2. /\ profile'[c].refresh = profile[c].refresh /\ profile'[c].access = profile[c].access
          /\ profile'[c].expires_at = profile[c].expires_at
        BY <1>6, <2>1 DEF Answered, Account
    <2>3. TokensOf(c)'
        BY <1>1, <1>6, <2>1, <2>2 DEF Answered, TokensOf, Usable
    <2>4. Dated(profile[c])
        BY <1>1, <2>1 DEF TimeOf
    <2>5. Dated(profile[c])'
        BY <1>6, <2>2, <2>4 DEF Answered, Dated
    <2>6. Waiting(c)' => sent'[c] = clock'
        BY <1>6 DEF Answered, Waiting
    <2>7. Patience(c)' \in Nat /\ clock' \in Nat /\ clock' - clock' = 0
        BY <1>6, PatienceNat, Times DEF Answered, TypeInv
    <2>8. TimeOf(c)'
        BY <1>6, <2>5, <2>6, <2>7 DEF Answered, TimeOf
    <2>9. QED
        BY <1>3, <1>4, <1>6, <2>3, <2>8 DEF Answered
<1>7. ASSUME NEW c \in Client, Ended(c)
      PROVE  Fresh'
    <2>1. profile[c] \in Account /\ profile[c] # None
        BY <1>7, ProfileOf DEF Ended
    <2>2. Usable(profile[c]) /\ Dated(profile[c])
        BY <1>1, <2>1 DEF TokensOf, TimeOf
    <2>3. Usable(session)' /\ Dated(session)'
        BY <1>1, <1>7, <2>2 DEF Ended, Usable, Dated
    <2>4. \A d \in Client \ {c} : TokensOf(d)' /\ TimeOf(d)'
        BY <1>1, <1>3, <1>7, AsideFresh DEF Ended
    <2>5. reply'[c] = None /\ ~checked'[c] /\ ~Waiting(c)'
        BY <1>1, <1>7 DEF Ended, TypeInv, Started, TokenFirst, TimeOf, Waiting
    <2>6. TokensOf(c)' /\ TimeOf(c)'
        BY <1>7, <2>2, <2>5 DEF Ended, TokensOf, TimeOf, Usable, Dated
    <2>7. QED
        BY <1>2, <2>3, <2>4, <2>6
<1>8. ASSUME NEW c \in Client, NEW k \in Asked, Began(c, k)
      PROVE  Fresh'
    <2>1. reply'[c] = None /\ ~checked'[c]
        BY <1>1, <1>8 DEF Began, TypeInv, Started, TokenFirst, TimeOf, Waiting
    <2>2. Usable(profile'[c]) /\ Dated(profile'[c])
        BY <1>1, <1>8 DEF Began, TokensOf, TimeOf
    <2>3. sent'[c] = clock' /\ Patience(c)' \in Nat /\ clock' \in Nat /\ clock' - clock' = 0
        BY <1>8, PatienceNat, Times DEF Began, TypeInv
    <2>4. TokensOf(c)' /\ TimeOf(c)'
        BY <1>8, <2>1, <2>2, <2>3 DEF Began, TokensOf, TimeOf, Usable, Dated
    <2>5. QED
        BY <1>3, <1>4, <1>8, <2>4 DEF Began
<1>9. ASSUME NEW c \in Client, FreshToken(c)
      PROVE  Fresh'
    <2>1. /\ Tokens(c) /\ UNCHANGED <<issued, accepted, profile, dirty, reply>> /\ reply[c] = None
        BY <1>9, FreshTokenStep
    <2>2. Waiting(c) /\ profile[c] \in Account /\ profile[c] # None
        BY <2>1, ProfileOf DEF Tokens, TokenFirst, Waiting
    <2>3. /\ profile[c].access \in 1 .. Len(issued) /\ issued[profile[c].access] \in Nat
          /\ profile[c].expires_at \in Nat
          /\ profile[c].expires_at <= issued[profile[c].access] + REFRESH_TIMEOUT
        <3>1. Dated(profile[c]) /\ profile[c].expires_at \in Nat
            BY <1>1, <2>2 DEF TimeOf, Account
        <3>2. QED
            BY <3>1, Times DEF Dated, TypeInv
    <2>4. clock \in Nat /\ clock + EXPIRY_SKEW < profile[c].expires_at
        <3>1. ~(clock + EXPIRY_SKEW >= profile[c].expires_at) /\ clock \in Nat
            BY <1>9, Times DEF FreshToken, needs_refresh, TypeInv
        <3>2. QED
            BY <2>3, <3>1, Numbers
    <2>5. issued[profile[c].access] > clock + TRANSIT
        BY <2>3, <2>4, Numbers, SMTT(30)
    <2>6. sent'[c] = clock' /\ Patience(c)' \in Nat /\ clock' \in Nat /\ clock' - clock' = 0
        BY <2>1, PatienceNat, Times DEF Tokens, TypeInv
    <2>7. TokensOf(c)' /\ TimeOf(c)'
        BY <1>1, <2>1, <2>2, <2>5, <2>6 DEF Tokens, TokensOf, TimeOf, Usable, Dated, Waiting
    <2>8. QED
        BY <1>3, <1>4, <2>1, <2>7 DEF Tokens
<1>10. ASSUME NEW c \in Client, RefreshIssued(c)
       PROVE  Fresh'
    <2>1. /\ Tokens(c) /\ UNCHANGED <<profile, dirty, checked>>
          /\ issued' = Append(issued, clock + LIFETIME) /\ profile[c].refresh \in accepted
        BY <1>10, RefreshIssuedStep
    <2>2. PICK r \in TokenAnswer :
            /\ reply'[c] = r /\ r.access = Len(issued')
            /\ \/ accepted' = accepted /\ r.refresh = None
               \/ r.refresh \in Nat /\ accepted' = accepted \union {r.refresh}
        BY <1>10, RefreshIssuedStep
    <2>3. Waiting(c) /\ profile[c] \in Account /\ profile[c] # None /\ ~checked[c]
        BY <2>1, ProfileOf DEF Tokens, TokenFirst, Waiting
    <2>4. Grown
        BY <2>1, <2>2 DEF Grown
    <2>5. /\ Later /\ Len(issued') \in 1 .. Len(issued')
          /\ issued'[Len(issued')] = clock + LIFETIME
        BY <2>1, Numbers DEF Later, TypeInv, ServiceType
    <2>6. Dated(profile[c])'
        <3>1. Dated(profile[c]) /\ ServiceType /\ ServiceType' /\ profile' = profile
            BY <1>1, <2>1, <2>3 DEF TimeOf, TypeInv
        <3>2. profile[c].access \in 1 .. Len(issued') /\ profile[c].expires_at <= issued'[profile[c].access] + REFRESH_TIMEOUT
            BY <2>3, <2>5, <3>1, DatedLater
        <3>3. QED
            BY <3>1, <3>2 DEF Dated
    <2>7. sent'[c] = clock /\ clock' = clock /\ Patience(c)' \in Nat /\ clock \in Nat /\ clock - clock = 0
        BY <2>1, PatienceNat, Times DEF Tokens, TypeInv
    <2>8. TokensOf(c)'
        BY <1>1, <2>1, <2>2, <2>3 DEF TokensOf, Usable
    <2>9. TimeOf(c)'
        BY <2>1, <2>2, <2>3, <2>5, <2>6, <2>7 DEF Tokens, TimeOf, Waiting
    <2>10. QED
        BY <1>4, <2>1, <2>4, <2>5, <2>8, <2>9 DEF Tokens
<1>11. ASSUME NEW c \in Client, RefreshApplied(c)
       PROVE  Fresh'
    <2>1. /\ profile[c] \in Account /\ profile[c] # None /\ reply[c] \in TokenAnswer
          /\ TokenFirst(c) /\ ~checked[c] /\ Waiting(c)
        BY <1>11, Applies
    <2>2. /\ Tokens(c) /\ UNCHANGED <<issued, accepted>>
          /\ checked'[c] /\ reply[c] # None /\ reply'[c] = None
          /\ profile'[c] = apply_refresh(profile[c], reply[c])
        BY <1>11, <2>1, RefreshAppliedStep
    <2>3. /\ profile'[c].access = reply[c].access /\ profile'[c].expires_at = clock + LIFETIME
          /\ profile'[c].refresh = IF reply[c].refresh = None THEN profile[c].refresh ELSE reply[c].refresh
        BY <2>1, <2>2 DEF apply_refresh, Account
    <2>4. TokensOf(c)'
        BY <1>1, <2>1, <2>2, <2>3 DEF TokensOf, Usable
    <2>5. /\ reply[c].access \in 1 .. Len(issued) /\ issued[reply[c].access] = sent[c] + LIFETIME
          /\ sent[c] \in Nat /\ clock \in Nat /\ sent[c] <= clock /\ clock - sent[c] <= REFRESH_TIMEOUT
        BY <1>1, <2>1, <2>2 DEF TimeOf, Patience, TypeInv, ClientType, ServiceType
    <2>6. /\ issued[reply[c].access] > clock + TRANSIT
          /\ clock + LIFETIME <= issued[reply[c].access] + REFRESH_TIMEOUT
        BY <2>5, Numbers
    <2>7. sent'[c] = clock /\ clock' = clock /\ Patience(c)' \in Nat /\ clock - clock = 0
        BY <2>2, <2>5, PatienceNat DEF Tokens
    <2>8. TimeOf(c)'
        BY <2>1, <2>2, <2>3, <2>5, <2>6, <2>7 DEF Tokens, TimeOf, Waiting, Dated
    <2>9. QED
        BY <1>3, <1>4, <2>2, <2>4, <2>8 DEF Tokens
<1>12. CASE Tick
    <2>1. UNCHANGED <<provider, issued, accepted, session, own>> /\ clock' = clock + 1
        BY <1>12 DEF Tick, service
    <2>2. ASSUME NEW c \in Client
          PROVE  TokensOf(c)' /\ TimeOf(c)'
        <3>1. Waiting(c) => clock - sent[c] < Patience(c)
            BY <1>12 DEF Tick, Waiting
        <3>2. sent[c] \in Nat /\ clock \in Nat /\ Patience(c) \in Nat
            BY Numbers DEF Patience, TypeInv, ClientType, ServiceType
        <3>3. Waiting(c) => sent[c] <= clock' /\ clock' - sent[c] <= Patience(c)
            BY <1>1, <2>1, <3>1, <3>2 DEF TimeOf
        <3>4. QED
            BY <1>1, <2>1, <3>3 DEF own, TokensOf, TimeOf, Usable, Dated, Waiting, Patience
    <2>3. QED
        BY <1>1, <1>2, <2>1, <2>2 DEF Usable, Dated
<1>13. CASE OthersChange \/ Revoke
    <2>1. UNCHANGED <<provider, issued, session, clock, own>> /\ (accepted' = accepted \/ accepted' = {})
        BY <1>13 DEF OthersChange, Revoke
    <2>2. \A c \in Client : TokensOf(c)' /\ TimeOf(c)'
        BY <1>1, <2>1 DEF own, TokensOf, TimeOf, Usable, Dated, Waiting, Patience
    <2>3. QED
        BY <1>1, <1>2, <2>1, <2>2 DEF Usable, Dated
<1>14. QED
    BY <1>5, <1>6, <1>7, <1>8, <1>9, <1>10, <1>11, <1>12, <1>13, NextKinds

\* The account stays usable: each of the refresh tokens kept is one of those the
\* service accepts, also after apply_refresh took over an answer without one.
THEOREM TokensStayAccepted == Spec => []StaysAuthorised
<1>1. TypeInv /\ Fresh => StaysAuthorised
    BY DEF Fresh, TokensKept, Usable, StaysAuthorised
<1>2. Init => TypeInv /\ Fresh
    BY InitTypes, InitFresh
<1>3. TypeInv /\ Fresh /\ [Next]_vars => (TypeInv /\ Fresh)'
    BY NextTypes, NextFresh
<1>4. QED
    BY <1>1, <1>2, <1>3, PTL DEF Spec

\* EXPIRY_SKEW is enough: whenever a request of ensure_fresh_token's kind arrives,
\* the service still takes its token.
THEOREM TokensArriveFresh == Spec => []FreshOnArrival
<1>1. TypeInv /\ Fresh => FreshOnArrival
    <2> SUFFICES ASSUME TypeInv, Fresh, NEW c \in Client,
                        Ready(c, pc[c]), IsRequest(c), Expired(c), pc[c] # "page"
                 PROVE  FALSE
        BY DEF FreshOnArrival
    <2>1. TimeOf(c)
        BY FreshOf
    <2>2. checked[c] /\ Waiting(c) /\ reply[c] = None
        BY DEF Ready, At, IsRequest, Request, Expired, TokenFirst, Waiting, TypeInv, Started
    <2>3. profile[c] \in Account /\ profile[c] # None
        BY <2>2, ProfileOf DEF Waiting
    <2>4. /\ profile[c].access \in 1 .. Len(issued) /\ issued[profile[c].access] > sent[c] + TRANSIT
          /\ sent[c] <= clock /\ clock - sent[c] <= TRANSIT
        BY <2>1, <2>2, <2>3 DEF TimeOf, Dated, Patience
    <2>5. sent[c] \in Nat /\ clock \in Nat /\ issued[profile[c].access] \in Nat
        BY <2>4, Times DEF TypeInv, ClientType
    <2>6. clock >= issued[profile[c].access]
        BY DEF Expired
    <2>7. QED
        BY <2>4, <2>5, <2>6, Numbers
<1>2. Init => TypeInv /\ Fresh
    BY InitTypes, InitFresh
<1>3. TypeInv /\ Fresh /\ [Next]_vars => (TypeInv /\ Fresh)'
    BY NextTypes, NextFresh
<1>4. QED
    BY <1>1, <1>2, <1>3, PTL DEF Spec

-------------------------------------------------------------------------------
(* The folder.                                                             *)

\* What is below a thing goes with it.
LEMMA BeneathSelf ==
    ASSUME NEW T, NEW id, NEW t \in T, t.id = id
    PROVE  t \in Beneath(T, id)
BY DEF Beneath

\* What is in something beneath is beneath.
LEMMA BeneathDown ==
    ASSUME NEW T, NEW id, NEW u \in Beneath(T, id), NEW t \in T, t.in = u.id
    PROVE  t \in Beneath(T, id)
<1>1. ASSUME NEW S \in SUBSET T, \A v \in T : v.id = id \/ (\E s \in S : s.id = v.in) => v \in S
      PROVE  t \in S
    <2>1. u \in S
        BY <1>1 DEF Beneath
    <2>2. QED
        BY <1>1, <2>1
<1>2. QED
    BY <1>1 DEF Beneath

\* What a step leaves of the folder, thing by thing.
LEMMA AddedThings ==
    ASSUME TypeInv, ThingsInv, Added
    PROVE  \E x \in Thing :
            /\ x.id = used.ids + 1 /\ Exists(x.in)
            /\ provider # "google_drive" => ~TakenIn(x.in, x.name)
            /\ \A t : t \in things' <=> t \in things \/ t = x
            /\ \A t \in things : t.id # x.id /\ t.in # x.id
            /\ used'.ids = used.ids + 1
<1>1. PICK x \in Thing :
        /\ x.id = used.ids + 1 /\ Exists(x.in)
        /\ provider # "google_drive" => ~TakenIn(x.in, x.name)
        /\ things' = things \union {x} /\ used'.ids = used.ids + 1
    BY DEF Added
<1>2. used.ids \in Nat
    BY DEF TypeInv, ServiceType
<1>3. \A t \in things : t.id <= used.ids /\ t.id \in Nat
    BY DEF ThingsInv, TypeInv, ServiceType, Thing
<1>4. \A t \in things : t.in <= used.ids /\ t.in \in Nat
    <2>1. ASSUME NEW t \in things
          PROVE  t.in <= used.ids /\ t.in \in Nat
        <3>1. t.in = Top \/ \E u \in things : u.id = t.in
            BY DEF ThingsInv, Exists
        <3>2. QED
            BY <1>2, <1>3, <3>1 DEF Top
    <2>2. QED
        BY <2>1
<1>5. \A t \in things : t.id # x.id /\ t.in # x.id
    BY <1>1, <1>2, <1>3, <1>4
<1>6. QED
    BY <1>1, <1>5

\* A removal leaves nothing whose folder is gone.
LEMMA RemovedThings ==
    ASSUME ThingsInv, Removed
    PROVE  /\ things' \subseteq things /\ used'.ids = used.ids
           /\ \A t \in things', u \in things : t.in = u.id => u \in things'
<1>1. PICK id : things' = things \ Beneath(things, id)
    BY DEF Removed
<1>2. ASSUME NEW t \in things', NEW u \in things, t.in = u.id, u \notin things'
      PROVE  FALSE
    <2>1. u \in Beneath(things, id) /\ t \in things /\ t \notin Beneath(things, id)
        BY <1>1, <1>2
    <2>2. QED
        BY <1>2, <2>1, BeneathDown
<1>3. QED
    BY <1>1, <1>2 DEF Removed

\* A new name is given to one file, where it was free.
LEMMA RenamedThings ==
    ASSUME TypeInv, ThingsInv, Renamed
    PROVE  \E t \in things, s \in Thing :
            /\ ~t.folder /\ ~TakenIn(t.in, s.name) /\ s.name # t.name
            /\ s.id = t.id /\ s.in = t.in /\ ~s.folder
            /\ \A x : x \in things' <=> (x \in things /\ x # t) \/ x = s
            /\ used'.ids = used.ids
<1>1. PICK t \in things, n \in Names :
        /\ ~t.folder /\ ~TakenIn(t.in, n)
        /\ things' = (things \ {t}) \union {[t EXCEPT !.name = n]} /\ used'.ids = used.ids
    BY DEF Renamed
<1> DEFINE s == [t EXCEPT !.name = n]
<1>2. t \in Thing
    BY DEF TypeInv, ServiceType
<1>3. s \in Thing /\ s.id = t.id /\ s.in = t.in /\ s.folder = t.folder /\ s.name = n
    BY <1>2 DEF Thing, AnyName
<1>4. things' = (things \ {t}) \union {s}
    BY <1>1
<1> HIDE DEF s
<1>5. s.name # t.name
    BY <1>1, <1>3 DEF TakenIn, Children
<1>6. \A x : x \in things' <=> (x \in things /\ x # t) \/ x = s
    BY <1>4
<1>7. QED
    BY <1>1, <1>3, <1>5, <1>6

\* Ids are unique, and everything is in a folder, initially ...
LEMMA InitThings == Init => ThingsInv
<1> SUFFICES ASSUME Init PROVE ThingsInv
    OBVIOUS
<1> DEFINE r == [id |-> 1, name |-> RootName, in |-> Top, folder |-> TRUE]
           d == [id |-> 2, name |-> "d", in |-> 1, folder |-> TRUE]
           f == [id |-> 3, name |-> "f", in |-> 1, folder |-> FALSE]
           g == [id |-> 4, name |-> "f", in |-> 2, folder |-> FALSE]
<1>1. used.ids = 4
    BY DEF Init
<1>2. CASE things = {}
    BY <1>2 DEF ThingsInv
<1>3. CASE things = {r, d, f, g}
    <2>1. /\ r.id = 1 /\ r.in = Top /\ r.folder
          /\ d.id = 2 /\ d.in = 1 /\ d.folder /\ d.name = "d"
          /\ f.id = 3 /\ f.in = 1 /\ f.name = "f"
          /\ g.id = 4 /\ g.in = 2 /\ g.name = "f"
        OBVIOUS
    <2> HIDE DEF r, d, f, g
    <2>2. \A t, u \in things : t.id = u.id => t = u
        BY <1>3, <2>1
    <2>3. Exists(Top) /\ Exists(1) /\ Exists(2)
        BY <1>3, <2>1 DEF Exists
    <2>4. \A t \in things : Exists(t.in) /\ t.id <= used.ids
        BY <1>1, <1>3, <2>1, <2>3
    <2>5. \A t, u \in things : t.in = u.in /\ t.name = u.name => t = u
        BY <1>3, <2>1 DEF Top
    <2>6. QED
        BY <2>2, <2>4, <2>5 DEF ThingsInv
<1>4. QED
    BY <1>2, <1>3 DEF Init

\* ... and after every step.
LEMMA ThingsKept ==
    ASSUME TypeInv, ThingsInv, ThingsChange, provider' = provider
    PROVE  ThingsInv'
<1>1. CASE Added
    <2>1. PICK x \in Thing :
            /\ x.id = used.ids + 1 /\ Exists(x.in)
            /\ provider # "google_drive" => ~TakenIn(x.in, x.name)
            /\ \A t : t \in things' <=> t \in things \/ t = x
            /\ \A t \in things : t.id # x.id /\ t.in # x.id
            /\ used'.ids = used.ids + 1
        BY <1>1, AddedThings
    <2>2. \A t, u \in things' : t.id = u.id => t = u
        BY <2>1 DEF ThingsInv
    <2>3. ASSUME NEW t \in things'
          PROVE  Exists(t.in)' /\ t.id <= used'.ids
        <3>1. Exists(t.in)
            BY <2>1 DEF ThingsInv
        <3>2. used.ids \in Nat /\ (t \in things => t.id \in Nat /\ t.id <= used.ids)
            BY DEF ThingsInv, TypeInv, ServiceType, Thing
        <3>3. QED
            BY <2>1, <3>1, <3>2 DEF Exists
    <2>4. provider # "google_drive" => \A t, u \in things' : t.in = u.in /\ t.name = u.name => t = u
        BY <2>1 DEF ThingsInv, TakenIn, Children
    <2>5. QED
        BY <2>2, <2>3, <2>4 DEF ThingsInv
<1>2. CASE Removed
    <2>1. /\ things' \subseteq things /\ used'.ids = used.ids
          /\ \A t \in things', u \in things : t.in = u.id => u \in things'
        BY <1>2, RemovedThings
    <2>2. ASSUME NEW t \in things'
          PROVE  Exists(t.in)'
        <3>1. t \in things
            BY <2>1
        <3>2. t.in = Top \/ \E u \in things : u.id = t.in /\ u.folder
            BY <3>1 DEF ThingsInv, Exists
        <3>3. QED
            BY <2>1, <3>2 DEF Exists
    <2>3. \A t \in things' : t \in things /\ t.id <= used'.ids
        BY <2>1 DEF ThingsInv
    <2>4. QED
        BY <2>2, <2>3 DEF ThingsInv
<1>3. CASE Renamed
    <2>1. PICK t \in things, s \in Thing :
            /\ ~t.folder /\ ~TakenIn(t.in, s.name) /\ s.name # t.name
            /\ s.id = t.id /\ s.in = t.in /\ ~s.folder
            /\ \A x : x \in things' <=> (x \in things /\ x # t) \/ x = s
            /\ used'.ids = used.ids
        BY <1>3, RenamedThings
    <2>2. \A u, v \in things' : u.id = v.id => u = v
        BY <2>1 DEF ThingsInv
    <2>3. ASSUME NEW u \in things'
          PROVE  Exists(u.in)' /\ u.id <= used'.ids
        <3>1. Exists(u.in) /\ u.id <= used.ids
            BY <2>1 DEF ThingsInv
        <3>2. QED
            BY <2>1, <3>1 DEF Exists
    <2>4. provider # "google_drive" => \A u, v \in things' : u.in = v.in /\ u.name = v.name => u = v
        BY <2>1 DEF ThingsInv, TakenIn, Children
    <2>5. QED
        BY <2>2, <2>3, <2>4 DEF ThingsInv
<1>4. CASE things' = things /\ used'.ids = used.ids
    BY <1>4 DEF ThingsInv, Exists
<1>5. QED
    BY <1>1, <1>2, <1>3, <1>4 DEF ThingsChange

-------------------------------------------------------------------------------
(* What a step does with each client.                                      *)

\* Nothing, but that a token may have changed.
Still(d) ==
    /\ UNCHANGED provider
    /\ pc'[d] = pc[d] /\ call'[d] = call[d] /\ rest'[d] = rest[d]
    /\ here'[d] = here[d] /\ got'[d] = got[d] /\ result'[d] = result[d]
    /\ profile[d] = None => profile'[d] = None
    /\ profile[d] # None => profile'[d] # None /\ profile'[d].root_id = profile[d].root_id

\* It goes on with the call.
Acts(c) ==
    \/ /\ UNCHANGED used
       /\ \/ RefreshRefused(c) \/ Unauthorized(c) \/ Fails(c) \/ Begin(c)
          \/ CachedRoot(c) \/ FindRoot(c) \/ Walk(c)
          \/ Leaf(c) \/ Get(c) \/ Delete(c) \/ Probe(c) \/ Page(c)
    \/ CreateRoot(c) \/ CreateFolder(c) \/ MakeFolder(c)

\* A step that goes on with a call leaves what Answered says.
LEMMA ActsAnswered ==
    ASSUME TypeInv, NEW c \in Client, Acts(c)
    PROVE  Answered(c)
BY PlainAnswers, RootAnswers, WalkAnswers, EndAnswers DEF Acts

\* A client the step is not of stays as it is.
LEMMA AsideStill ==
    ASSUME NEW c \in Client, Aside(c), UNCHANGED provider, NEW d \in Client \ {c}
    PROVE  Still(d)
BY DEF Aside, Still

\* A token changes nothing of what a call has resolved.
LEMMA TokensStill ==
    ASSUME TypeInv, NEW c \in Client, FreshToken(c) \/ RefreshIssued(c) \/ RefreshApplied(c)
    PROVE  UNCHANGED <<provider, session>> /\ \A d \in Client : Still(d)
<1>1. Tokens(c)
    BY FreshTokenStep, RefreshIssuedStep, RefreshAppliedStep, Applies
<1>2. profile'[c] = profile[c] \/ RefreshApplied(c)
    BY FreshTokenStep, RefreshIssuedStep
<1>3. ASSUME RefreshApplied(c)
      PROVE  profile[c] # None /\ profile'[c] # None /\ profile'[c].root_id = profile[c].root_id
    <2>1. /\ profile[c] \in Account /\ profile[c] # None /\ TokenFirst(c) /\ ~checked[c]
        BY <1>3, Applies
    <2>2. profile'[c] = apply_refresh(profile[c], reply[c]) /\ profile'[c] \in Account
        BY <1>3, <2>1, RefreshAppliedStep
    <2>3. QED
        BY <2>1, <2>2, NoneIsNothing DEF apply_refresh, Account
<1>4. Still(c)
    BY <1>1, <1>2, <1>3 DEF Tokens, Still
<1>5. QED
    BY <1>1, <1>4, AsideStill DEF Tokens

\* What a step is for each of the clients.
LEMMA NextCases ==
    ASSUME TypeInv, Next
    PROVE  /\ ThingsChange /\ UNCHANGED provider
           /\ \A d \in Client : Still(d) \/ Acts(d) \/ Ended(d) \/ \E k \in Asked : Began(d, k)
           /\ session' = session \/ \E c \in Client : profile[c] # None /\ session' = profile[c]
<1>1. ThingsChange
    BY NextThings
<1>2. ASSUME NEW c \in Client, Acts(c)
      PROVE  UNCHANGED <<provider, session>> /\ \A d \in Client : Still(d) \/ Acts(d)
    <2>1. Aside(c) /\ UNCHANGED <<provider, session>>
        BY <1>2, ActsAnswered DEF Answered
    <2>2. QED
        BY <1>2, <2>1, AsideStill
<1>3. ASSUME NEW c \in Client, Ended(c)
      PROVE  /\ UNCHANGED provider /\ \A d \in Client : Still(d) \/ Ended(d)
             /\ session' = session \/ (profile[c] # None /\ session' = profile[c])
    <2>1. profile[c] # None
        BY <1>3, ProfileOf DEF Ended
    <2>2. Aside(c) /\ UNCHANGED provider /\ session' \in {session, profile[c]}
        BY <1>3 DEF Ended
    <2>3. \A d \in Client \ {c} : Still(d)
        BY <2>2, AsideStill
    <2>4. QED
        BY <1>3, <2>1, <2>2, <2>3
<1>4. ASSUME NEW c \in Client, NEW k \in Asked, Began(c, k)
      PROVE  UNCHANGED <<provider, session>> /\ \A d \in Client : Still(d) \/ \E j \in Asked : Began(d, j)
    <2>1. Aside(c) /\ UNCHANGED <<provider, session>>
        BY <1>4 DEF Began
    <2>2. QED
        BY <1>4, <2>1, AsideStill
<1>5. CASE Tick \/ OthersChange \/ Revoke
    <2>1. UNCHANGED <<provider, session, own>>
        BY <1>5 DEF Tick, OthersChange, Revoke, service
    <2>2. QED
        BY <1>1, <2>1 DEF own, Still
<1>6. ASSUME NEW c \in Client, Step(c), UNCHANGED used
      PROVE  Acts(c) \/ Ended(c) \/ FreshToken(c) \/ RefreshIssued(c) \/ RefreshApplied(c)
    BY <1>6, ReportStep DEF Step, Acts
<1>7. ASSUME NEW c \in Client, (Delete(c) /\ UNCHANGED used) \/ CreateRoot(c) \/ CreateFolder(c) \/ MakeFolder(c)
      PROVE  Acts(c)
    BY <1>7 DEF Acts
<1>8. ASSUME NEW c \in Client, NEW k \in Call[c], NEW kept \in BOOLEAN, Start(c, k, kept)
      PROVE  k \in Asked /\ Began(c, k)
    BY <1>8, StartStep DEF Began
<1>9. CASE \E c \in Client : Acts(c)
    BY <1>1, <1>2, <1>9
<1>10. CASE \E c \in Client : Ended(c)
    BY <1>1, <1>3, <1>10
<1>11. CASE \E c \in Client : FreshToken(c) \/ RefreshIssued(c) \/ RefreshApplied(c)
    BY <1>1, <1>11, TokensStill
<1>12. CASE \E c \in Client : \E k \in Asked : Began(c, k)
    BY <1>1, <1>4, <1>12
<1>13. QED
    BY <1>5, <1>6, <1>7, <1>8, <1>9, <1>10, <1>11, <1>12 DEF Next

-------------------------------------------------------------------------------
(* Stages.                                                                 *)

\* Stages of a client that stays as it is,
LEMMA StillStage ==
    ASSUME NEW d \in Client, Still(d), StageOf(d), pc[d] # "idle" => profile[d] # None
    PROVE  StageOf(d)'
BY DEF Still, StageOf, HasTokens, ById

\* ... whose call has returned,
LEMMA DoneStage == ASSUME NEW c \in Client, pc'[c] \in {"report", "idle"} PROVE StageOf(c)'
BY DEF StageOf

\* ... whose call began,
LEMMA BeganStage ==
    ASSUME TypeInv, NEW c \in Client, NEW k \in Asked, Began(c, k)
    PROVE  StageOf(c)'
<1>1. /\ pc'[c] = FirstRequest(k) /\ call'[c] = k /\ provider' = provider
      /\ rest'[c] = (IF provider = "dropbox" THEN <<RootName>> \o k.dirs ELSE k.dirs)
      /\ here'[c] = None /\ got'[c] = {}
    BY DEF Began
<1>2. FirstRequest(k) \in {"begin", "probe", "report", "mkdir", "root", "get", "remove"}
    BY FirstRequestStage DEF TypeInv
<1>3. /\ pc'[c] \in {"begin", "probe"} => k.op = "list"
      /\ pc'[c] = "get" => k.op = "download"
      /\ pc'[c] = "remove" => k.op = "delete"
      /\ pc'[c] = "mkdir" => k.op = "ensure"
      /\ pc'[c] = "begin" => HasTokens
      /\ pc'[c] = "root" => ById
    BY <1>1, FirstRequestStage DEF TypeInv
<1>4. ById => rest'[c] = k.dirs
    BY <1>1 DEF ById
<1>5. QED
    BY <1>1, <1>2, <1>3, <1>4 DEF StageOf, ById, HasTokens

\* Where a folder reached leads to.
LEMMA ReachStage ==
    ASSUME TypeInv, NEW c \in Client, NEW id \in Nat, NEW left \in Seq(AnyName), Reach(c, id, left),
           UNCHANGED <<provider, call>>, got'[c] = {}, ById
    PROVE  StageOf(c)'
<1>1. \/ pc'[c] = "walk"
      \/ call[c].op = "list" /\ pc'[c] = "page"
      \/ pc'[c] = "report"
      \/ call[c].op \in {"download", "delete"} /\ pc'[c] = "leaf"
    BY ReachMoves DEF TypeInv, ServiceType
<1>2. QED
    BY <1>1 DEF StageOf, ById

\* ... and of one that goes on.
LEMMA ActsStage ==
    ASSUME TypeInv, NEW c \in Client, Acts(c), StageOf(c)
    PROVE  StageOf(c)'
<1> USE DEF TypeInv, ServiceType
<1>1. ASSUME NEW r, Return(c, r)
      PROVE  StageOf(c)'
    BY <1>1, ReturnMoves, DoneStage
<1>2. Waiting(c) /\ call[c] \in Asked /\ profile[c] \in Account /\ profile[c] # None
      /\ rest[c] \in Seq(AnyName)
    BY ActsAnswered, ProfileOf DEF Answered, Waiting, ClientType
<1>3. ASSUME NEW next \in Stages \ {"idle", "probe"}, Go(c, next)
      PROVE  pc'[c] = next
    BY <1>3, GoMoves
<1>4. ASSUME NEW id \in Nat, pc[c] \in {"root", "mkroot"}, Reach(c, id, rest[c]), UNCHANGED <<provider, call, got>>
      PROVE  StageOf(c)'
    BY <1>2, <1>4, ReachStage DEF StageOf
<1>5. ASSUME NEW id \in Nat, pc[c] \in {"walk", "mkdir"}, ById, Descend(c, id), UNCHANGED <<provider, call, got>>
      PROVE  StageOf(c)'
    <2>1. Tail(rest[c]) \in Seq(AnyName)
        BY <1>2, <1>5 DEF Started
    <2>2. QED
        BY <1>5, <2>1, ReachStage DEF StageOf, Descend
<1>6. {"root", "page", "mkroot", "mkdir", "get", "remove"} \subseteq Stages \ {"idle", "probe"}
    BY DEF Stages
<1>7. CASE RefreshRefused(c) \/ Unauthorized(c) \/ Fails(c) \/ Get(c) \/ Delete(c)
    BY <1>1, <1>7 DEF RefreshRefused, Unauthorized, Fails, Get, Delete
<1>8. CASE Begin(c)
    <2>1. pc[c] = "begin" /\ UNCHANGED <<provider, call, profile, rest, here, got>>
        BY <1>8 DEF Begin, Ready, At, service
    <2>2. pc'[c] = (IF ById THEN "root" ELSE "page")
        BY <1>3, <1>6, <1>8 DEF Begin
    <2>3. QED
        BY <2>1, <2>2 DEF StageOf, ById
<1>9. CASE CachedRoot(c)
    <2>1. profile[c].root_id \in Nat
        BY <1>2, <1>9 DEF CachedRoot, Account
    <2>2. QED
        BY <1>4, <1>9, <2>1 DEF CachedRoot, At, service
<1>10. CASE FindRoot(c)
    <2>1. pc[c] = "root" /\ profile[c].root_id = None /\ UNCHANGED <<provider, call, got>>
        BY <1>10 DEF FindRoot, Send, Ready, At, service
    <2>2. ASSUME NEW t \in Folders(things, Top, RootName), KeepRoot(c, t.id)
          PROVE  StageOf(c)'
        BY <1>4, <2>1, <2>2 DEF KeepRoot, Folders, Children, Thing
    <2>3. CASE Go(c, "mkroot") /\ UNCHANGED <<profile, dirty, rest, here>>
        <3>1. pc'[c] = "mkroot"
            BY <1>3, <1>6, <2>3
        <3>2. QED
            BY <2>1, <2>3, <3>1 DEF StageOf, ById
    <2>4. QED
        BY <1>10, <2>2, <2>3 DEF FindRoot
<1>11. CASE CreateRoot(c)
    <2>1. pc[c] = "mkroot" /\ UNCHANGED <<provider, call, got>>
        BY <1>11 DEF CreateRoot, Send, Ready, At
    <2>2. CASE KeepRoot(c, used.ids + 1)
        BY <1>4, <2>1, <2>2 DEF KeepRoot
    <2>3. QED
        BY <1>1, <1>11, <2>2 DEF CreateRoot
<1>12. CASE Walk(c)
    <2>1. pc[c] = "walk" /\ UNCHANGED <<provider, call, profile, got>> /\ ById
        BY <1>12 DEF Walk, Send, Ready, At, service, StageOf
    <2>2. ASSUME NEW t \in Folders(things, here[c], Head(rest[c])), Descend(c, t.id)
          PROVE  StageOf(c)'
        BY <1>5, <2>1, <2>2 DEF Folders, Children, Thing
    <2>3. CASE call[c].op = "ensure" /\ Go(c, "mkdir")
        <3>1. pc'[c] = "mkdir"
            BY <1>3, <1>6, <2>3
        <3>2. QED
            BY <2>1, <2>3, <3>1 DEF StageOf, ById
    <2>4. QED
        BY <1>1, <1>12, <2>2, <2>3 DEF Walk
<1>13. CASE CreateFolder(c)
    <2>1. pc[c] = "mkdir" /\ UNCHANGED <<provider, call, got>> /\ ById
        BY <1>13 DEF CreateFolder, Send, Ready, At
    <2>2. QED
        BY <1>1, <1>5, <1>13, <2>1 DEF CreateFolder
<1>14. CASE MakeFolder(c)
    <2>1. pc[c] = "mkdir" /\ UNCHANGED <<provider, call, got>>
        BY <1>14 DEF MakeFolder, Send, Ready, At
    <2>2. CASE Go(c, "mkdir")
        <3>1. pc'[c] = "mkdir"
            BY <1>3, <1>6, <2>2
        <3>2. QED
            BY <2>1, <3>1 DEF StageOf
    <2>3. QED
        BY <1>1, <1>14, <2>2 DEF MakeFolder
<1>15. CASE Leaf(c)
    <2>1. pc[c] = "leaf" /\ UNCHANGED <<provider, call, got>>
        BY <1>15 DEF Leaf, Send, Ready, At, service
    <2>2. CASE Go(c, IF call[c].op = "download" THEN "get" ELSE "remove")
        <3>1. pc'[c] = (IF call[c].op = "download" THEN "get" ELSE "remove")
            BY <1>3, <1>6, <2>2
        <3>2. QED
            BY <2>1, <3>1 DEF StageOf
    <2>3. QED
        BY <1>1, <1>15, <2>2 DEF Leaf
<1>16. CASE Probe(c) \/ Page(c)
    <2>1. pc[c] \in {"probe", "page"} /\ UNCHANGED <<provider, call>>
        BY <1>16 DEF Probe, Page, Send, Ready, At, service
    <2>2. CASE Go(c, "page")
        <3>1. pc'[c] = "page"
            BY <1>3, <1>6, <2>2
        <3>2. QED
            BY <2>1, <3>1 DEF StageOf
    <2>3. QED
        BY <1>1, <1>16, <2>2 DEF Probe, Page
<1>17. QED
    BY <1>7, <1>8, <1>9, <1>10, <1>11, <1>12, <1>13, <1>14, <1>15, <1>16 DEF Acts

-------------------------------------------------------------------------------
(* Known root folders.                                                     *)

\* The thing of a known root folder stays a folder for as long as it is there.
LEMMA KnownStays ==
    ASSUME TypeInv, ThingsInv, ThingsChange, provider' = provider, NEW p, KnownRoot(p)
    PROVE  /\ used.ids <= used'.ids
           /\ p.root_id # None => ById /\ p.root_id \in 1 .. used'.ids
           /\ p.root_id # None => \A t \in things' : t.id = p.root_id => t.folder
<1>1. used.ids \in Nat
    BY DEF TypeInv, ServiceType
<1>2. CASE Added
    <2>1. PICK x \in Thing :
            /\ x.id = used.ids + 1 /\ used'.ids = used.ids + 1
            /\ \A t : t \in things' <=> t \in things \/ t = x
        BY <1>2, AddedThings
    <2>2. p.root_id # None => p.root_id # x.id
        BY <1>1, <2>1 DEF KnownRoot
    <2>3. QED
        BY <1>1, <2>1, <2>2 DEF KnownRoot
<1>3. CASE Removed
    BY <1>1, <1>3, RemovedThings DEF KnownRoot
<1>4. CASE Renamed
    <2>1. PICK t \in things, s \in Thing :
            /\ ~t.folder /\ s.id = t.id
            /\ \A x : x \in things' <=> (x \in things /\ x # t) \/ x = s
            /\ used'.ids = used.ids
        BY <1>4, RenamedThings
    <2>2. p.root_id # None => p.root_id # t.id
        BY <2>1 DEF KnownRoot
    <2>3. QED
        BY <1>1, <2>1, <2>2 DEF KnownRoot
<1>5. CASE things' = things /\ used'.ids = used.ids
    BY <1>1, <1>5 DEF KnownRoot
<1>6. QED
    BY <1>2, <1>3, <1>4, <1>5 DEF ThingsChange

\* ... also of a profile with that root folder after the step.
LEMMA KnownPrimed ==
    ASSUME TypeInv, ThingsInv, ThingsChange, provider' = provider,
           NEW p, KnownRoot(p), NEW q, q.root_id = p.root_id
    PROVE  \/ q.root_id = None
           \/ /\ provider' \in {"google_drive", "onedrive"}
              /\ q.root_id \in 1 .. used'.ids
              /\ \A t \in things' : t.id = q.root_id => t.folder
BY KnownStays DEF ById

\* Who takes a root folder for known has it from the service.
LEMMA ActsRoot ==
    ASSUME TypeInv, ThingsInv, NEW c \in Client, Acts(c), StageOf(c)
    PROVE  \/ profile'[c].root_id = profile[c].root_id
           \/ /\ ById /\ profile'[c].root_id \in 1 .. used'.ids
              /\ \A t \in things' : t.id = profile'[c].root_id => t.folder
              /\ \E t \in things' : t.id = profile'[c].root_id
<1> USE DEF TypeInv, ServiceType
<1>1. Answered(c)
    BY ActsAnswered
<1>2. profile[c] \in Account /\ profile[c] # None
    BY <1>1, ProfileOf DEF Answered, Waiting
<1>3. ASSUME NEW id \in Nat, KeepRoot(c, id)
      PROVE  profile'[c].root_id = id
    BY <1>2, <1>3 DEF KeepRoot, ClientType, Account
<1>4. CASE FindRoot(c) /\ UNCHANGED used
    <2>1. ById /\ things' = things
        BY <1>4 DEF FindRoot, Send, Ready, At, StageOf, service
    <2>2. ASSUME NEW t \in Folders(things, Top, RootName), KeepRoot(c, t.id)
          PROVE  /\ profile'[c].root_id \in 1 .. used'.ids
                 /\ \A u \in things' : u.id = profile'[c].root_id => u.folder
                 /\ \E u \in things' : u.id = profile'[c].root_id
        <3>1. t \in things /\ t.folder /\ t.id \in Nat \ {0} /\ t.id <= used.ids /\ used.ids \in Nat
            BY DEF Folders, Children, Thing, ThingsInv
        <3>2. profile'[c].root_id = t.id
            BY <1>3, <2>2, <3>1
        <3>3. \A u \in things : u.id = t.id => u = t
            BY <3>1 DEF ThingsInv
        <3>4. QED
            BY <1>4, <2>1, <3>1, <3>2, <3>3
    <2>3. QED
        BY <1>4, <2>1, <2>2 DEF FindRoot
<1>5. CASE CreateRoot(c)
    <2>1. ById
        BY <1>5 DEF CreateRoot, Send, Ready, At, StageOf
    <2>2. CASE /\ things' = things \union {NewFolder(Top, RootName)}
               /\ used' = [used EXCEPT !.ids = @ + 1] /\ KeepRoot(c, used.ids + 1)
        <3>1. profile'[c].root_id = used.ids + 1 /\ used'.ids = used.ids + 1 /\ used.ids \in Nat
            BY <1>3, <2>2
        <3>2. NewFolder(Top, RootName).id = used.ids + 1 /\ NewFolder(Top, RootName).folder
            BY DEF NewFolder
        <3>3. \A u \in things : u.id <= used.ids /\ u.id \in Nat
            BY DEF ThingsInv, Thing
        <3>4. \A u \in things' : u.id = used.ids + 1 => u.folder
            BY <2>2, <3>1, <3>2, <3>3
        <3>5. \E u \in things' : u.id = used.ids + 1
            BY <2>2, <3>2
        <3>6. QED
            BY <2>1, <3>1, <3>4, <3>5
    <2>3. QED
        BY <1>5, <2>2 DEF CreateRoot
<1>6. CASE \/ RefreshRefused(c) \/ Unauthorized(c) \/ Fails(c) \/ Begin(c) \/ CachedRoot(c) \/ Walk(c)
           \/ CreateFolder(c) \/ MakeFolder(c) \/ Leaf(c) \/ Get(c) \/ Delete(c) \/ Probe(c) \/ Page(c)
    <2>1. profile' = profile
        BY <1>6 DEF RefreshRefused, Unauthorized, Fails, Begin, CachedRoot, Walk, CreateFolder, MakeFolder,
            Leaf, Get, Delete, Probe, Page
    <2>2. QED
        BY <2>1
<1>7. QED
    BY <1>4, <1>5, <1>6 DEF Acts

\* Known root folders stay known.
LEMMA RootKept ==
    ASSUME TypeInv, ThingsInv, RootInv, StageInv, Next
    PROVE  RootInv'
<1>1. /\ ThingsChange /\ UNCHANGED provider
      /\ \A d \in Client : Still(d) \/ Acts(d) \/ Ended(d) \/ \E k \in Asked : Began(d, k)
      /\ session' = session \/ \E c \in Client : profile[c] # None /\ session' = profile[c]
    BY NextCases
<1> DEFINE Known(q) ==
        \/ q.root_id = None
        \/ /\ provider' \in {"google_drive", "onedrive"}
           /\ q.root_id \in 1 .. used'.ids
           /\ \A t \in things' : t.id = q.root_id => t.folder
<1>2. ASSUME NEW p, KnownRoot(p), NEW q, q.root_id = p.root_id
      PROVE  Known(q)
    BY <1>1, <1>2, KnownPrimed
<1>3. Known(session')
    BY <1>1, <1>2 DEF RootInv
<1>4. ASSUME NEW c \in Client, profile'[c] # None
      PROVE  Known(profile'[c])
    <2>1. CASE Still(c)
        <3>1. profile[c] # None /\ profile'[c].root_id = profile[c].root_id
            BY <1>4, <2>1 DEF Still
        <3>2. QED
            BY <1>2, <3>1 DEF RootInv
    <2>2. CASE Acts(c)
        <3>1. profile[c] # None
            BY <2>2, ActsAnswered, ProfileOf DEF Answered, Waiting
        <3>2. CASE profile'[c].root_id = profile[c].root_id
            BY <1>2, <3>1, <3>2 DEF RootInv
        <3>3. CASE profile'[c].root_id # profile[c].root_id
            BY <1>1, <2>2, <3>3, ActsRoot DEF StageInv, ById
        <3>4. QED
            BY <3>2, <3>3
    <2>3. CASE Ended(c)
        <3>1. profile[c] # None /\ profile'[c] = profile[c]
            BY <1>4, <2>3, ProfileOf DEF Ended
        <3>2. QED
            BY <1>2, <3>1 DEF RootInv
    <2>4. ASSUME NEW k \in Asked, Began(c, k)
          PROVE  Known(profile'[c])
        BY <1>2, <1>4, <2>4 DEF RootInv, Began
    <2>5. QED
        BY <1>1, <2>1, <2>2, <2>3, <2>4
<1>5. QED
    BY <1>3, <1>4 DEF RootInv, KnownRoot, ById

\* Every stage fits the call, after every step.
LEMMA StageKept ==
    ASSUME TypeInv, StageInv, Next
    PROVE  StageInv'
<1>1. \A d \in Client : Still(d) \/ Acts(d) \/ Ended(d) \/ \E k \in Asked : Began(d, k)
    BY NextCases
<1>2. ASSUME NEW c \in Client
      PROVE  StageOf(c)'
    <2>1. CASE Still(c)
        BY <2>1, StillStage, ProfileOf DEF StageInv
    <2>2. CASE Acts(c)
        BY <2>2, ActsStage DEF StageInv
    <2>3. CASE Ended(c)
        BY <2>3, DoneStage DEF Ended
    <2>4. CASE \E k \in Asked : Began(c, k)
        BY <2>4, BeganStage
    <2>5. QED
        BY <1>1, <2>1, <2>2, <2>3, <2>4
<1>3. QED
    BY <1>2 DEF StageInv

-------------------------------------------------------------------------------
(* What a call could have found.                                           *)

\* One record holds all of the history of a client.
LEMMA RememberedEach ==
    ASSUME NEW c \in Client, Remembered
    PROVE  /\ named'[c] = Remember(c).named /\ lasting'[c] = Remember(c).lasting
           /\ ever'[c] = Remember(c).ever /\ missing'[c] = Remember(c).missing
<1>1. PICK now : /\ now = [d \in Client |-> Remember(d)]
                 /\ named' = [d \in Client |-> now[d].named]
                 /\ lasting' = [d \in Client |-> now[d].lasting]
                 /\ ever' = [d \in Client |-> now[d].ever]
                 /\ missing' = [d \in Client |-> now[d].missing]
    BY Zenon DEF Remembered
<1>2. now[c] = Remember(c)
    BY <1>1
<1>3. QED
    BY <1>1, <1>2

\* After a step the history covers what is there now ...
LEMMA HistoryNow ==
    ASSUME NEW c \in Client, Remembered, pc'[c] # "idle"
    PROVE  HistoryOf(c)'
<1>1. /\ named'[c] = Remember(c).named /\ lasting'[c] = Remember(c).lasting
      /\ ever'[c] = Remember(c).ever /\ missing'[c] = Remember(c).missing
    BY RememberedEach
<1>2. CASE call'[c].op = "list"
    <2>1. /\ lasting'[c] \subseteq (IF Ambiguous(things)' THEN {} ELSE NamesAt(c)')
          /\ NamesAt(c)' \subseteq ever'[c]
          /\ (Ambiguous(things)' \/ Places(c)' = {}) => missing'[c]
        BY <1>1, <1>2 DEF Remember, Places, NamesAt
    <2>2. QED
        BY <1>2, <2>1 DEF HistoryOf
<1>3. CASE call'[c].op # "list"
    <2>1. /\ Holders(c)' \subseteq named'[c]
          /\ (Ambiguous(things)' \/ ~\E id \in Holders(c)' : Holders(c)' = {id}) => missing'[c]
        BY <1>1, <1>3 DEF Remember, Holders
    <2>2. QED
        BY <1>3, <2>1 DEF HistoryOf
<1>4. QED
    BY <1>2, <1>3

\* ... and what it covered before.
LEMMA HistoryGrows ==
    ASSUME NEW c \in Client, Remembered, pc[c] # "idle", pc'[c] # "idle", call'[c] = call[c]
    PROVE  /\ call[c].op = "list" => lasting'[c] \subseteq lasting[c] /\ ever[c] \subseteq ever'[c]
           /\ call[c].op # "list" => named[c] \subseteq named'[c]
           /\ missing[c] => missing'[c]
<1>1. /\ named'[c] = Remember(c).named /\ lasting'[c] = Remember(c).lasting
      /\ ever'[c] = Remember(c).ever /\ missing'[c] = Remember(c).missing
    BY RememberedEach
<1>2. CASE call[c].op = "list"
    BY <1>1, <1>2 DEF Remember
<1>3. CASE call[c].op # "list"
    BY <1>1, <1>3 DEF Remember
<1>4. QED
    BY <1>2, <1>3

\* A path that was lost stays so.
LEMMA LostStays ==
    ASSUME NEW c \in Client, Remembered, pc[c] # "idle", pc'[c] # "idle", call'[c] = call[c], Lost(c)
    PROVE  Lost(c)'
BY HistoryGrows DEF Lost

\* A path that leads nowhere is lost.
LEMMA LostNow ==
    ASSUME NEW c \in Client, HistoryOf(c), Places(c) = {}
    PROVE  Lost(c)
<1>1. CASE call[c].op = "list"
    BY <1>1 DEF HistoryOf, Lost, NamesAt
<1>2. CASE call[c].op # "list"
    <2>1. Holders(c) = {}
        BY DEF Holders, Named, Places
    <2>2. QED
        BY <1>2, <2>1 DEF HistoryOf, Lost
<1>3. QED
    BY <1>1, <1>2

\* Two folders of one name hide what is in them.
LEMMA LostAmbiguous ==
    ASSUME NEW c \in Client, HistoryOf(c), Ambiguous(things)
    PROVE  Lost(c)
BY DEF HistoryOf, Lost

-------------------------------------------------------------------------------
(* Where a call has got to.                                                *)

\* The roots of a path; one, unless Drive has two.
LEMMA RootIdsLone ==
    ASSUME TypeInv, ThingsInv, NEW p, ~Ambiguous(things)
    PROVE  Lone(RootIds(things, p))
<1>1. CASE p.root_id = None
    BY <1>1 DEF RootIds, Folders, Children, Ambiguous, Lone
<1>2. CASE p.root_id # None
    BY <1>2 DEF RootIds, Lone
<1>3. QED
    BY <1>1, <1>2

\* The roots of a path are folders.
LEMMA RootIdsExist ==
    ASSUME ThingsInv, TypeInv, NEW p, KnownRoot(p), NEW id \in RootIds(things, p)
    PROVE  id \in 1 .. used.ids /\ Exists(id)
<1>1. PICK t \in things : t.id = id /\ t.folder
    BY DEF RootIds, Folders, Children, KnownRoot
<1>2. t.id \in Nat \ {0} /\ t.id <= used.ids /\ used.ids \in Nat
    BY DEF ThingsInv, TypeInv, ServiceType, Thing
<1>3. QED
    BY <1>1, <1>2 DEF Exists

\* What is known of a client with a call.
Called(c) ==
    /\ profile[c] \in Account /\ profile[c] # None /\ KnownRoot(profile[c])
    /\ call[c] \in Asked /\ call[c].dirs \in Seq(Names) /\ Len(call[c].dirs) \in Nat

\* A client that is not idle has a call and a profile.
LEMMA CalledIs ==
    ASSUME TypeInv, RootInv, NEW c \in Client, pc[c] # "idle"
    PROVE  Called(c)
<1>1. profile[c] \in Account /\ profile[c] # None /\ call[c] \in Asked
    BY ProfileOf
<1>2. call[c].dirs \in Seq(Names)
    BY <1>1 DEF Asked
<1>3. QED
    BY <1>1, <1>2 DEF Called, RootInv

\* A path leads to folders that exist.
LEMMA WayExists ==
    ASSUME TypeInv, ThingsInv, NEW c \in Client, Called(c),
           NEW n \in 0 .. Len(call[c].dirs), NEW id \in Way(c)[n]
    PROVE  id \in 1 .. used.ids /\ Exists(id)
<1>1. id \in RootIds(things, profile[c]) \/ \E t \in things : t.id = id /\ t.folder
    BY AlongFolders DEF Way, Called
<1>2. CASE id \in RootIds(things, profile[c])
    BY <1>2, RootIdsExist DEF Called
<1>3. CASE \E t \in things : t.id = id /\ t.folder
    <2>1. PICK t \in things : t.id = id /\ t.folder
        BY <1>3
    <2>2. t.id \in Nat \ {0} /\ t.id <= used.ids /\ used.ids \in Nat
        BY DEF ThingsInv, TypeInv, ServiceType, Thing
    <2>3. QED
        BY <2>1, <2>2 DEF Exists
<1>4. QED
    BY <1>1, <1>2, <1>3

\* A path leads to one place, or it is lost.
LEMMA WayLone ==
    ASSUME TypeInv, ThingsInv, NEW c \in Client, Called(c), HistoryOf(c)
    PROVE  Lost(c) \/ \A n \in 0 .. Len(call[c].dirs) : Lone(Way(c)[n])
<1>1. CASE Ambiguous(things)
    BY <1>1, LostAmbiguous
<1>2. CASE ~Ambiguous(things)
    <2>1. Lone(RootIds(things, profile[c]))
        BY <1>2, RootIdsLone
    <2>2. QED
        BY <1>2, <2>1, AlongLone DEF Way, Called
<1>3. QED
    BY <1>1, <1>2

\* Where the way ends the path is lost.
LEMMA WayEnds ==
    ASSUME NEW c \in Client, Called(c), HistoryOf(c), NEW n \in 0 .. Len(call[c].dirs), Way(c)[n] = {}
    PROVE  Lost(c)
<1>1. Reached(things, RootIds(things, profile[c]), call[c].dirs) = {}
    BY AlongEnds DEF Way, Called
<1>2. QED
    BY <1>1, LostNow DEF Places

\* A path that leads nowhere after the step is lost.
LEMMA LostNext ==
    ASSUME NEW c \in Client, HistoryOf(c)', Places(c)' = {}
    PROVE  Lost(c)'
<1>1. CASE call'[c].op = "list"
    BY <1>1 DEF HistoryOf, Lost, NamesAt
<1>2. CASE call'[c].op # "list"
    <2>1. Holders(c)' = {}
        BY DEF Holders, Named, Places
    <2>2. QED
        BY <1>2, <2>1 DEF HistoryOf, Lost
<1>3. QED
    BY <1>1, <1>2

-------------------------------------------------------------------------------
(* What becomes of a place when a step changes the folder.                 *)

\* Nothing that leads somewhere is taken away, or nothing is added to it.
Grows == \A t \in things : t.folder => t \in things'
Shrinks == \A t \in things' : t.folder => t \in things

\* With an addition or a new name the roots stay roots.
LEMMA RootsGrow ==
    ASSUME TypeInv, ThingsInv, Added \/ Renamed \/ things' = things,
           NEW p, NEW q, q.root_id = p.root_id
    PROVE  Grows /\ RootIds(things, p) \subseteq RootIds(things', q)
<1>1. CASE Added
    <2>1. \A t \in things : t \in things'
        BY <1>1, AddedThings
    <2>2. QED
        BY <2>1 DEF Grows, RootIds, Folders, Children
<1>2. CASE Renamed
    <2>1. PICK t \in things, s \in Thing :
            /\ ~t.folder /\ s.id = t.id
            /\ \A x : x \in things' <=> (x \in things /\ x # t) \/ x = s
        BY <1>2, RenamedThings
    <2>2. Grows
        BY <2>1 DEF Grows
    <2>3. ASSUME NEW id \in RootIds(things, p)
          PROVE  id \in RootIds(things', q)
        <3>1. CASE p.root_id = None
            <4>1. PICK u \in things : u.in = Top /\ u.name = RootName /\ u.folder /\ u.id = id
                BY <3>1 DEF RootIds, Folders, Children
            <4>2. u \in things'
                BY <2>2, <4>1 DEF Grows
            <4>3. QED
                BY <3>1, <4>1, <4>2 DEF RootIds, Folders, Children
        <3>2. CASE p.root_id # None
            <4>1. PICK u \in things : u.id = p.root_id /\ u.id = id
                BY <3>2 DEF RootIds
            <4>2. \E v \in things' : v.id = id
                BY <2>1, <4>1
            <4>3. QED
                BY <3>2, <4>1, <4>2 DEF RootIds
        <3>3. QED
            BY <3>1, <3>2
    <2>4. QED
        BY <2>2, <2>3
<1>3. CASE things' = things
    BY <1>3 DEF Grows, RootIds
<1>4. QED
    BY <1>1, <1>2, <1>3

\* With a removal or a new name there are no new roots.
LEMMA RootsShrink ==
    ASSUME TypeInv, ThingsInv, Removed \/ Renamed \/ things' = things,
           NEW p, NEW q, q.root_id = p.root_id
    PROVE  Shrinks /\ RootIds(things', q) \subseteq RootIds(things, p)
<1>1. CASE Removed
    <2>1. \A t \in things' : t \in things
        BY <1>1, RemovedThings
    <2>2. QED
        BY <2>1 DEF Shrinks, RootIds, Folders, Children
<1>2. CASE Renamed
    <2>1. PICK t \in things, s \in Thing :
            /\ ~s.folder /\ s.id = t.id
            /\ \A x : x \in things' <=> (x \in things /\ x # t) \/ x = s
        BY <1>2, RenamedThings
    <2>2. Shrinks
        BY <2>1 DEF Shrinks
    <2>3. ASSUME NEW id \in RootIds(things', q)
          PROVE  id \in RootIds(things, p)
        <3>1. CASE p.root_id = None
            <4>1. PICK u \in things' : u.in = Top /\ u.name = RootName /\ u.folder /\ u.id = id
                BY <3>1 DEF RootIds, Folders, Children
            <4>2. u \in things
                BY <2>2, <4>1 DEF Shrinks
            <4>3. QED
                BY <3>1, <4>1, <4>2 DEF RootIds, Folders, Children
        <3>2. CASE p.root_id # None
            <4>1. PICK u \in things' : u.id = p.root_id /\ u.id = id
                BY <3>2 DEF RootIds
            <4>2. \E v \in things : v.id = id
                BY <2>1, <4>1
            <4>3. QED
                BY <3>2, <4>1, <4>2 DEF RootIds
        <3>3. QED
            BY <3>1, <3>2
    <2>4. QED
        BY <2>2, <2>3
<1>3. CASE things' = things
    BY <1>3 DEF Shrinks, RootIds
<1>4. QED
    BY <1>1, <1>2, <1>3

\* What stays of a call when its client does nothing.
Stays(d) == Called(d) /\ Still(d) /\ Remembered /\ HistoryOf(d) /\ HistoryOf(d)' /\ pc[d] # "idle"

\* What stays of a client.
LEMMA StaysSame ==
    ASSUME NEW d \in Client, Stays(d)
    PROVE  /\ profile'[d].root_id = profile[d].root_id /\ call'[d] = call[d] /\ pc'[d] = pc[d] /\ pc'[d] # "idle"
           /\ Len(call[d].dirs) \in Nat
BY DEF Stays, Still, Called

\* With an addition or a new name the way leads to all it did.
LEMMA WayGrows ==
    ASSUME TypeInv, ThingsInv, NEW d \in Client, Stays(d), Added \/ Renamed \/ things' = things
    PROVE  \A n \in 0 .. Len(call[d].dirs) : Way(d)[n] \subseteq Way(d)'[n]
<1>1. Grows /\ RootIds(things, profile[d]) \subseteq RootIds(things', profile'[d])
    BY StaysSame, RootsGrow
<1>2. Len(call[d].dirs) \in Nat /\ call'[d] = call[d]
    BY StaysSame
<1>3. \A n \in 0 .. Len(call[d].dirs) : Along(things, RootIds(things, profile[d]), call[d].dirs)[n]
            \subseteq Along(things', RootIds(things', profile'[d]), call[d].dirs)[n]
    BY <1>1, <1>2, AlongGrows DEF Grows
<1>4. QED
    BY <1>2, <1>3 DEF Way

\* With a removal or a new name the way leads to no more than it did.
LEMMA WayShrinks ==
    ASSUME TypeInv, ThingsInv, NEW d \in Client, Stays(d), Removed \/ Renamed \/ things' = things
    PROVE  \A n \in 0 .. Len(call[d].dirs) : Way(d)'[n] \subseteq Way(d)[n]
<1>1. Shrinks /\ RootIds(things', profile'[d]) \subseteq RootIds(things, profile[d])
    BY StaysSame, RootsShrink
<1>2. Len(call[d].dirs) \in Nat /\ call'[d] = call[d]
    BY StaysSame
<1>3. \A n \in 0 .. Len(call[d].dirs) : Along(things', RootIds(things', profile'[d]), call[d].dirs)[n]
            \subseteq Along(things, RootIds(things, profile[d]), call[d].dirs)[n]
    BY <1>1, <1>2, AlongGrows DEF Shrinks
<1>4. QED
    BY <1>2, <1>3 DEF Way

\* A place on the way is still on it, or gone.
LEMMA WaySurvives ==
    ASSUME TypeInv, ThingsInv, NEW d \in Client, Stays(d), Removed,
           NEW n \in 0 .. Len(call[d].dirs), NEW id \in Way(d)[n]
    PROVE  id \in Way(d)'[n] \/ ~Exists(id)'
<1>1. /\ things' \subseteq things
      /\ \A t \in things', u \in things : t.in = u.id => u \in things'
    BY RemovedThings
<1>2. Len(call[d].dirs) \in Nat /\ call'[d] = call[d] /\ profile'[d].root_id = profile[d].root_id
    BY StaysSame
<1>3. \A t, u \in things : t.id = u.id => t = u
    BY DEF ThingsInv
<1>4. ASSUME NEW r \in RootIds(things, profile[d])
      PROVE  r \in RootIds(things', profile'[d]) \/ ~\E t \in things' : t.id = r \/ t.in = r
    <2>1. PICK u \in things : u.id = r /\ (u \in things' => r \in RootIds(things', profile'[d]))
        BY <1>2 DEF RootIds, Folders, Children
    <2>2. CASE u \in things'
        BY <2>1, <2>2
    <2>3. CASE u \notin things'
        BY <1>1, <1>3, <2>1, <2>3
    <2>4. QED
        BY <2>2, <2>3
<1>5. \A m \in 0 .. Len(call[d].dirs) : \A i \in Along(things, RootIds(things, profile[d]), call[d].dirs)[m] :
            \/ i \in Along(things', RootIds(things', profile'[d]), call[d].dirs)[m]
            \/ ~\E t \in things' : t.id = i \/ t.in = i
    BY <1>1, <1>2, <1>3, <1>4, AlongSurvives
<1>6. id \in Along(things', RootIds(things', profile'[d]), call[d].dirs)[n]
      \/ ~\E t \in things' : t.id = id \/ t.in = id
    BY <1>5 DEF Way
<1>7. id \in 1 .. used.ids
    BY WayExists DEF Stays
<1>8. id # Top
    BY <1>7 DEF Top, TypeInv, ServiceType
<1>9. QED
    BY <1>2, <1>6, <1>8 DEF Way, Exists

\* A folder that is gone never comes back: ids are new.
LEMMA GoneStays ==
    ASSUME TypeInv, ThingsInv, ThingsChange, NEW id \in 1 .. used.ids, ~Exists(id)
    PROVE  ~Exists(id)'
<1>1. used.ids \in Nat
    BY DEF TypeInv, ServiceType
<1>2. CASE Added
    <2>1. PICK x \in Thing : x.id = used.ids + 1 /\ \A t : t \in things' <=> t \in things \/ t = x
        BY <1>2, AddedThings
    <2>2. QED
        BY <1>1, <2>1 DEF Exists
<1>3. CASE Removed
    BY <1>3, RemovedThings DEF Exists
<1>4. CASE Renamed
    <2>1. PICK t \in things, s \in Thing :
            ~s.folder /\ \A x : x \in things' <=> (x \in things /\ x # t) \/ x = s
        BY <1>4, RenamedThings
    <2>2. QED
        BY <2>1 DEF Exists
<1>5. CASE things' = things
    BY <1>5 DEF Exists
<1>6. QED
    BY <1>2, <1>3, <1>4, <1>5 DEF ThingsChange

\* What was on the way is still on it, or it is gone and the path with it.
LEMMA WayStays ==
    ASSUME TypeInv, ThingsInv, ThingsChange, NEW d \in Client, Stays(d),
           NEW n \in 0 .. Len(call[d].dirs), NEW id \in Way(d)[n]
    PROVE  id \in Way(d)'[n] \/ (~Exists(id)' /\ Lost(d)')
<1>1. CASE Added \/ Renamed \/ things' = things
    BY <1>1, WayGrows
<1>2. CASE Removed
    <2>1. SUFFICES ASSUME id \notin Way(d)'[n]
                   PROVE  Lost(d)'
        BY <1>2, WaySurvives
    <2>2. CASE Lost(d)
        BY <2>2, LostStays, StaysSame DEF Stays
    <2>3. CASE Lone(Way(d)[n])
        <3>1. Way(d)'[n] \subseteq Way(d)[n]
            BY <1>2, WayShrinks
        <3>2. Way(d)'[n] = {}
            BY <2>1, <2>3, <3>1 DEF Lone
        <3>3. Len(call[d].dirs) \in Nat /\ call'[d] = call[d]
            BY StaysSame
        <3>4. Reached(things', RootIds(things', profile'[d]), call[d].dirs) = {}
            BY <3>2, <3>3, AlongEnds DEF Way
        <3>5. Places(d)' = {}
            BY <3>3, <3>4 DEF Places
        <3>6. QED
            BY <3>5, LostNext DEF Stays
    <2>4. QED
        BY <2>2, <2>3, WayLone DEF Stays
<1>3. QED
    BY <1>1, <1>2 DEF ThingsChange

\* Where a call has got to is still on its way, or is gone and the path lost.
LEMMA PlaceStays ==
    ASSUME TypeInv, ThingsInv, ThingsChange, NEW d \in Client, Stays(d), used.ids <= used'.ids,
           SplitOf(d), PlaceOf(d), used'.ids \in Nat
    PROVE  SplitOf(d)' /\ PlaceOf(d)'
<1>1. /\ pc'[d] = pc[d] /\ call'[d] = call[d] /\ rest'[d] = rest[d] /\ here'[d] = here[d] /\ provider' = provider
    BY DEF Stays, Still
<1>2. Depth(d)' = Depth(d)
    BY <1>1 DEF Depth
<1>3. SplitOf(d)'
    BY <1>1, <1>2 DEF SplitOf
<1>4. used.ids \in Nat
    BY DEF TypeInv, ServiceType
<1>5. ASSUME here[d] \in 1 .. used.ids
      PROVE  here[d] \in 1 .. used'.ids
    BY <1>4, <1>5
<1>6. ASSUME pc[d] \in {"walk", "leaf", "page"}, call[d].op # "ensure"
      PROVE  Depth(d) \in 0 .. Len(call[d].dirs)
    <2>1. Len(call[d].dirs) \in Nat /\ Len(rest[d]) \in Nat
        BY DEF Stays, Called, TypeInv, ClientType
    <2>2. pc[d] = "walk" => Len(rest[d]) <= Len(call[d].dirs)
        BY <1>6 DEF SplitOf
    <2>3. ASSUME NEW n \in Nat, NEW m \in Nat, m <= n
          PROVE  n - m \in 0 .. n
        BY <2>3
    <2>4. CASE pc[d] = "walk"
        <3>1. Depth(d) = Len(call[d].dirs) - Len(rest[d])
            BY <2>4 DEF Depth
        <3>2. QED
            BY <2>1, <2>2, <2>3, <2>4, <3>1
    <2>5. CASE pc[d] \in {"page", "leaf"}
        BY <2>1, <2>5 DEF Depth
    <2>6. QED
        BY <1>6, <2>4, <2>5
<1>7. ASSUME pc[d] \in {"walk", "leaf", "page"}, call[d].op # "ensure", here[d] \in Way(d)[Depth(d)]
      PROVE  here[d] \in Way(d)'[Depth(d)] \/ (~Exists(here[d])' /\ Lost(d)')
    <2>1. here[d] \in Way(d)'[Depth(d)] \/ (~(Exists(here[d]))' /\ Lost(d)')
        BY <1>1, <1>6, <1>7, WayStays
    <2>2. QED
        BY <1>1, <2>1
<1>8. ASSUME here[d] \in 1 .. used.ids, ~Exists(here[d]), Lost(d)
      PROVE  (~Exists(here[d]))' /\ Lost(d)'
    BY <1>1, <1>8, GoneStays, LostStays, StaysSame DEF Stays
<1>9. PlaceOf(d)'
    <2>1. SUFFICES ASSUME pc[d] \in {"walk", "leaf", "page"}, call[d].op # "ensure"
                   PROVE  (\/ here[d] = None /\ pc[d] = "page" /\ ~ById
                           \/ here[d] \in 1 .. used.ids /\ here[d] \in Way(d)[Depth(d)]
                           \/ here[d] \in 1 .. used.ids /\ ~Exists(here[d]) /\ Lost(d))'
        BY <1>1 DEF PlaceOf
    <2>2. CASE here[d] = None /\ pc[d] = "page" /\ ~ById
        BY <1>1, <2>2 DEF ById
    <2>3. CASE here[d] \in 1 .. used.ids /\ here[d] \in Way(d)[Depth(d)]
        BY <1>1, <1>2, <1>5, <1>7, <2>1, <2>3
    <2>4. CASE here[d] \in 1 .. used.ids /\ ~Exists(here[d]) /\ Lost(d)
        BY <1>1, <1>5, <1>8, <2>4
    <2>5. QED
        BY <2>1, <2>2, <2>3, <2>4 DEF PlaceOf
<1>10. QED
    BY <1>3, <1>9

\* Where the path ends.
LEMMA PlacesAre ==
    ASSUME NEW c \in Client, Called(c)
    PROVE  Places(c) = Way(c)[Len(call[c].dirs)] /\ Len(call[c].dirs) \in 0 .. Len(call[c].dirs)
BY DEF Places, Way, Reached, Called

\* The ids of what a path names.
LEMMA HoldersAre ==
    ASSUME NEW c \in Client, NEW id
    PROVE  id \in Holders(c) <=> \E t \in things : t.in \in Places(c) /\ t.name = call[c].leaf /\ t.id = id
BY DEF Holders, Named, Places

\* What a call is about keeps having the path, or the path was lost.
LEMMA TargetStays ==
    ASSUME TypeInv, ThingsInv, ThingsChange, NEW d \in Client, Stays(d), StageOf(d), TargetOf(d)
    PROVE  TargetOf(d)'
<1>1. /\ pc'[d] = pc[d] /\ call'[d] = call[d] /\ here'[d] = here[d] /\ provider' = provider
      /\ Called(d) /\ HistoryOf(d) /\ HistoryOf(d)' /\ Len(call[d].dirs) \in 0 .. Len(call[d].dirs)
    BY PlacesAre DEF Stays, Still
<1>2. SUFFICES ASSUME pc[d] \in {"get", "remove"}, ById
               PROVE  here[d] \in named'[d] /\ (here[d] \in Holders(d)' \/ missing'[d])
    BY <1>1 DEF TargetOf, ById
<1>3. call[d].op # "list" /\ call'[d].op # "list"
    BY <1>1, <1>2 DEF StageOf
<1>4. here[d] \in named'[d] /\ (missing[d] => missing'[d])
    BY <1>2, <1>3, HistoryGrows, StaysSame DEF TargetOf, Stays
<1>5. ASSUME ~missing[d]
      PROVE  here[d] \in Holders(d)' \/ missing'[d]
    <2>1. Holders(d) = {here[d]}
        <3>1. here[d] \in Holders(d)
            BY <1>2, <1>5 DEF TargetOf
        <3>2. \E id \in Holders(d) : Holders(d) = {id}
            BY <1>1, <1>3, <1>5 DEF HistoryOf
        <3>3. QED
            BY <3>1, <3>2
    <2>2. PICK t \in things : t.in \in Places(d) /\ t.name = call[d].leaf /\ t.id = here[d]
        BY <2>1, HoldersAre
    <2>3. \A u \in things : u.in \in Places(d) /\ u.name = call[d].leaf => u.id = here[d]
        BY <2>1, HoldersAre
    <2>4. Places(d)' = Way(d)'[Len(call[d].dirs)] /\ Places(d) = Way(d)[Len(call[d].dirs)]
        BY <1>1 DEF Places, Way, Reached
    <2>5. \A id : id \in Holders(d)' <=>
            \E u \in things' : u.in \in Places(d)' /\ u.name = call[d].leaf /\ u.id = id
        BY <1>1 DEF Holders, Named, Places
    <2>6. Holders(d)' = {} => missing'[d]
        BY <1>1, <1>3 DEF HistoryOf
    <2>7. CASE Added \/ things' = things
        <3>1. \A u \in things : u \in things'
            BY <2>7, AddedThings
        <3>2. Places(d) \subseteq Places(d)'
            BY <1>1, <2>4, <2>7, WayGrows
        <3>3. QED
            BY <2>2, <2>5, <3>1, <3>2
    <2>8. CASE Removed
        <3>1. \A u \in things' : u \in things
            BY <2>8, RemovedThings
        <3>2. Places(d)' \subseteq Places(d)
            BY <1>1, <2>4, <2>8, WayShrinks
        <3>3. \A id \in Holders(d)' : id = here[d]
            BY <2>3, <2>5, <3>1, <3>2
        <3>4. QED
            BY <2>6, <3>3
    <2>9. CASE Renamed
        <3>1. PICK r \in things, s \in Thing :
                /\ s.name # r.name /\ s.id = r.id /\ s.in = r.in
                /\ \A x : x \in things' <=> (x \in things /\ x # r) \/ x = s
            BY <2>9, RenamedThings
        <3>2. Places(d)' = Places(d)
            BY <1>1, <2>4, <2>9, WayGrows, WayShrinks
        <3>3. CASE r = t
            <4>1. \A u \in things : u.id = t.id => u = t
                BY DEF ThingsInv
            <4>2. ASSUME NEW u \in things', u.in \in Places(d), u.name = call[d].leaf
                  PROVE  FALSE
                <5>1. u # s
                    BY <2>2, <3>1, <3>3, <4>2
                <5>2. u \in things /\ u # t
                    BY <3>1, <3>3, <5>1
                <5>3. QED
                    BY <2>2, <2>3, <4>1, <4>2, <5>2
            <4>3. Holders(d)' = {}
                BY <2>5, <3>2, <4>2
            <4>4. QED
                BY <2>6, <4>3
        <3>4. CASE r # t
            BY <2>2, <2>5, <3>1, <3>2, <3>4
        <3>5. QED
            BY <3>3, <3>4
    <2>10. QED
        BY <2>7, <2>8, <2>9 DEF ThingsChange
<1>6. QED
    BY <1>4, <1>5

\* What is in the place of a listing that did not lose its way.
LEMMA NamesHere ==
    ASSUME TypeInv, ThingsInv, NEW c \in Client, Called(c), HistoryOf(c), call[c].op = "list",
           NEW id \in Places(c), NEW n \in lasting[c]
    PROVE  \E t \in things : t.in = id /\ t.name = n
<1>1. ~Lost(c)
    BY DEF Lost
<1>2. Lone(Places(c))
    BY <1>1, WayLone, PlacesAre
<1>3. n \in NamesAt(c)
    BY DEF HistoryOf
<1>4. PICK i \in Places(c) : n \in NamesIn(things, i)
    BY <1>3 DEF NamesAt
<1>5. i = id
    BY <1>2 DEF Lone
<1>6. QED
    BY <1>4, <1>5 DEF NamesIn, Children

\* What is not listed yet comes behind what is, whatever others change.
LEMMA PagesStay ==
    ASSUME TypeInv, ThingsInv, ThingsChange, NEW d \in Client, Stays(d), StageOf(d), PlaceOf(d), PagesOf(d),
           used.ids <= used'.ids, used'.ids \in Nat
    PROVE  PagesOf(d)'
<1>1. /\ pc'[d] = pc[d] /\ call'[d] = call[d] /\ here'[d] = here[d] /\ got'[d] = got[d]
      /\ Called(d) /\ HistoryOf(d)
    BY DEF Stays, Still
<1>2. SUFFICES ASSUME pc[d] = "page"
               PROVE  PagesOf(d)'
    BY <1>1 DEF PagesOf
<1>3. call[d].op = "list"
    BY <1>2 DEF StageOf
<1>4. lasting'[d] \subseteq lasting[d] /\ ever[d] \subseteq ever'[d]
    BY <1>3, HistoryGrows, StaysSame DEF Stays
<1>5. /\ got[d] \subseteq Entry /\ \A e \in got[d] : e.id <= used.ids
      /\ GotNames(d) \subseteq ever[d] /\ (here[d] = None => got[d] = {})
      /\ \A n \in lasting[d] \ GotNames(d) : \A t \in things :
            t.in = here[d] /\ t.name = n => \A e \in got[d] : e.id < t.id
    BY <1>2 DEF PagesOf
<1>6. GotNames(d)' = GotNames(d)
    BY <1>1 DEF GotNames
<1>7. used.ids \in Nat /\ \A e \in got[d] : e.id \in Nat
    BY <1>5 DEF TypeInv, ServiceType, Entry
<1>8. ASSUME NEW n \in lasting'[d] \ GotNames(d), NEW t \in things', t.in = here[d], t.name = n, NEW e \in got[d]
      PROVE  e.id < t.id
    <2>1. CASE t \in things
        BY <1>4, <1>5, <1>8, <2>1
    <2>2. CASE Added /\ t \notin things
        <3>1. t.id = used.ids + 1
            BY <2>2, AddedThings
        <3>2. QED
            BY <1>5, <1>7, <3>1
    <2>3. CASE Renamed /\ t \notin things
        <3>1. PICK r \in things : r.in = t.in /\ ~TakenIn(r.in, t.name)
            BY <2>3, RenamedThings
        <3>2. n \in lasting[d]
            BY <1>4
        <3>3. ~Lost(d) /\ here[d] # None
            BY <1>3, <1>5, <3>2 DEF Lost
        <3>4. here[d] \in Places(d)
            BY <1>1, <1>2, <1>3, <3>3, PlacesAre DEF PlaceOf, Depth
        <3>5. \E u \in things : u.in = here[d] /\ u.name = n
            BY <1>1, <1>3, <3>2, <3>4, NamesHere
        <3>6. QED
            BY <1>8, <3>1, <3>5 DEF TakenIn, Children
    <2>4. CASE Removed
        BY <2>1, <2>4, RemovedThings
    <2>5. QED
        BY <2>1, <2>2, <2>3, <2>4 DEF ThingsChange
<1>9. ASSUME NEW e \in got[d]
      PROVE  e.id <= used'.ids
    BY <1>5, <1>7
<1>10. QED
    BY <1>1, <1>4, <1>5, <1>6, <1>8, <1>9 DEF PagesOf

\* What is promised of a call that returned, call by call.
ListedOf(c) ==
    pc[c] = "report" /\ result[c] = "ok" /\ call[c].op = "list" =>
        lasting[c] \subseteq GotNames(c) /\ GotNames(c) \subseteq ever[c]

TookOf(c) ==
    pc[c] = "report" =>
        /\ result[c] = "ok" /\ call[c].op \in {"download", "delete"} => got[c] \subseteq named[c]
        /\ result[c] = "not_found" /\ call[c].op # "ensure" => missing[c]

\* Both promises, call by call.
LEMMA EndsAre == EndInv <=> \A c \in Client : ListedOf(c) /\ TookOf(c)
BY DEF EndInv, ListingIsHonest, TakesTheOneNamed, ListedOf, TookOf, GotNames

\* A promise kept stays kept while the history grows.
LEMMA EndStays ==
    ASSUME NEW d \in Client, Stays(d), ListedOf(d), TookOf(d)
    PROVE  ListedOf(d)' /\ TookOf(d)'
<1>1. /\ pc'[d] = pc[d] /\ call'[d] = call[d] /\ got'[d] = got[d] /\ result'[d] = result[d]
    BY DEF Stays, Still
<1>2. /\ call[d].op = "list" => (lasting'[d] \subseteq lasting[d]) /\ (ever[d] \subseteq ever'[d])
      /\ call[d].op # "list" => named[d] \subseteq named'[d]
      /\ missing[d] => missing'[d]
    BY HistoryGrows, StaysSame DEF Stays
<1>3. GotNames(d)' = GotNames(d)
    BY <1>1 DEF GotNames
<1>4. ListedOf(d)'
    BY <1>1, <1>2, <1>3 DEF ListedOf
<1>5. TookOf(d)'
    BY <1>1, <1>2 DEF TookOf
<1>6. QED
    BY <1>4, <1>5

-------------------------------------------------------------------------------
(* What a call says and does, request by request.                          *)

Fine(c) == SplitOf(c) /\ PlaceOf(c) /\ TargetOf(c) /\ PagesOf(c) /\ ListedOf(c) /\ TookOf(c)

\* What is known before a step of the client, and after.
Before(c) ==
    /\ TypeInv /\ ThingsInv /\ Called(c) /\ StageOf(c) /\ HistoryOf(c) /\ Fine(c)
    /\ pc[c] # "idle"
Afterwards(c) ==
    /\ ClientType' /\ HistoryOf(c)' /\ pc'[c] # "idle" /\ call'[c] = call[c] /\ provider' = provider
    /\ call[c].op = "list" => (lasting'[c] \subseteq lasting[c]) /\ (ever[c] \subseteq ever'[c])
    /\ call[c].op # "list" => named[c] \subseteq named'[c]
    /\ missing[c] => missing'[c]
    /\ used.ids <= used'.ids /\ used'.ids \in Nat

\* A step of the client leads to what Afterwards says.
LEMMA AfterwardsIs ==
    ASSUME TypeInv, TypeInv', ThingsInv, RootInv, NEW c \in Client, Answered(c), Remembered, ThingsChange
    PROVE  Afterwards(c)
<1>1. pc[c] # "idle" /\ pc'[c] # "idle" /\ call'[c] = call[c] /\ provider' = provider /\ ClientType'
    BY DEF Answered, Waiting
<1>2. used.ids <= used'.ids /\ used'.ids \in Nat
    <2>1. KnownRoot(session)
        BY DEF RootInv
    <2>2. used'.ids \in Nat
        BY DEF TypeInv, ServiceType
    <2>3. QED
        BY <1>1, <2>1, <2>2, KnownStays
<1>3. QED
    BY <1>1, <1>2, HistoryNow, HistoryGrows DEF Afterwards

\* What the services say is told apart.
LEMMA Replies ==
    ASSUME ServiceType
    PROVE  /\ Absent = "not_found" /\ Taken \notin {"ok", "not_found"}
           /\ classify(401, "other") \notin {"ok", "not_found"} /\ classify(403, "other") \notin {"ok", "not_found"}
           /\ \A r \in Trouble : r \notin {"ok", "not_found"}
<1>1. provider \in {"nextcloud", "google_drive", "onedrive", "dropbox"}
    BY DEF ServiceType
<1>2. /\ provider = "dropbox" => classify(409, "not_found") = "not_found"
      /\ provider # "dropbox" => classify(404, "other") = "not_found"
    <2>1. provider = "dropbox" => classify(409, "not_found") = dropbox_classify(409, "not_found")
        BY DEF classify
    <2>2. dropbox_classify(409, "not_found") = "not_found"
        BY DEF dropbox_classify
    <2>3. provider # "dropbox" => classify(404, "other") = "not_found"
        BY <1>1 DEF classify, google_classify, onedrive_classify, nextcloud_classify
    <2>4. QED
        BY <2>1, <2>2, <2>3
<1>3. /\ provider = "dropbox" => classify(409, "path/conflict") = "conflict" /\ classify(409, "restricted") = "conflict"
      /\ provider # "dropbox" => classify(409, "other") = "conflict"
    <2>1. ASSUME NEW b
          PROVE  provider = "dropbox" => classify(409, b) = dropbox_classify(409, b)
        BY DEF classify
    <2>2. dropbox_classify(409, "path/conflict") = "conflict" /\ dropbox_classify(409, "restricted") = "conflict"
        BY DEF dropbox_classify
    <2>3. provider # "dropbox" => classify(409, "other") = "conflict"
        BY <1>1 DEF classify, google_classify, onedrive_classify, nextcloud_classify
    <2>4. QED
        BY <2>1, <2>2, <2>3
<1>4. classify(401, "other") = "unauthorized" /\ classify(403, "other") = "unauthorized"
    BY <1>1 DEF classify, google_classify, onedrive_classify, dropbox_classify, nextcloud_classify
<1>5. /\ classify(403, "rateLimitExceeded") # "not_found" /\ classify(429, "other") # "not_found"
      /\ classify(500, "other") # "not_found" /\ classify(507, "other") # "not_found"
    BY <1>1 DEF classify, google_classify, onedrive_classify, dropbox_classify, nextcloud_classify
<1>6. ASSUME NEW r \in Trouble
      PROVE  r = "failed"
    <2>1. PICK throttled, busy, broken, other :
              /\ throttled = classify(403, "rateLimitExceeded") /\ busy = classify(429, "other")
              /\ broken = classify(500, "other")
              /\ other = (IF provider = "dropbox" THEN classify(409, "restricted")
                          ELSE classify(507, "other"))
        OBVIOUS
    <2>2. throttled # "not_found" /\ busy # "not_found" /\ broken # "not_found"
        BY <1>5, <2>1
    <2>3. other # "not_found"
        BY <1>3, <1>5, <2>1
    <2>4. \E s \in {throttled, busy, broken, other} : r = (IF s = "not_found" THEN s ELSE "failed")
        BY <2>1 DEF Trouble
    <2>5. QED
        BY <2>2, <2>3, <2>4
<1>7. Absent = "not_found" /\ Taken = "conflict"
    BY <1>2, <1>3 DEF Absent, Taken
<1>8. QED
    BY <1>4, <1>6, <1>7

\* The ends and goings-on of a call that say nothing.
LEMMA FineFailed ==
    ASSUME NEW c \in Client, pc'[c] = "report", result'[c] \notin {"ok", "not_found"}
    PROVE  Fine(c)'
BY DEF Fine, SplitOf, PlaceOf, TargetOf, PagesOf, ListedOf, TookOf

\* ... not_found, with the path lost,
LEMMA FineAbsent ==
    ASSUME NEW c \in Client, pc'[c] = "report", result'[c] = "not_found", missing'[c]
    PROVE  Fine(c)'
BY DEF Fine, SplitOf, PlaceOf, TargetOf, PagesOf, ListedOf, TookOf

\* ... ensure, of which nothing is promised here,
LEMMA FineEnsure ==
    ASSUME NEW c \in Client, pc'[c] \in {"walk", "mkdir", "report"}, call'[c].op = "ensure"
    PROVE  Fine(c)'
BY DEF Fine, SplitOf, PlaceOf, TargetOf, PagesOf, ListedOf, TookOf

\* ... and requests before the first segment.
LEMMA FineGo ==
    ASSUME NEW c \in Client, pc'[c] \in {"idle", "begin", "root", "mkroot", "mkdir", "probe"}
    PROVE  Fine(c)'
BY DEF Fine, SplitOf, PlaceOf, TargetOf, PagesOf, ListedOf, TookOf

\* The first request for a page, by path.
LEMMA FinePage ==
    ASSUME NEW c \in Client, pc'[c] = "page", here'[c] = None, ~ById, provider' = provider, got'[c] = {}
    PROVE  Fine(c)'
<1>1. GotNames(c)' = {}
    BY DEF GotNames
<1>2. PagesOf(c)'
    BY <1>1 DEF PagesOf
<1>3. PlaceOf(c)'
    BY DEF PlaceOf, ById
<1>4. QED
    BY <1>2, <1>3 DEF Fine, SplitOf, TargetOf, ListedOf, TookOf

\* A folder reached is on the way, as many segments along as are resolved.
LEMMA FineReach ==
    ASSUME NEW c \in Client, Before(c), Afterwards(c), NEW left \in Seq(AnyName),
           NEW id \in 1 .. used'.ids, Reach(c, id, left), got'[c] = {},
           Len(left) <= Len(call[c].dirs),
           \A i \in 1 .. Len(left) : left[i] = call[c].dirs[Len(call[c].dirs) - Len(left) + i],
           id \in Way(c)'[Len(call[c].dirs) - Len(left)] \/ (~(Exists(id))' /\ Lost(c)')
    PROVE  Fine(c)'
<1>1. id \in Nat /\ call'[c] = call[c] /\ Len(call[c].dirs) \in Nat /\ ClientType /\ clock \in Nat
    BY DEF Afterwards, Before, Called, TypeInv, ServiceType
<1>2. /\ rest'[c] = left /\ here'[c] = id
      /\ \/ left # <<>> /\ pc'[c] = "walk"
         \/ left = <<>> /\ call[c].op = "list" /\ pc'[c] = "page"
         \/ left = <<>> /\ call[c].op = "ensure" /\ pc'[c] = "report" /\ result'[c] = "ok"
         \/ left = <<>> /\ call[c].op \in {"download", "delete"} /\ pc'[c] = "leaf"
    BY <1>1, ReachMoves
<1>3. CASE pc'[c] = "report"
    BY <1>1, <1>2, <1>3, FineEnsure
<1>4. CASE pc'[c] \in {"walk", "page", "leaf"}
    <2>1. Depth(c)' = Len(call[c].dirs) - Len(left)
        <3>1. pc'[c] # "walk" => Len(left) = 0
            BY <1>2
        <3>2. QED
            BY <1>1, <1>2, <1>4, <3>1 DEF Depth
    <2>2. SplitOf(c)'
        BY <1>1, <1>2, <2>1 DEF SplitOf
    <2>3. PlaceOf(c)'
        BY <1>1, <1>2, <2>1 DEF PlaceOf
    <2>4. GotNames(c)' = {}
        BY DEF GotNames
    <2>5. PagesOf(c)'
        BY <1>1, <1>2, <2>4 DEF PagesOf
    <2>6. QED
        BY <1>4, <2>2, <2>3, <2>5 DEF Fine, TargetOf, ListedOf, TookOf
<1>5. QED
    BY <1>2, <1>3, <1>4

\* ... at the root.
LEMMA FineAtRoot ==
    ASSUME NEW c \in Client, Before(c), Afterwards(c), rest[c] = call[c].dirs,
           NEW id \in 1 .. used'.ids, Reach(c, id, rest[c]), got'[c] = {},
           id \in RootIds(things', profile'[c]) \/ (~(Exists(id))' /\ Lost(c)')
    PROVE  Fine(c)'
<1>1. /\ rest[c] \in Seq(AnyName) /\ Len(rest[c]) \in Nat /\ Len(call[c].dirs) \in Nat
      /\ call'[c] = call[c] /\ Len(call[c].dirs) - Len(rest[c]) = 0
    BY DEF Before, Afterwards, TypeInv, ClientType
<1>2. Way(c)'[0] = RootIds(things', profile'[c])
    <2>1. Along(things', RootIds(things', profile'[c]), call[c].dirs)[0] = RootIds(things', profile'[c])
        BY <1>1, AlongDef
    <2>2. QED
        BY <1>1, <2>1 DEF Way
<1>3. \A i \in 1 .. Len(rest[c]) : rest[c][i] = call[c].dirs[Len(call[c].dirs) - Len(rest[c]) + i]
    BY <1>1
<1>4. QED
    BY <1>1, <1>2, <1>3, FineReach

\* Nextcloud and Dropbox name the place by its path from the top.
LEMMA PathPlaces ==
    ASSUME NEW c \in Client, Called(c), ~ById
    PROVE  Reached(things, {Top}, <<RootName>> \o call[c].dirs) = Places(c)
<1>1. profile[c].root_id = None
    BY DEF Called, KnownRoot
<1>2. RootIds(things, profile[c]) = {t.id : t \in Folders(things, Top, RootName)}
    BY <1>1 DEF RootIds
<1>3. RootName \in AnyName /\ call[c].dirs \in Seq(Names)
    BY DEF AnyName, Called
<1>4. Reached(things, {Top}, <<RootName>> \o call[c].dirs)
        = Reached(things, {t.id : t \in Folders(things, Top, RootName)}, call[c].dirs)
    BY <1>3, AlongShift
<1>5. QED
    BY <1>2, <1>4 DEF Places

\* Where something is, there is the place.
LEMMA HereOnWay ==
    ASSUME NEW c \in Client, Before(c), pc[c] \in {"walk", "leaf", "page"}, call[c].op # "ensure",
           here[c] # None, Exists(here[c])
    PROVE  here[c] \in 1 .. used.ids /\ here[c] \in Way(c)[Depth(c)]
BY DEF Before, Fine, PlaceOf

\* As many segments are resolved as the path has, at most.
LEMMA DepthIn ==
    ASSUME NEW c \in Client, Before(c), pc[c] \in {"walk", "leaf", "page"}, call[c].op # "ensure"
    PROVE  Depth(c) \in 0 .. Len(call[c].dirs)
<1>1. Len(call[c].dirs) \in Nat /\ Len(rest[c]) \in Nat
    BY DEF Before, Called, TypeInv, ClientType
<1>2. ASSUME NEW n \in Nat, NEW m \in Nat, m <= n
      PROVE  n - m \in 0 .. n
    BY <1>2
<1>3. CASE pc[c] = "walk"
    <2>1. Depth(c) = Len(call[c].dirs) - Len(rest[c]) /\ Len(rest[c]) <= Len(call[c].dirs)
        BY <1>3 DEF Depth, Before, Fine, SplitOf
    <2>2. QED
        BY <1>1, <1>2, <2>1
<1>4. CASE pc[c] \in {"leaf", "page"}
    BY <1>1, <1>4 DEF Depth
<1>5. QED
    BY <1>3, <1>4

\* A path that was lost stays lost over the step.
LEMMA LostAfter ==
    ASSUME NEW c \in Client, Afterwards(c), Lost(c)
    PROVE  missing'[c] /\ Lost(c)'
BY DEF Afterwards, Lost

\* A place is the only one of its depth, or the path is lost.
LEMMA OnlyPlace ==
    ASSUME NEW c \in Client, Before(c), NEW n \in 0 .. Len(call[c].dirs), NEW id \in Way(c)[n], ~Lost(c)
    PROVE  Way(c)[n] = {id}
<1>1. Lone(Way(c)[n])
    BY WayLone DEF Before
<1>2. QED
    BY <1>1 DEF Lone

\* A failed call says nothing.
LEMMA FailedFine ==
    ASSUME NEW c \in Client, Before(c), RefreshRefused(c) \/ Unauthorized(c) \/ Fails(c)
    PROVE  Fine(c)'
<1>1. PICK r \in {"token_expired", classify(401, "other")} \union Trouble : Return(c, r)
    BY ZenonT(40) DEF RefreshRefused, Unauthorized, Fails
<1>2. r \notin {"ok", "not_found"}
    BY <1>1, Replies DEF Before, TypeInv
<1>3. pc'[c] = "report" /\ result'[c] = r
    BY <1>1, ReturnMoves DEF Before, TypeInv
<1>4. QED
    BY <1>2, <1>3, FineFailed

\* list_at goes on to the root folder, or to the first page.
LEMMA BeginFine ==
    ASSUME NEW c \in Client, Before(c), Begin(c)
    PROVE  Fine(c)'
<1>1. /\ pc[c] = "begin" /\ here'[c] = here[c] /\ got'[c] = got[c] /\ provider' = provider
    BY DEF Begin, Ready, At, service
<1>2. pc'[c] = (IF ById THEN "root" ELSE "page")
    BY GoMoves DEF Begin, Before, TypeInv, ServiceType, Stages
<1>3. here[c] = None /\ got[c] = {}
    BY <1>1 DEF Before, StageOf
<1>4. CASE ById
    BY <1>2, <1>4, FineGo
<1>5. CASE ~ById
    BY <1>1, <1>2, <1>3, <1>5, FinePage
<1>6. QED
    BY <1>4, <1>5

\* The first PROPFIND finds the folder, or the path is lost.
LEMMA ProbeFine ==
    ASSUME NEW c \in Client, Before(c), Afterwards(c), Probe(c)
    PROVE  Fine(c)'
<1>1. /\ pc[c] = "probe" /\ here'[c] = here[c] /\ got'[c] = got[c] /\ provider' = provider
    BY DEF Probe, Send, Ready, At, service
<1>2. ~ById
    BY <1>1 DEF Before, TypeInv, ServiceType, Started, HasTokens, ById
<1>3. here[c] = None /\ got[c] = {}
    BY <1>1 DEF Before, StageOf
<1>4. CASE Reached(things, {Top}, <<RootName>> \o call[c].dirs) = {} /\ Return(c, Absent)
    <2>1. Places(c) = {}
        BY <1>2, <1>4, PathPlaces DEF Before
    <2>2. Lost(c)
        BY <2>1, LostNow DEF Before
    <2>3. pc'[c] = "report" /\ result'[c] = "not_found"
        BY <1>4, ReturnMoves, Replies DEF Before, TypeInv
    <2>4. QED
        BY <2>2, <2>3, LostAfter, FineAbsent
<1>5. CASE Go(c, "page")
    <2>1. pc'[c] = "page"
        BY <1>5, GoMoves DEF Before, TypeInv, ServiceType, Stages
    <2>2. QED
        BY <1>1, <1>2, <1>3, <2>1, FinePage
<1>6. QED
    BY <1>4, <1>5 DEF Probe

\* The root folder known is where the way begins, or it is gone.
LEMMA CachedRootFine ==
    ASSUME NEW c \in Client, Before(c), Afterwards(c), CachedRoot(c)
    PROVE  Fine(c)'
<1>1. /\ pc[c] = "root" /\ profile[c].root_id # None /\ Reach(c, profile[c].root_id, rest[c])
      /\ things' = things /\ profile' = profile /\ got' = got /\ call' = call
    BY DEF CachedRoot, At, service
<1>2. PICK id : id = profile[c].root_id
    OBVIOUS
<1>3. id \in 1 .. used.ids /\ \A t \in things : t.id = id => t.folder
    BY <1>2, <1>1 DEF Before, Called, KnownRoot
<1>4. id \in 1 .. used'.ids
    BY <1>3 DEF Afterwards, Before, TypeInv, ServiceType
<1>5. rest[c] = call[c].dirs /\ got'[c] = {}
    BY <1>1 DEF Before, StageOf
<1>6. id \in RootIds(things', profile'[c]) \/ (~(Exists(id))' /\ Lost(c)')
    <2>1. CASE \E t \in things : t.id = id
        BY <1>2, <1>1, <2>1 DEF RootIds
    <2>2. CASE ~\E t \in things : t.id = id
        <3>1. RootIds(things, profile[c]) = {}
            BY <1>2, <1>1, <2>2 DEF RootIds
        <3>2. Len(call[c].dirs) \in Nat /\ 0 \in 0 .. Len(call[c].dirs)
            BY DEF Before, Called
        <3>3. Way(c)[0] = {}
            BY <3>1, <3>2, AlongDef DEF Way
        <3>4. Lost(c)
            BY <3>2, <3>3, WayEnds DEF Before
        <3>5. ~(Exists(id))'
            BY <1>1, <1>3, <2>2 DEF Exists, Top
        <3>6. QED
            BY <3>4, <3>5, LostAfter
    <2>3. QED
        BY <2>1, <2>2
<1>7. Reach(c, id, rest[c])
    BY <1>2, <1>1
<1>8. QED
    BY <1>4, <1>5, <1>6, <1>7, FineAtRoot

\* A root folder found is where the way begins.
LEMMA FindRootFine ==
    ASSUME NEW c \in Client, Before(c), Afterwards(c), FindRoot(c)
    PROVE  Fine(c)'
<1>1. /\ pc[c] = "root" /\ things' = things /\ got' = got /\ call' = call
    BY DEF FindRoot, Send, Ready, At, service
<1>2. rest[c] = call[c].dirs /\ got'[c] = {}
    BY <1>1 DEF Before, StageOf, FindRoot, Send, Ready, At
<1>3. ASSUME NEW t \in Folders(things, Top, RootName), KeepRoot(c, t.id)
      PROVE  Fine(c)'
    <2>1. t \in things /\ t.id \in Nat \ {0} /\ t.id <= used.ids
        BY DEF Folders, Children, Thing, Before, TypeInv, ServiceType, ThingsInv
    <2>2. t.id \in 1 .. used'.ids
        BY <2>1 DEF Afterwards, Before, TypeInv, ServiceType
    <2>3. profile'[c].root_id = t.id
        BY <1>3 DEF KeepRoot, Before, Called, TypeInv, ClientType, Account
    <2>4. t.id \in RootIds(things', profile'[c])
        <3>1. t.id # None
            BY <2>1, NoneIsNothing
        <3>2. QED
            BY <1>1, <2>1, <2>3, <3>1 DEF RootIds
    <2>5. Reach(c, t.id, rest[c])
        BY <1>3 DEF KeepRoot
    <2>6. QED
        BY <1>2, <2>2, <2>4, <2>5, FineAtRoot
<1>4. CASE Go(c, "mkroot")
    <2>1. pc'[c] = "mkroot"
        BY <1>4, GoMoves DEF Before, TypeInv, ServiceType, Stages
    <2>2. QED
        BY <2>1, FineGo
<1>5. QED
    BY <1>3, <1>4 DEF FindRoot

\* So is one created.
LEMMA CreateRootFine ==
    ASSUME NEW c \in Client, Before(c), Afterwards(c), CreateRoot(c)
    PROVE  Fine(c)'
<1>1. pc[c] = "mkroot" /\ got' = got /\ call' = call
    BY DEF CreateRoot, Send, Ready, At
<1>2. rest[c] = call[c].dirs /\ got'[c] = {}
    BY <1>1 DEF Before, StageOf, CreateRoot, Send, Ready, At
<1>3. CASE /\ things' = things \union {NewFolder(Top, RootName)}
           /\ used' = [used EXCEPT !.ids = @ + 1] /\ KeepRoot(c, used.ids + 1)
    <2> DEFINE id == used.ids + 1
    <2>1. used.ids \in Nat /\ used'.ids = id
        BY <1>3 DEF Before, TypeInv, ServiceType
    <2>2. id \in 1 .. used'.ids /\ id \in Nat
        BY <2>1
    <2>3. profile'[c].root_id = id
        BY <1>3, <2>2 DEF KeepRoot, Before, Called, TypeInv, ClientType, Account
    <2>4. id # None
        BY <2>2, NoneIsNothing
    <2>5. NewFolder(Top, RootName).id = id /\ NewFolder(Top, RootName) \in things'
        BY <1>3 DEF NewFolder
    <2>6. Reach(c, id, rest[c])
        BY <1>3 DEF KeepRoot
    <2> HIDE DEF id
    <2>7. id \in RootIds(things', profile'[c])
        BY <2>3, <2>4, <2>5 DEF RootIds
    <2>8. QED
        BY <1>2, <2>2, <2>6, <2>7, FineAtRoot
<1>4. CASE Return(c, Taken)
    <2>1. pc'[c] = "report" /\ result'[c] = Taken
        BY <1>4, ReturnMoves DEF Before, TypeInv
    <2>2. QED
        BY <2>1, FineFailed, Replies DEF Before, TypeInv
<1>5. QED
    BY <1>3, <1>4 DEF CreateRoot

\* A step that leaves folder and profile leaves the way.
LEMMA AlsoAfter ==
    ASSUME NEW c \in Client, Before(c), Afterwards(c), things' = things, profile' = profile
    PROVE  Way(c)' = Way(c) /\ Places(c)' = Places(c) /\ Holders(c)' = Holders(c)
BY DEF Way, Places, Holders, Afterwards

\* With R of L segments left.
LEMMA Segments ==
    ASSUME NEW L \in Nat, NEW R \in Nat, R # 0, R <= L
    PROVE  LET D == L - R IN
           /\ D \in 0 .. L /\ D + 1 \in 1 .. L /\ D + 1 \in 0 .. L /\ (D + 1) - 1 = D /\ 1 \in 1 .. R
           /\ R - 1 \in Nat /\ L - (R - 1) = D + 1 /\ R - 1 <= L
           /\ \A i \in 1 .. R - 1 : i + 1 \in 1 .. R /\ D + (i + 1) = (D + 1) + i
OBVIOUS

\* A segment found is one further on the way; where there is none the path is lost.
LEMMA WalkFine ==
    ASSUME NEW c \in Client, Before(c), Afterwards(c), Walk(c)
    PROVE  Fine(c)'
<1>1. /\ pc[c] = "walk" /\ things' = things /\ profile' = profile /\ got' = got /\ call' = call
    BY DEF Walk, Send, Ready, At, service
<1>2. /\ ClientType /\ clock \in Nat /\ rest[c] \in Seq(AnyName) /\ rest[c] # <<>>
      /\ Tail(rest[c]) \in Seq(AnyName) /\ got'[c] = {} /\ call'[c] = call[c]
    <2>1. /\ ClientType /\ clock \in Nat /\ rest[c] \in Seq(AnyName) /\ rest[c] # <<>>
        BY <1>1 DEF Before, TypeInv, ServiceType, ClientType, Started
    <2>2. got[c] = {}
        BY <1>1 DEF Before, StageOf
    <2>3. QED
        BY <1>1, <2>1, <2>2
<1>3. \A t \in Folders(things, here[c], Head(rest[c])) :
        t \in things /\ t.folder /\ t.in = here[c] /\ t.name = Head(rest[c]) /\ t.id \in Nat \ {0} /\ t.id <= used.ids /\ t.in \in Nat
    BY DEF Folders, Children, Thing, Before, TypeInv, ServiceType, ThingsInv
<1>4. CASE call[c].op = "ensure"
    <2>1. ASSUME NEW t \in Folders(things, here[c], Head(rest[c])), Descend(c, t.id)
          PROVE  pc'[c] \in {"walk", "report"}
        BY <1>2, <1>3, <1>4, <2>1, ReachMoves DEF Descend
    <2>2. CASE Go(c, "mkdir")
        BY <1>2, <1>4, <2>2, GoMoves, FineEnsure DEF Stages
    <2>3. CASE \E r : Return(c, r)
        BY <1>2, <1>4, <2>3, ReturnMoves, FineEnsure
    <2>4. QED
        BY <1>2, <1>4, <2>1, <2>2, <2>3, FineEnsure DEF Walk
<1>5. CASE call[c].op # "ensure"
    <2>1. PICK L \in Nat : L = Len(call[c].dirs)
        BY DEF Before, Called
    <2>2. PICK R \in Nat : R = Len(rest[c]) /\ R # 0
        BY <1>2
    <2>3. PICK D : D = Depth(c) /\ D = L - R
        BY <1>1, <2>1, <2>2 DEF Depth
    <2>4. R <= L /\ \A i \in 1 .. R : rest[c][i] = call[c].dirs[D + i]
        BY <1>1, <1>5, <2>1, <2>2, <2>3 DEF Before, Fine, SplitOf
    <2>5. /\ D \in 0 .. L /\ D + 1 \in 1 .. L /\ D + 1 \in 0 .. L /\ (D + 1) - 1 = D /\ 1 \in 1 .. R
          /\ R - 1 \in Nat /\ L - (R - 1) = D + 1 /\ R - 1 <= L
          /\ \A i \in 1 .. R - 1 : i + 1 \in 1 .. R /\ D + (i + 1) = (D + 1) + i
        BY <2>2, <2>3, <2>4, Segments
    <2>6. Head(rest[c]) = call[c].dirs[D + 1]
        <3>1. Head(rest[c]) = rest[c][1]
            BY <1>2
        <3>2. QED
            BY <2>4, <2>5, <3>1
    <2>7. ASSUME NEW id
          PROVE  id \in Way(c)[D + 1] <=>
                    \E t \in things : t.folder /\ t.id = id /\ t.name = Head(rest[c]) /\ t.in \in Way(c)[D]
        <3>1. PICK n \in 1 .. Len(call[c].dirs) : n = D + 1
            BY <2>1, <2>5
        <3>2. Len(call[c].dirs) \in Nat
            BY <2>1
        <3>3. id \in Way(c)[n] <=>
                    \E t \in things : t.folder /\ t.id = id /\ t.name = call[c].dirs[n] /\ t.in \in Way(c)[n - 1]
            BY <3>2, AlongStep DEF Way
        <3>4. n - 1 = D
            BY <2>5, <3>1
        <3>5. QED
            BY <2>6, <3>1, <3>3, <3>4
    <2>8. ASSUME NEW t \in Folders(things, here[c], Head(rest[c])), Descend(c, t.id)
          PROVE  Fine(c)'
        <3>1. Exists(here[c]) /\ here[c] # None
            BY <1>3, NoneIsNothing DEF Before, ThingsInv
        <3>2. here[c] \in Way(c)[D]
            BY <1>1, <1>5, <2>3, <3>1, HereOnWay
        <3>3. t.id \in Way(c)[D + 1]
            BY <1>3, <2>7, <3>2
        <3>4. t.id \in 1 .. used'.ids
            BY <1>3 DEF Afterwards, Before, TypeInv, ServiceType
        <3>5. Len(Tail(rest[c])) = R - 1 /\ \A i \in 1 .. R - 1 : Tail(rest[c])[i] = rest[c][i + 1]
            BY <1>2, <2>2
        <3>6. ASSUME NEW i \in 1 .. Len(Tail(rest[c]))
              PROVE  Tail(rest[c])[i] = call[c].dirs[Len(call[c].dirs) - Len(Tail(rest[c])) + i]
            <4>1. i \in 1 .. R - 1 /\ i + 1 \in 1 .. R /\ D + (i + 1) = (D + 1) + i
                BY <2>5, <3>5
            <4>2. Tail(rest[c])[i] = call[c].dirs[D + (i + 1)]
                BY <2>4, <3>5, <4>1
            <4>3. Len(call[c].dirs) - Len(Tail(rest[c])) = D + 1
                BY <2>1, <2>5, <3>5
            <4>4. QED
                BY <4>1, <4>2, <4>3
        <3>7. Way(c)' = Way(c) /\ Len(call[c].dirs) - Len(Tail(rest[c])) = D + 1
            BY <1>1, <2>1, <2>5, <3>5, AlsoAfter
        <3>8. t.id \in Way(c)'[Len(call[c].dirs) - Len(Tail(rest[c]))]
            BY <3>3, <3>7
        <3>9. Reach(c, t.id, Tail(rest[c])) /\ Len(Tail(rest[c])) <= Len(call[c].dirs)
            BY <2>1, <2>5, <2>8, <3>5 DEF Descend
        <3>10. QED
            BY <1>2, <3>4, <3>6, <3>8, <3>9, FineReach
    <2>9. ASSUME Folders(things, here[c], Head(rest[c])) = {}
          PROVE  Lost(c)
        <3>1. CASE here[c] \in Way(c)[D] /\ ~Lost(c)
            <4>1. Way(c)[D] = {here[c]}
                BY <2>1, <2>5, <3>1, OnlyPlace
            <4>2. Way(c)[D + 1] = {}
                BY <2>7, <2>9, <4>1 DEF Folders, Children
            <4>3. D + 1 \in 0 .. Len(call[c].dirs)
                BY <2>1, <2>5
            <4>4. QED
                BY <4>2, <4>3, WayEnds DEF Before
        <3>2. QED
            BY <1>1, <1>5, <2>3, <3>1 DEF Before, Fine, PlaceOf
    <2>10. CASE Folders(things, here[c], Head(rest[c])) = {} /\ \E r \in {Taken, Absent} : Return(c, r)
        <3>1. PICK r \in {Taken, Absent} : Return(c, r)
            BY <2>10
        <3>2. pc'[c] = "report" /\ result'[c] = r
            BY <1>2, <3>1, ReturnMoves
        <3>3. missing'[c]
            BY <2>9, <2>10, LostAfter
        <3>4. r = "not_found" \/ r \notin {"ok", "not_found"}
            BY <3>1, Replies DEF Before, TypeInv
        <3>5. QED
            BY <3>2, <3>3, <3>4, FineAbsent, FineFailed
    <2>11. QED
        BY <1>5, <2>8, <2>10 DEF Walk
<1>6. QED
    BY <1>4, <1>5

\* Folders are created for ensure only.
LEMMA CreateFolderFine ==
    ASSUME NEW c \in Client, Before(c), Afterwards(c), CreateFolder(c)
    PROVE  Fine(c)'
<1>1. pc[c] = "mkdir"
    BY DEF CreateFolder, Send, Ready, At
<1>2. /\ call[c].op = "ensure" /\ call'[c] = call[c] /\ ClientType /\ clock \in Nat /\ used.ids + 1 \in Nat
      /\ rest[c] \in Seq(AnyName) /\ rest[c] # <<>> /\ Tail(rest[c]) \in Seq(AnyName)
    BY <1>1 DEF Before, Afterwards, TypeInv, ServiceType, ClientType, Started, StageOf
<1>3. CASE Descend(c, used.ids + 1)
    <2>1. pc'[c] \in {"walk", "report"}
        BY <1>2, <1>3, ReachMoves DEF Descend
    <2>2. QED
        BY <1>2, <2>1, FineEnsure
<1>4. CASE \E r : Return(c, r)
    BY <1>2, <1>4, ReturnMoves, FineEnsure
<1>5. QED
    BY <1>3, <1>4 DEF CreateFolder

\* ... by path, too.
LEMMA MakeFolderFine ==
    ASSUME NEW c \in Client, Before(c), Afterwards(c), MakeFolder(c)
    PROVE  Fine(c)'
<1>1. pc[c] = "mkdir"
    BY DEF MakeFolder, Send, Ready, At
<1>2. call[c].op = "ensure" /\ call'[c] = call[c] /\ ClientType /\ clock \in Nat
    BY <1>1 DEF Before, Afterwards, TypeInv, ServiceType, StageOf
<1>3. CASE Return(c, "ok")
    BY <1>2, <1>3, ReturnMoves, FineEnsure
<1>4. CASE Go(c, "mkdir")
    BY <1>2, <1>4, GoMoves, FineEnsure DEF Stages
<1>5. QED
    BY <1>3, <1>4 DEF MakeFolder

\* The last segment found has the path; where there is none the path is lost.
LEMMA LeafFine ==
    ASSUME NEW c \in Client, Before(c), Afterwards(c), Leaf(c)
    PROVE  Fine(c)'
<1>1. /\ pc[c] = "leaf" /\ things' = things /\ profile' = profile /\ call' = call
    BY DEF Leaf, Send, Ready, At, service
<1>2. ClientType /\ clock \in Nat /\ call[c].op \in {"download", "delete"} /\ ServiceType
    BY <1>1 DEF Before, TypeInv, ServiceType, StageOf
<1>3. Depth(c) = Len(call[c].dirs) /\ Places(c) = Way(c)[Len(call[c].dirs)] /\ Len(call[c].dirs) \in 0 .. Len(call[c].dirs)
    BY <1>1, PlacesAre DEF Depth, Before
<1>4. CASE Found(c) = {} /\ Return(c, Absent)
    <2>1. ASSUME here[c] \in Places(c), ~Lost(c)
          PROVE  FALSE
        <3>1. Places(c) = {here[c]}
            BY <1>3, <2>1, OnlyPlace
        <3>2. Holders(c) = {}
            BY <1>4, <3>1, HoldersAre DEF Found, Children
        <3>3. missing[c]
            BY <1>2, <3>2 DEF Before, HistoryOf
        <3>4. QED
            BY <1>2, <2>1, <3>3 DEF Lost
    <2>2. Lost(c)
        <3>1. call[c].op # "ensure" /\ PlaceOf(c) /\ pc[c] = "leaf" /\ Depth(c) = Len(call[c].dirs)
            BY <1>1, <1>2, <1>3 DEF Before, Fine
        <3>2. here[c] \in Way(c)[Depth(c)] \/ Lost(c)
            BY <3>1 DEF PlaceOf
        <3>3. Way(c)[Depth(c)] = Places(c)
            BY <1>3, <3>1
        <3>4. QED
            BY <2>1, <3>2, <3>3
    <2>3. pc'[c] = "report" /\ result'[c] = "not_found"
        BY <1>2, <1>4, ReturnMoves, Replies
    <2>4. QED
        BY <2>2, <2>3, LostAfter, FineAbsent
<1>5. ASSUME NEW t \in Found(c), here' = [here EXCEPT ![c] = t.id],
             Go(c, IF call[c].op = "download" THEN "get" ELSE "remove")
      PROVE  Fine(c)'
    <2>1. t \in things /\ t.in = here[c] /\ t.name = call[c].leaf /\ t.in \in Nat
        BY <1>2 DEF Found, Children, ServiceType, Thing
    <2>2. Exists(here[c]) /\ here[c] # None
        BY <2>1, NoneIsNothing DEF Before, ThingsInv
    <2>3. here[c] \in Places(c)
        BY <1>1, <1>2, <1>3, <2>2, HereOnWay
    <2>4. t.id \in Holders(c)
        BY <2>1, <2>3, HoldersAre
    <2>5. Holders(c)' = Holders(c)
        BY <1>1, AlsoAfter
    <2>6. t.id \in named'[c]
        BY <1>1, <1>2, <2>4, <2>5 DEF Afterwards, HistoryOf
    <2>7. pc'[c] \in {"get", "remove"} /\ here'[c] = t.id
        BY <1>2, <1>5, GoMoves DEF Stages, ClientType
    <2>8. TargetOf(c)'
        BY <2>4, <2>5, <2>6, <2>7 DEF TargetOf
    <2>9. QED
        BY <2>7, <2>8 DEF Fine, SplitOf, PlaceOf, PagesOf, ListedOf, TookOf
<1>6. CASE Return(c, Taken)
    <2>1. pc'[c] = "report" /\ result'[c] = Taken
        BY <1>2, <1>6, ReturnMoves
    <2>2. QED
        BY <1>2, <2>1, FineFailed, Replies
<1>7. QED
    BY <1>4, <1>5, <1>6 DEF Leaf

\* What a download or removal is about had the path during the call.
LEMMA Targets ==
    ASSUME NEW c \in Client, Before(c), pc[c] \in {"get", "remove"}
    PROVE  /\ call[c].op \in {"download", "delete"}
           /\ \A t \in Target(c) : t.id \in named[c]
           /\ Target(c) = {} => missing[c]
<1>1. call[c].op \in {"download", "delete"}
    BY DEF Before, StageOf
<1>2. Holders(c) \subseteq named[c] /\ (Holders(c) = {} => missing[c])
    BY <1>1 DEF Before, HistoryOf
<1>3. CASE ById
    <2>1. here[c] \in named[c] /\ (here[c] \in Holders(c) \/ missing[c])
        BY <1>3 DEF Before, Fine, TargetOf
    <2>2. Target(c) = {t \in things : t.id = here[c]}
        BY <1>3 DEF Target
    <2>3. here[c] \in Holders(c) => Target(c) # {}
        BY <2>2, HoldersAre
    <2>4. QED
        BY <1>1, <2>1, <2>2, <2>3
<1>4. CASE ~ById
    <2>1. Target(c) = {t \in things : t.in \in Places(c) /\ t.name = call[c].leaf}
        BY <1>4, PathPlaces DEF Target, Before
    <2>2. \A t \in Target(c) : t.id \in Holders(c)
        BY <2>1, HoldersAre
    <2>3. Target(c) = {} => Holders(c) = {}
        BY <2>1, HoldersAre
    <2>4. QED
        BY <1>1, <1>2, <2>2, <2>3
<1>5. QED
    BY <1>3, <1>4

\* What is taken had the path.
LEMMA FineTaken ==
    ASSUME NEW c \in Client, Before(c), Afterwards(c), pc[c] \in {"get", "remove"},
           NEW t \in Target(c), Return(c, "ok"), got' = [got EXCEPT ![c] = {t.id}]
    PROVE  Fine(c)'
<1>1. call[c].op \in {"download", "delete"} /\ t.id \in named[c]
    BY Targets
<1>2. t.id \in named'[c] /\ call'[c] = call[c]
    BY <1>1 DEF Afterwards
<1>3. got'[c] = {t.id}
    BY DEF Before, TypeInv, ClientType
<1>4. pc'[c] = "report"
    BY ReturnMoves DEF Before, TypeInv
<1>5. /\ SplitOf(c)' /\ PlaceOf(c)' /\ TargetOf(c)' /\ PagesOf(c)'
    BY <1>4 DEF SplitOf, PlaceOf, TargetOf, PagesOf
<1>6. ListedOf(c)'
    BY <1>1, <1>2 DEF ListedOf
<1>7. result'[c] = "ok"
    BY ReturnMoves DEF Before, TypeInv
<1>8. TookOf(c)'
    BY <1>2, <1>3, <1>7 DEF TookOf
<1>9. QED
    BY <1>5, <1>6, <1>8 DEF Fine

\* What is downloaded or removed had the path.
LEMMA TakeFine ==
    ASSUME NEW c \in Client, Before(c), Afterwards(c), Get(c) \/ Delete(c)
    PROVE  Fine(c)'
<1>1. pc[c] \in {"get", "remove"} /\ ClientType /\ ServiceType
    BY DEF Get, Delete, Send, Ready, At, Before, TypeInv
<1>2. CASE Target(c) = {} /\ Return(c, Absent)
    <2>1. missing[c]
        BY <1>1, <1>2, Targets
    <2>2. missing'[c]
        BY <2>1 DEF Afterwards
    <2>3. pc'[c] = "report" /\ result'[c] = "not_found"
        BY <1>1, <1>2, ReturnMoves, Replies
    <2>4. QED
        BY <2>2, <2>3, FineAbsent
<1>3. ASSUME NEW r \in {classify(403, "other"), Taken, "local_io"}, Return(c, r)
      PROVE  Fine(c)'
    <2>1. r \notin {"ok", "not_found"}
        <3>1. classify(403, "other") \notin {"ok", "not_found"} /\ Taken \notin {"ok", "not_found"}
            BY <1>1, Replies
        <3>2. QED
            BY <3>1
    <2>2. pc'[c] = "report" /\ result'[c] = r
        BY <1>1, <1>3, ReturnMoves
    <2>3. QED
        BY <2>1, <2>2, FineFailed
<1>4. ASSUME NEW t \in Target(c), Return(c, "ok"), got' = [got EXCEPT ![c] = {t.id}]
      PROVE  Fine(c)'
    BY <1>1, <1>4, FineTaken
<1>5. QED
    BY <1>2, <1>3, <1>4 DEF Get, Delete

-------------------------------------------------------------------------------
(* Pages.                                                                  *)

\* Of entries with bounded ids one has the largest.
LEMMA LastEntry ==
    ASSUME NEW S, S \subseteq Entry, S # {}, NEW n \in Nat, \A e \in S : e.id <= n
    PROVE  \E e \in S : \A f \in S : f.id <= e.id
<1>1. \A e \in S : e.id \in Nat \ {0}
    BY DEF Entry
<1>2. PICK U \in SUBSET Nat : \A m \in Nat : m \in U <=> \A e \in S : e.id <= m
    <2>1. \A m \in Nat : m \in {k \in Nat : \A e \in S : e.id <= k} <=> \A e \in S : e.id <= m
        OBVIOUS
    <2>2. {k \in Nat : \A e \in S : e.id <= k} \in SUBSET Nat
        OBVIOUS
    <2>3. QED
        BY <2>1, <2>2
<1>3. n \in U
    BY <1>2
<1>4. PICK m \in U : \A k \in U : ~(<<k, m>> \in OpToRel(<, Nat))
    BY ONLY <1>2, <1>3, NatLessThanWellFounded, WFMin
<1>5. m \in Nat /\ \A e \in S : e.id <= m
    BY <1>2, <1>4
<1>6. \A k \in U : ~(k < m)
    BY <1>2, <1>4 DEF OpToRel
<1>7. ASSUME \A e \in S : e.id # m
      PROVE  FALSE
    <2>1. \A e \in S : e.id <= m - 1
        BY <1>1, <1>5, <1>7
    <2>2. m - 1 \in Nat /\ m - 1 < m
        BY <1>1, <1>5, <2>1
    <2>3. m - 1 \in U
        BY <1>2, <2>1, <2>2
    <2>4. QED
        BY <1>6, <2>2, <2>3
<1>8. QED
    BY <1>5, <1>7

\* The cursor is the largest id listed.
LEMMA CursorIs ==
    ASSUME NEW c \in Client, got[c] \subseteq Entry, NEW n \in Nat, \A e \in got[c] : e.id <= n
    PROVE  /\ Cursor(c) \in Nat
           /\ \A e \in got[c] : e.id <= Cursor(c)
           /\ got[c] = {} => Cursor(c) = 0
           /\ got[c] # {} => \E e \in got[c] : e.id = Cursor(c)
<1>1. CASE got[c] = {}
    BY <1>1 DEF Cursor
<1>2. CASE got[c] # {}
    <2>1. \E e \in got[c] : \A f \in got[c] : f.id <= e.id
        BY <1>2, LastEntry
    <2>2. PICK x : x = CHOOSE e \in got[c] : \A f \in got[c] : f.id <= e.id
        OBVIOUS
    <2>3. x \in got[c] /\ \A f \in got[c] : f.id <= x.id
        BY <2>1, <2>2
    <2>4. Cursor(c) = x.id
        BY <1>2, <2>2 DEF Cursor
    <2>5. x.id \in Nat
        BY <2>3 DEF Entry
    <2>6. QED
        BY <1>2, <2>3, <2>4, <2>5
<1>3. QED
    BY <1>1, <1>2

\* What a page leaves for the next has larger ids than what is on it.
LEMMA PageTakes ==
    ASSUME TypeInv, NEW id, NEW cursor \in Nat,
           NEW t \in After(id, cursor) \ PageFrom(id, cursor), NEW u \in PageFrom(id, cursor)
    PROVE  u.id < t.id
<1>1. provider # "nextcloud"
    BY DEF PageFrom
<1>2. u \in After(id, cursor) /\ Cardinality({v \in After(id, cursor) : v.id < u.id}) < PAGE_SIZE
    BY <1>1 DEF PageFrom
<1>3. ~(Cardinality({v \in After(id, cursor) : v.id < t.id}) < PAGE_SIZE)
    BY <1>1 DEF PageFrom
<1>4. After(id, cursor) \subseteq things /\ IsFiniteSet(things)
    BY DEF After, Children, TypeInv, ServiceType
<1>5. \A v \in After(id, cursor) : v.id \in Nat
    BY <1>4 DEF TypeInv, ServiceType, Thing
<1> DEFINE A == {v \in After(id, cursor) : v.id < t.id}
           B == {v \in After(id, cursor) : v.id < u.id}
<1>6. ASSUME ~(u.id < t.id)
      PROVE  FALSE
    <2>1. A \subseteq B
        BY <1>2, <1>5, <1>6
    <2>2. IsFiniteSet(B)
        <3>1. B \subseteq things
            BY <1>4
        <3>2. QED
            BY <1>4, <3>1, FS_Subset
    <2>3. IsFiniteSet(A) /\ Cardinality(A) <= Cardinality(B)
        BY <2>1, <2>2, FS_Subset
    <2>4. Cardinality(A) \in Nat /\ Cardinality(B) \in Nat /\ PAGE_SIZE \in Nat
        BY <2>2, <2>3, FS_CardinalityType, ProviderAssumption
    <2> HIDE DEF A, B
    <2>5. Cardinality(B) < PAGE_SIZE /\ ~(Cardinality(A) < PAGE_SIZE)
        BY <1>2, <1>3 DEF A, B
    <2>6. QED
        BY <2>3, <2>4, <2>5
<1>7. QED
    BY <1>6

\* The folder a page is of is where the path leads.
LEMMA PageIsOf ==
    ASSUME NEW c \in Client, Before(c), pc[c] = "page", NEW id \in PageOf(c)
    PROVE  id \in Places(c) /\ id \in 1 .. used.ids /\ here[c] \in {None, id}
<1>1. call[c].op = "list" /\ Depth(c) = Len(call[c].dirs) /\ Called(c) /\ used.ids \in Nat
    BY DEF Before, StageOf, Depth, TypeInv, ServiceType
<1>2. Places(c) = Way(c)[Len(call[c].dirs)] /\ Len(call[c].dirs) \in 0 .. Len(call[c].dirs)
    BY <1>1, PlacesAre
<1>3. CASE here[c] # None
    <2>1. id = here[c] /\ Exists(here[c])
        BY <1>3 DEF PageOf
    <2>2. here[c] \in 1 .. used.ids /\ here[c] \in Way(c)[Depth(c)]
        BY <1>1, <1>3, <2>1, HereOnWay
    <2>3. QED
        BY <1>1, <1>2, <2>1, <2>2
<1>4. CASE here[c] = None
    <2>1. here[c] \notin 1 .. used.ids
        BY <1>1, <1>4, NoneIsNothing
    <2>2. ~ById
        BY <1>1, <2>1 DEF Before, Fine, PlaceOf
    <2>3. id \in Places(c)
        BY <1>1, <1>4, <2>2, PathPlaces DEF PageOf
    <2>4. id \in 1 .. used.ids
        BY <1>1, <1>2, <2>3, WayExists DEF Before
    <2>5. QED
        BY <1>4, <2>3, <2>4
<1>5. QED
    BY <1>3, <1>4

\* Without a folder the path is lost.
LEMMA PageLost ==
    ASSUME NEW c \in Client, Before(c), pc[c] = "page", PageOf(c) = {}
    PROVE  Lost(c)
<1>1. call[c].op = "list" /\ Depth(c) = Len(call[c].dirs) /\ Called(c) /\ used.ids \in Nat
    BY DEF Before, StageOf, Depth, TypeInv, ServiceType
<1>2. CASE here[c] # None
    <2>1. ~Exists(here[c])
        BY <1>2 DEF PageOf
    <2>2. Len(call[c].dirs) \in 0 .. Len(call[c].dirs)
        BY <1>1, PlacesAre
    <2>3. here[c] \notin Way(c)[Depth(c)]
        BY <1>1, <2>1, <2>2, WayExists DEF Before
    <2>4. QED
        BY <1>1, <1>2, <2>3 DEF Before, Fine, PlaceOf
<1>3. CASE here[c] = None
    <2>1. here[c] \notin 1 .. used.ids
        BY <1>1, <1>3, NoneIsNothing
    <2>2. ~ById
        BY <1>1, <2>1 DEF Before, Fine, PlaceOf
    <2>3. Places(c) = {}
        BY <1>1, <1>3, <2>2, PathPlaces DEF PageOf
    <2>4. QED
        BY <2>3, LostNow DEF Before
<1>4. QED
    BY <1>2, <1>3

\* A page adds what is there, and the last leaves nothing out.
LEMMA PageFine ==
    ASSUME NEW c \in Client, Before(c), Afterwards(c), Page(c)
    PROVE  Fine(c)'
<1>1. /\ pc[c] = "page" /\ call[c].op = "list" /\ things' = things /\ profile' = profile /\ call' = call
      /\ rest' = rest /\ provider' = provider
    BY DEF Page, Send, Ready, At, service, Before, StageOf
<1>2. /\ ClientType /\ clock \in Nat /\ ServiceType /\ used.ids \in Nat /\ Called(c) /\ HistoryOf(c)
      /\ used.ids <= used'.ids /\ used'.ids \in Nat
      /\ lasting'[c] \subseteq lasting[c] /\ ever[c] \subseteq ever'[c]
    BY <1>1 DEF Before, Afterwards, TypeInv, ServiceType
<1>3. /\ got[c] \subseteq Entry /\ \A e \in got[c] : e.id <= used.ids
      /\ GotNames(c) \subseteq ever[c] /\ (here[c] = None => got[c] = {})
      /\ \A n \in lasting[c] \ GotNames(c) : \A t \in things :
            t.in = here[c] /\ t.name = n => \A e \in got[c] : e.id < t.id
    BY <1>1 DEF Before, Fine, PagesOf
<1>4. ASSUME NEW id \in PageOf(c),
             got' = [got EXCEPT ![c] = @ \union
                {[id |-> t.id, name |-> t.name, folder |-> t.folder] : t \in PageFrom(id, Cursor(c))}],
             here' = [here EXCEPT ![c] = id],
             IF HasMore(id, Cursor(c)) THEN Go(c, "page") ELSE Return(c, "ok")
      PROVE  Fine(c)'
    <2>1. id \in Places(c) /\ id \in 1 .. used.ids /\ here[c] \in {None, id}
        BY <1>1, PageIsOf
    <2>2. PICK new : new = {[id |-> t.id, name |-> t.name, folder |-> t.folder] : t \in PageFrom(id, Cursor(c))}
        OBVIOUS
    <2>3. got'[c] = got[c] \union new /\ here'[c] = id
        BY <1>2, <1>4, <2>2 DEF ClientType
    <2>4. PICK cur \in Nat :
            /\ cur = Cursor(c) /\ \A e \in got[c] : e.id <= cur
            /\ got[c] = {} => cur = 0
            /\ got[c] # {} => \E e \in got[c] : e.id = cur
        BY <1>2, <1>3, CursorIs
    <2>5. PageFrom(id, cur) \subseteq things /\ \A t \in PageFrom(id, cur) : t.in = id
        BY DEF PageFrom, After, Children
    <2>6. \A e \in new : \E t \in PageFrom(id, cur) : e.id = t.id /\ e.name = t.name /\ e.folder = t.folder /\ e \in Entry
        <3>1. \A t \in PageFrom(id, cur) : t.id \in Nat \ {0} /\ t.name \in AnyName /\ t.folder \in BOOLEAN
            BY <1>2, <2>5 DEF ServiceType, Thing
        <3>2. \A t \in PageFrom(id, cur) : [id |-> t.id, name |-> t.name, folder |-> t.folder] \in Entry
            BY <3>1 DEF Entry
        <3>3. QED
            BY <2>2, <2>4, <3>2
    <2>7. got'[c] \subseteq Entry /\ \A e \in got'[c] : e.id <= used'.ids
        <3>1. \A t \in things : t.id <= used.ids /\ t.id \in Nat
            BY <1>2 DEF Before, ThingsInv, ServiceType, Thing
        <3>2. \A e \in got[c] : e.id \in Nat
            BY <1>3 DEF Entry
        <3>3. \A e \in got'[c] : e \in Entry /\ e.id <= used.ids /\ e.id \in Nat
            BY <1>3, <2>3, <2>5, <2>6, <3>1, <3>2
        <3>4. \A k \in Nat : k <= used.ids => k <= used'.ids
            BY <1>2
        <3>5. QED
            BY <3>3, <3>4
    <2>8. GotNames(c)' \subseteq ever'[c]
        <3>1. NamesAt(c)' = NamesAt(c)
            BY <1>1, AlsoAfter DEF NamesAt
        <3>2. NamesAt(c) \subseteq ever'[c]
            BY <1>1, <3>1 DEF Afterwards, HistoryOf
        <3>3. \A t \in PageFrom(id, cur) : t.name \in NamesAt(c)
            BY <2>1, <2>5 DEF NamesAt, NamesIn, Children
        <3>4. \A e \in new : e.name \in ever'[c]
            BY <2>6, <3>2, <3>3
        <3>5. \A e \in got[c] : e.name \in ever'[c]
            BY <1>2, <1>3 DEF GotNames
        <3>6. QED
            BY <2>3, <3>4, <3>5 DEF GotNames
    <2>9. \A n : n \in GotNames(c)' <=> \E e \in got[c] \union new : e.name = n
        BY <2>3 DEF GotNames
    <2>10. ASSUME NEW n \in lasting'[c] \ GotNames(c)', NEW t \in things, t.in = id, t.name = n
           PROVE  t \in After(id, cur) \ PageFrom(id, cur)
        <3>1. t.id \in Nat \ {0}
            BY <1>2 DEF ServiceType, Thing
        <3>2. n \in lasting[c] \ GotNames(c)
            BY <1>2, <2>9 DEF GotNames
        <3>3. cur < t.id
            <4>1. CASE got[c] = {}
                BY <2>4, <3>1, <4>1
            <4>2. CASE got[c] # {}
                <5>1. here[c] = id
                    BY <1>3, <2>1, <4>2
                <5>2. \A e \in got[c] : e.id < t.id
                    BY <1>3, <2>10, <3>2, <5>1
                <5>3. QED
                    BY <2>4, <4>2, <5>2
            <4>3. QED
                BY <4>1, <4>2
        <3>4. t \in After(id, cur)
            BY <2>10, <3>1, <3>3 DEF After, Children
        <3>5. ASSUME t \in PageFrom(id, cur)
              PROVE  FALSE
            <4>1. [id |-> t.id, name |-> t.name, folder |-> t.folder] \in new
                BY <2>2, <2>4, <3>5
            <4>2. QED
                BY <2>9, <2>10, <4>1
        <3>6. QED
            BY <3>4, <3>5
    <2>11. CASE HasMore(id, cur)
        <3>1. pc'[c] = "page"
            <4>1. "page" \in Stages \ {"idle", "probe"} /\ Go(c, "page")
                BY <1>4, <2>4, <2>11 DEF Stages
            <4>2. QED
                BY <1>2, <4>1, GoMoves
        <3>2. ASSUME NEW n \in lasting'[c] \ GotNames(c)', NEW t \in things, t.in = id, t.name = n, NEW e \in got'[c]
              PROVE  e.id < t.id
            <4>1. t \in After(id, cur) \ PageFrom(id, cur)
                BY <2>10, <3>2
            <4>2. CASE e \in got[c]
                <5>1. e.id <= cur /\ cur < t.id /\ e.id \in Nat /\ t.id \in Nat
                    BY <1>2, <1>3, <2>4, <4>1, <4>2 DEF After, Entry, ServiceType, Thing
                <5>2. QED
                    BY <5>1
            <4>3. CASE e \in new
                <5>1. PICK u \in PageFrom(id, cur) : e.id = u.id
                    BY <2>6, <4>3
                <5>2. u.id < t.id
                    BY <4>1, PageTakes DEF Before
                <5>3. QED
                    BY <5>1, <5>2
            <4>4. QED
                BY <2>3, <4>2, <4>3
        <3>3. id # None /\ id \in 1 .. used'.ids
            <4>1. \A k \in 1 .. used.ids : k \in Nat /\ k \in 1 .. used'.ids
                BY <1>2
            <4>2. QED
                BY <2>1, <4>1, NoneIsNothing
        <3>4. PagesOf(c)'
            BY <1>1, <2>3, <2>7, <2>8, <3>2, <3>3 DEF PagesOf
        <3>5. PlaceOf(c)'
            <4>1. Depth(c)' = Len(call[c].dirs)
                BY <1>1, <3>1 DEF Depth
            <4>2. id \in Way(c)'[Len(call[c].dirs)]
                BY <1>1, <1>2, <2>1, AlsoAfter, PlacesAre
            <4>3. QED
                BY <2>3, <3>3, <4>1, <4>2 DEF PlaceOf
        <3>6. QED
            BY <3>1, <3>4, <3>5 DEF Fine, SplitOf, TargetOf, ListedOf, TookOf
    <2>12. CASE ~HasMore(id, cur)
        <3>1. pc'[c] = "report" /\ result'[c] = "ok"
            BY <1>2, <1>4, <2>4, <2>12, ReturnMoves
        <3>2. lasting'[c] \subseteq GotNames(c)'
            <4>1. ASSUME NEW n \in lasting'[c] \ GotNames(c)'
                  PROVE  FALSE
                <5>1. PICK t \in things : t.in = id /\ t.name = n
                    BY <1>1, <1>2, <2>1, NamesHere DEF Before
                <5>2. QED
                    BY <2>10, <2>12, <5>1 DEF HasMore
            <4>2. QED
                BY <4>1
        <3>3. ListedOf(c)' /\ TookOf(c)'
            BY <1>1, <2>8, <3>1, <3>2 DEF ListedOf, TookOf
        <3>4. QED
            BY <3>1, <3>3 DEF Fine, SplitOf, PlaceOf, TargetOf, PagesOf
    <2>13. QED
        BY <2>11, <2>12
<1>5. CASE PageOf(c) = {} /\ got' = got /\ \E r \in {Absent, "failed", "ok"} : Return(c, r)
    <2>1. PICK r \in {Absent, "failed", "ok"} : Return(c, r)
        BY <1>5
    <2>2. pc'[c] = "report" /\ result'[c] = r
        BY <1>2, <2>1, ReturnMoves
    <2>3. Lost(c) /\ missing'[c] /\ lasting'[c] = {}
        BY <1>1, <1>2, <1>5, PageLost, LostAfter DEF Lost
    <2>4. GotNames(c)' \subseteq ever'[c]
        BY <1>2, <1>3, <1>5 DEF GotNames
    <2>5. ListedOf(c)' /\ TookOf(c)'
        BY <1>1, <2>2, <2>3, <2>4 DEF ListedOf, TookOf
    <2>6. QED
        BY <2>2, <2>5 DEF Fine, SplitOf, PlaceOf, TargetOf, PagesOf
<1>6. QED
    BY <1>4, <1>5 DEF Page

-------------------------------------------------------------------------------
(* Everything together.                                                    *)

Whole ==
    /\ TypeInv /\ ThingsInv /\ RootInv /\ StageInv /\ HistoryInv
    /\ PlaceInv /\ TargetInv /\ PageInv /\ EndInv

\* The invariant, client by client.
LEMMA WholeIs ==
    Whole <=> /\ TypeInv /\ ThingsInv /\ RootInv /\ StageInv /\ HistoryInv
              /\ \A c \in Client : Fine(c)
BY EndsAre DEF Whole, PlaceInv, TargetInv, PageInv, Fine

\* The invariant holds initially.
LEMMA InitWhole == Init => Whole
<1> SUFFICES ASSUME Init PROVE Whole
    OBVIOUS
<1>1. TypeInv /\ ThingsInv
    BY InitTypes, InitThings
<1>2. \A c \in Client : pc[c] = "idle" /\ profile[c] = None
    BY DEF Init
<1>3. RootInv
    BY <1>2 DEF Init, NewProfile, RootInv, KnownRoot
<1>4. StageInv /\ HistoryInv
    BY <1>2 DEF StageInv, StageOf, HistoryInv
<1>5. \A c \in Client : Fine(c)
    BY <1>2 DEF Fine, SplitOf, PlaceOf, TargetOf, PagesOf, ListedOf, TookOf
<1>6. QED
    BY <1>1, <1>3, <1>4, <1>5, WholeIs

\* Every step of a client keeps what is known of it.
LEMMA ActsFine ==
    ASSUME NEW c \in Client, Before(c), Afterwards(c), Acts(c)
    PROVE  Fine(c)'
<1>1. CASE RefreshRefused(c) \/ Unauthorized(c) \/ Fails(c)
    BY <1>1, FailedFine
<1>2. CASE Begin(c) \/ Probe(c)
    BY <1>2, BeginFine, ProbeFine
<1>3. CASE CachedRoot(c) \/ FindRoot(c) \/ CreateRoot(c)
    BY <1>3, CachedRootFine, FindRootFine, CreateRootFine
<1>4. CASE Walk(c) \/ CreateFolder(c) \/ MakeFolder(c)
    BY <1>4, WalkFine, CreateFolderFine, MakeFolderFine
<1>5. CASE Leaf(c) \/ Get(c) \/ Delete(c) \/ Page(c)
    BY <1>5, LeafFine, TakeFine, PageFine
<1>6. QED
    BY <1>1, <1>2, <1>3, <1>4, <1>5 DEF Acts

\* So does the beginning of a call,
LEMMA BeganFine ==
    ASSUME TypeInv, NEW c \in Client, NEW k \in Asked, Began(c, k)
    PROVE  Fine(c)'
<1>1. pc'[c] = FirstRequest(k) /\ call'[c] = k /\ provider' = provider
    BY DEF Began
<1>2. FirstRequest(k) \in {"begin", "probe", "report", "mkdir", "root", "get", "remove"}
    BY FirstRequestStage DEF TypeInv
<1>3. CASE pc'[c] \in {"begin", "probe", "mkdir", "root"}
    BY <1>3, FineGo
<1>4. CASE pc'[c] = "report"
    <2>1. k.op = "ensure"
        BY <1>1, <1>4, FirstRequestStage DEF TypeInv
    <2>2. QED
        BY <1>1, <1>4, <2>1, FineEnsure
<1>5. CASE pc'[c] \in {"get", "remove"}
    <2>1. ~ById
        BY <1>1, <1>5, FirstRequestStage DEF TypeInv
    <2>2. TargetOf(c)'
        BY <1>1, <2>1 DEF TargetOf, ById
    <2>3. QED
        BY <1>5, <2>2 DEF Fine, SplitOf, PlaceOf, PagesOf, ListedOf, TookOf
<1>6. QED
    BY <1>1, <1>2, <1>3, <1>4, <1>5

\* ... and a step of anyone else.
LEMMA StillFine ==
    ASSUME TypeInv, ThingsInv, ThingsChange, NEW d \in Client, Stays(d), StageOf(d), Fine(d),
           used.ids <= used'.ids, used'.ids \in Nat
    PROVE  Fine(d)'
<1>1. SplitOf(d)' /\ PlaceOf(d)'
    BY PlaceStays DEF Fine
<1>2. TargetOf(d)'
    BY TargetStays DEF Fine
<1>3. PagesOf(d)'
    BY PagesStay DEF Fine
<1>4. ListedOf(d)' /\ TookOf(d)'
    BY EndStays DEF Fine
<1>5. QED
    BY <1>1, <1>2, <1>3, <1>4 DEF Fine

\* Every step keeps the invariant.
LEMMA NextWhole == Whole /\ [Next]_vars => Whole'
<1>1. CASE UNCHANGED vars
    <2> SUFFICES ASSUME Whole PROVE Whole'
        BY <1>1
    <2>1. UNCHANGED <<provider, things, issued, accepted, clock, session, own, history, used>>
        BY <1>1 DEF vars
    <2>2. TypeInv' /\ ThingsInv' /\ RootInv' /\ StageInv'
        <3>1. TypeInv'
            BY <1>1, NextTypes DEF Whole
        <3>2. ThingsInv'
            BY <2>1 DEF Whole, ThingsInv, Exists
        <3>3. RootInv'
            BY <2>1 DEF Whole, RootInv, KnownRoot, ById, own
        <3>4. StageInv'
            BY <2>1 DEF Whole, StageInv, StageOf, HasTokens, ById, own
        <3>5. QED
            BY <3>1, <3>2, <3>3, <3>4
    <2>3. /\ pc' = pc /\ call' = call /\ profile' = profile /\ rest' = rest /\ here' = here /\ got' = got
          /\ result' = result /\ named' = named /\ lasting' = lasting /\ ever' = ever /\ missing' = missing
          /\ things' = things /\ provider' = provider /\ used' = used
        BY <2>1 DEF own, history
    <2>4. HistoryInv'
        BY <2>3 DEF Whole, HistoryInv, HistoryOf, NamesAt, Places, Holders
    <2>5. ASSUME NEW c \in Client
          PROVE  Fine(c)'
        <3>1. Fine(c)
            BY WholeIs
        <3>2. SplitOf(c)' /\ PlaceOf(c)'
            BY <2>3, <3>1 DEF Fine, SplitOf, PlaceOf, Depth, Way, Exists, Lost, ById
        <3>3. TargetOf(c)' /\ PagesOf(c)'
            BY <2>3, <3>1 DEF Fine, TargetOf, PagesOf, Holders, GotNames, ById
        <3>4. ListedOf(c)' /\ TookOf(c)'
            BY <2>3, <3>1 DEF Fine, ListedOf, TookOf, GotNames
        <3>5. QED
            BY <3>2, <3>3, <3>4 DEF Fine
    <2>6. (\A c \in Client : Fine(c))'
        BY <2>5
    <2>7. QED
        BY <2>2, <2>4, <2>6, EndsAre DEF Whole, PlaceInv, TargetInv, PageInv, EndInv,
            ListingIsHonest, TakesTheOneNamed, ListedOf, TookOf, GotNames, Fine
<1>2. CASE Next
    <2> SUFFICES ASSUME Whole, Next PROVE Whole'
        BY <1>2
    <2>1. /\ TypeInv /\ ThingsInv /\ RootInv /\ StageInv /\ HistoryInv
          /\ \A c \in Client : Fine(c)
        BY WholeIs
    <2>2. TypeInv'
        BY <2>1, NextTypes
    <2>3. /\ ThingsChange /\ UNCHANGED provider /\ Remembered
          /\ \A d \in Client : Still(d) \/ Acts(d) \/ Ended(d) \/ \E k \in Asked : Began(d, k)
        BY <2>1, NextCases DEF Next
    <2>4. ThingsInv' /\ RootInv' /\ StageInv'
        BY <2>1, <2>3, ThingsKept, RootKept, StageKept
    <2>5. ASSUME NEW c \in Client, pc'[c] # "idle"
          PROVE  HistoryOf(c)'
        BY <2>3, <2>5, HistoryNow
    <2>6. used.ids <= used'.ids /\ used'.ids \in Nat
        <3>1. KnownRoot(session)
            BY <2>1 DEF RootInv
        <3>2. QED
            BY <2>1, <2>2, <2>3, <3>1, KnownStays DEF TypeInv, ServiceType
    <2>7. ASSUME NEW c \in Client
          PROVE  Fine(c)'
        <3>1. CASE pc[c] = "idle" /\ Still(c)
            <4>1. pc'[c] = "idle"
                BY <3>1 DEF Still
            <4>2. QED
                BY <4>1, FineGo
        <3>2. CASE pc[c] # "idle" /\ Still(c)
            <4>1. Called(c)
                BY <2>1, <3>2, CalledIs
            <4>2. HistoryOf(c)
                BY <2>1, <3>2 DEF HistoryInv
            <4>3. HistoryOf(c)'
                BY <2>5, <3>2 DEF Still
            <4>4. Stays(c)
                BY <2>3, <3>2, <4>1, <4>2, <4>3 DEF Stays
            <4>5. QED
                BY <2>1, <2>3, <2>6, <4>4, StillFine DEF StageInv
        <3>3. CASE Acts(c)
            <4>1. Answered(c)
                BY <2>1, <3>3, ActsAnswered
            <4>2. Afterwards(c)
                BY <2>1, <2>2, <2>3, <4>1, AfterwardsIs
            <4>3. pc[c] # "idle"
                BY <4>1 DEF Answered, Waiting
            <4>4. Before(c)
                BY <2>1, <4>3, CalledIs DEF Before, StageInv, HistoryInv
            <4>5. QED
                BY <3>3, <4>2, <4>4, ActsFine
        <3>4. CASE Ended(c)
            BY <3>4, FineGo DEF Ended
        <3>5. CASE \E k \in Asked : Began(c, k)
            BY <2>1, <3>5, BeganFine
        <3>6. QED
            BY <2>3, <3>1, <3>2, <3>3, <3>4, <3>5
    <2>8. (\A c \in Client : Fine(c))'
        BY <2>7
    <2>9. HistoryInv'
        BY <2>5 DEF HistoryInv
    <2>10. EndInv'
        BY <2>8 DEF EndInv, ListingIsHonest, TakesTheOneNamed, ListedOf, TookOf, GotNames, Fine
    <2>11. PlaceInv' /\ TargetInv' /\ PageInv'
        BY <2>8 DEF PlaceInv, TargetInv, PageInv, Fine
    <2>12. QED
        BY <2>2, <2>4, <2>9, <2>10, <2>11 DEF Whole
<1>3. QED
    BY <1>1, <1>2

\* A listing is asked for a page at a time while others change the folder: list_at
\* answers with all that was there throughout and nothing that never was.
THEOREM ListingsAreHonest == Spec => []ListingIsHonest
<1>1. Whole => ListingIsHonest
    BY DEF Whole, EndInv
<1>2. QED
    BY <1>1, InitWhole, NextWhole, PTL DEF Spec

\* A path is resolved a request at a time: what download_from and delete_at take
\* by its id had the path, and not_found is the answer only if nothing had.
THEOREM TheOneNamedIsTaken == Spec => []TakesTheOneNamed
<1>1. Whole => TakesTheOneNamed
    BY DEF Whole, EndInv
<1>2. QED
    BY <1>1, InitWhole, NextWhole, PTL DEF Spec

===============================================================================
