--------------------------- MODULE Transfers_proofs ---------------------------
(***************************************************************************)
(* Completion listings and transfers, for any files, command lines, limits *)
(* and bounds: what a TAB shows is no older than the TTL, every reported   *)
(* upload has its copy, its listings show it, and exit codes are honest.   *)
(***************************************************************************)
EXTENDS Transfers, FiniteSetTheorems, WellFoundedInduction, TLAPS

Segments == Seq(FileName)

\* What a command may still have to do.
LocalBelow(dir) == {f \in LocalFile : Len(f.path) > Len(dir) /\ IsFiniteSet(f.from)}
Fetchable       == {f \in RemoteFile : IsFiniteSet(f.from)}

WorkOf(cmd) ==
    CASE cmd.verb = "Upload"   -> [op : {"word"}, tok : WordToken]
      [] cmd.verb = "SaveAll"  ->
            [op : {"walk"}, file : LocalBelow(PathOf(cmd.here))]
                \cup [op : {"bundle"},
                      files : {F \in SUBSET LocalBelow(PathOf(cmd.here)) : IsFiniteSet(F)}]
      [] cmd.verb = "Download" ->
            [op : {"get"}, tok : WordToken] \cup [op : {"glob"}, dir : Segments]
      [] OTHER ->
            [op : {"fetch"}, file : Fetchable, here : Segments]
                \cup [op : {"dir"}, dir : Segments, here : Segments]

\* The remote folder: every file is in a folder, every folder in its parent, and no
\* two files of a folder have one name.
RemoteType(t) ==
    /\ t = [folders |-> t.folders, files |-> t.files]
    /\ t.files \subseteq RemoteFile /\ IsFiniteSet(t.files)
    /\ t.folders \subseteq Segments /\ IsFiniteSet(t.folders)
    /\ \A f \in t.files : IsFiniteSet(f.from) /\ f.dir \in t.folders
    /\ \A f, g \in t.files : f.dir = g.dir /\ f.name = g.name => f = g
    /\ \A q \in t.folders : Prefixes(q) \subseteq t.folders

LocalType(files) ==
    /\ files \subseteq LocalFile /\ IsFiniteSet(files)
    /\ \A f \in files : IsFiniteSet(f.from)

Kept(e) == e = [entries |-> e.entries, truncated |-> e.truncated, age |-> e.age]
               /\ e.age \in Nat

CacheType ==
    /\ cache = [key \in Key |-> cache[key]]
    /\ \A key \in Key : cache[key] # None => Kept(cache[key])

PastType ==
    /\ past = [i \in 0..CACHE_TTL |-> past[i]]
    /\ tree \in past[0]

Command(cmd) == ReadsAs(cmd) /\ (IsUpload(cmd) => Dest(cmd) \in Path)

JobType(j) ==
    /\ j = [cmd |-> j.cmd, todo |-> j.todo, exit |-> j.exit, done |-> j.done,
            asked |-> j.asked]
    /\ Command(j.cmd)
    /\ j.todo \in Seq(WorkOf(j.cmd))

TypeInv ==
    /\ RemoteType(tree)
    /\ LocalType(local)
    /\ CacheType
    /\ PastType
    /\ job # None => JobType(job)

-------------------------------------------------------------------------------
(***************************************************************************)
(* Sequences and finite sets.                                              *)
(***************************************************************************)

\* The image of a finite set, given as a function on it, is finite.
LEMMA ImageFinite ==
    ASSUME NEW S, IsFiniteSet(S), NEW f, f = [x \in S |-> f[x]]
    PROVE  IsFiniteSet({f[x] : x \in S})
<1> DEFINE T == {f[x] : x \in S}
<1>1. f \in Surjection(S, T)
    BY DEF Surjection
<1>2. QED
    BY <1>1, FS_Surjection

LEMMA SmallestOne ==
    ASSUME NEW N \in SUBSET Nat, N # {}
    PROVE  \E n \in N : \A m \in N : n <= m
<1>1. PICK n \in N : \A m \in N : ~(<<m, n>> \in OpToRel(<, Nat))
    BY ONLY N \in SUBSET Nat, N # {}, NatLessThanWellFounded, WFMin
<1>2. \A m \in N : ~(m < n)
    BY <1>1 DEF OpToRel
<1>3. QED
    BY <1>2

\* SetToSeq lists the elements of a finite set.
LEMMA Listed ==
    ASSUME NEW S, IsFiniteSet(S)
    PROVE  /\ SetToSeq(S) \in Seq(S)
           /\ \A x \in S : \E i \in 1..Len(SetToSeq(S)) : SetToSeq(S)[i] = x
<1> DEFINE n == Cardinality(S)
           s == SetToSeq(S)
<1>1. n \in Nat /\ ExistsBijection(1..n, S)
    BY FS_CardinalityType
<1>2. PICK f : f \in Bijection(1..n, S)
    BY <1>1 DEF ExistsBijection
<1>3. f \in [1..n -> S] /\ IsInjective(f)
    BY <1>2 DEF Bijection, Injection
<1>4. s \in [1..n -> S] /\ IsInjective(s)
    BY <1>3 DEF SetToSeq
<1>5. s \in Injection(1..n, S)
    BY <1>4 DEF Injection
<1>6. IsFiniteSet(1..n) /\ Cardinality(1..n) = n
    BY <1>1, FS_Interval
<1>7. s \in Surjection(1..n, S)
    BY <1>5, <1>6, FS_Injection
<1>8. s \in Seq(S) /\ Len(s) = n
    BY <1>1, <1>4
<1>9. QED
    BY <1>7, <1>8 DEF Surjection

LEMMA HeadAndTail ==
    ASSUME NEW S, NEW s \in Seq(S), s # <<>>
    PROVE  ToSet(s) = {Head(s)} \cup ToSet(Tail(s))
<1>1. Len(s) \in Nat \ {0} /\ DOMAIN s = 1..Len(s) /\ Head(s) = s[1]
      /\ DOMAIN Tail(s) = 1..(Len(s) - 1) /\ \A i \in 1..(Len(s) - 1) : Tail(s)[i] = s[i + 1]
    OBVIOUS
<1>2. ASSUME NEW x \in ToSet(s)
      PROVE  x \in {Head(s)} \cup ToSet(Tail(s))
    <2>1. PICK i \in 1..Len(s) : x = s[i]
        BY <1>1 DEF ToSet
    <2>2. CASE i = 1
        BY <1>1, <2>1, <2>2
    <2>3. CASE i # 1
        <3>1. i - 1 \in 1..(Len(s) - 1) /\ (i - 1) + 1 = i
            BY <1>1, <2>3
        <3>2. Tail(s)[i - 1] = x
            BY <1>1, <2>1, <3>1
        <3>3. QED
            BY <1>1, <3>1, <3>2 DEF ToSet
    <2>4. QED
        BY <2>2, <2>3
<1>3. ASSUME NEW x \in ToSet(Tail(s))
      PROVE  x \in ToSet(s)
    <2>1. PICK i \in 1..(Len(s) - 1) : x = s[i + 1]
        BY <1>1 DEF ToSet
    <2>2. i + 1 \in 1..Len(s)
        BY <1>1
    <2>3. QED
        BY <1>1, <2>1, <2>2 DEF ToSet
<1>4. Head(s) \in ToSet(s)
    BY <1>1 DEF ToSet
<1>5. QED
    BY <1>2, <1>3, <1>4

LEMMA BothParts ==
    ASSUME NEW S, NEW s \in Seq(S), NEW t \in Seq(S)
    PROVE  ToSet(s \o t) = ToSet(s) \cup ToSet(t)
<1>1. /\ Len(s) \in Nat /\ Len(t) \in Nat
      /\ DOMAIN s = 1..Len(s) /\ DOMAIN t = 1..Len(t) /\ DOMAIN (s \o t) = 1..(Len(s) + Len(t))
      /\ \A i \in 1..(Len(s) + Len(t)) :
            (s \o t)[i] = IF i <= Len(s) THEN s[i] ELSE t[i - Len(s)]
    OBVIOUS
<1>2. ASSUME NEW x \in ToSet(s \o t)
      PROVE  x \in ToSet(s) \cup ToSet(t)
    <2>1. PICK i \in 1..(Len(s) + Len(t)) : x = (s \o t)[i]
        BY <1>1 DEF ToSet
    <2>2. CASE i <= Len(s)
        BY <1>1, <2>1, <2>2 DEF ToSet
    <2>3. CASE ~(i <= Len(s))
        <3>1. i - Len(s) \in 1..Len(t) /\ x = t[i - Len(s)]
            BY <1>1, <2>1, <2>3
        <3>2. QED
            BY <1>1, <3>1 DEF ToSet
    <2>4. QED
        BY <2>2, <2>3
<1>3. ASSUME NEW x \in ToSet(s)
      PROVE  x \in ToSet(s \o t)
    <2>1. PICK i \in 1..Len(s) : x = s[i]
        BY <1>1 DEF ToSet
    <2>2. i \in 1..(Len(s) + Len(t)) /\ (s \o t)[i] = x
        BY <1>1, <2>1
    <2>3. QED
        BY <1>1, <2>2 DEF ToSet
<1>4. ASSUME NEW x \in ToSet(t)
      PROVE  x \in ToSet(s \o t)
    <2>1. PICK i \in 1..Len(t) : x = t[i]
        BY <1>1 DEF ToSet
    <2>2. Len(s) + i \in 1..(Len(s) + Len(t)) /\ (s \o t)[Len(s) + i] = x
        BY <1>1, <2>1
    <2>3. QED
        BY <1>1, <2>2 DEF ToSet
<1>5. QED
    BY <1>2, <1>3, <1>4

LEMMA ListedSet ==
    ASSUME NEW S, IsFiniteSet(S)
    PROVE  ToSet(SetToSeq(S)) = S
<1>1. /\ SetToSeq(S) \in Seq(S)
      /\ \A x \in S : \E i \in 1..Len(SetToSeq(S)) : SetToSeq(S)[i] = x
    BY Listed
<1> DEFINE s == SetToSeq(S)
<1>2. s \in Seq(S) /\ \A x \in S : \E i \in 1..Len(s) : s[i] = x
    BY <1>1
<1> HIDE DEF s
<1>3. DOMAIN s = 1..Len(s) /\ \A i \in 1..Len(s) : s[i] \in S
    BY <1>2
<1>4. ToSet(s) = S
    BY <1>2, <1>3 DEF ToSet
<1>5. QED
    BY <1>4 DEF s

LEMMA PrefixesAre ==
    ASSUME NEW S, NEW s \in Seq(S)
    PROVE  /\ Prefixes(s) \subseteq Seq(S)
           /\ IsFiniteSet(Prefixes(s))
           /\ s \in Prefixes(s)
           /\ <<>> \in Prefixes(s)
           /\ \A q \in Prefixes(s) : Prefixes(q) \subseteq Prefixes(s)
<1>1. \A l \in 0..Len(s) : SubSeq(s, 1, l) \in Seq(S) /\ Len(SubSeq(s, 1, l)) = l
    OBVIOUS
<1>2. Prefixes(s) \subseteq Seq(S)
    BY <1>1 DEF Prefixes
<1>3. IsFiniteSet(Prefixes(s))
    <2> DEFINE f == [l \in 0..Len(s) |-> SubSeq(s, 1, l)]
    <2>1. IsFiniteSet(0..Len(s))
        BY FS_Interval
    <2>2. IsFiniteSet({f[l] : l \in 0..Len(s)})
        <3> HIDE DEF f
        <3>1. f = [l \in 0..Len(s) |-> f[l]]
            BY DEF f
        <3>2. QED
            BY ONLY <2>1, <3>1, ImageFinite
    <2>3. {f[l] : l \in 0..Len(s)} = Prefixes(s)
        BY DEF Prefixes
    <2>4. QED
        BY <2>2, <2>3
<1>4. s \in Prefixes(s)
    <2>1. SubSeq(s, 1, Len(s)) = s /\ Len(s) \in 0..Len(s)
        OBVIOUS
    <2>2. QED
        BY <2>1 DEF Prefixes
<1>5. <<>> \in Prefixes(s)
    <2>1. SubSeq(s, 1, 0) = <<>> /\ 0 \in 0..Len(s)
        OBVIOUS
    <2>2. QED
        BY <2>1 DEF Prefixes
<1>6. ASSUME NEW q \in Prefixes(s), NEW r \in Prefixes(q) PROVE r \in Prefixes(s)
    <2>1. PICK l \in 0..Len(s) : q = SubSeq(s, 1, l)
        BY DEF Prefixes
    <2>2. PICK k \in 0..Len(q) : r = SubSeq(q, 1, k)
        BY DEF Prefixes
    <2>3. k \in 0..l /\ l \in Nat /\ l <= Len(s)
        BY <1>1, <2>1
    <2>4. r = SubSeq(s, 1, k)
        BY <1>1, <2>1, <2>2, <2>3
    <2>5. QED
        BY <2>3, <2>4 DEF Prefixes
<1>7. QED
    BY <1>2, <1>3, <1>4, <1>5, <1>6

-------------------------------------------------------------------------------
(***************************************************************************)
(* The remote folder.                                                      *)
(***************************************************************************)

LEMMA RecordOfTwo ==
    ASSUME NEW a, NEW b
    PROVE  [folders |-> a, files |-> b].folders = a /\ [folders |-> a, files |-> b].files = b
OBVIOUS

\* More folders, with those that lead to them.
LEMMA FoldersType ==
    ASSUME NEW t, RemoteType(t), NEW p \in Segments
    PROVE  RemoteType([t EXCEPT !.folders = @ \cup Prefixes(p)])
<1> DEFINE u == [t EXCEPT !.folders = @ \cup Prefixes(p)]
<1>1. u.files = t.files /\ u.folders = t.folders \cup Prefixes(p)
      /\ u = [folders |-> u.folders, files |-> u.files]
    BY DEF RemoteType
<1>2. Prefixes(p) \subseteq Segments /\ IsFiniteSet(Prefixes(p))
      /\ \A q \in Prefixes(p) : Prefixes(q) \subseteq Prefixes(p)
    BY PrefixesAre DEF Segments
<1>3. IsFiniteSet(u.folders)
    BY <1>1, <1>2, FS_Union DEF RemoteType
<1> HIDE DEF u
<1>4. RemoteType(u)
    BY <1>1, <1>2, <1>3 DEF RemoteType
<1>5. QED
    BY <1>4 DEF u

\* One more file, where none has its name.
LEMMA AddedType ==
    ASSUME NEW t, RemoteType(t), NEW f \in RemoteFile, IsFiniteSet(f.from),
           \A g \in t.files : ~(g.dir = f.dir /\ g.name = f.name)
    PROVE  RemoteType([folders |-> t.folders \cup Prefixes(f.dir), files |-> t.files \cup {f}])
<1> DEFINE u == [folders |-> t.folders \cup Prefixes(f.dir), files |-> t.files \cup {f}]
<1>1. f.dir \in Segments
    BY DEF RemoteFile, Segments
<1>2. u.files = t.files \cup {f} /\ u.folders = t.folders \cup Prefixes(f.dir)
      /\ u = [folders |-> u.folders, files |-> u.files]
    OBVIOUS
<1>3. Prefixes(f.dir) \subseteq Segments /\ IsFiniteSet(Prefixes(f.dir))
      /\ f.dir \in Prefixes(f.dir)
      /\ \A q \in Prefixes(f.dir) : Prefixes(q) \subseteq Prefixes(f.dir)
    BY <1>1, PrefixesAre DEF Segments
<1>4. IsFiniteSet(u.folders) /\ IsFiniteSet(u.files)
    BY <1>2, <1>3, FS_Union, FS_AddElement DEF RemoteType
<1> HIDE DEF u
<1>5. u.files \subseteq RemoteFile /\ u.folders \subseteq Segments
    BY <1>2, <1>3 DEF RemoteType
<1>6. \A g \in u.files : IsFiniteSet(g.from) /\ g.dir \in u.folders
    BY <1>2, <1>3 DEF RemoteType
<1>7. \A g, h \in u.files : g.dir = h.dir /\ g.name = h.name => g = h
    BY <1>2 DEF RemoteType
<1>8. \A q \in u.folders : Prefixes(q) \subseteq u.folders
    BY <1>2, <1>3 DEF RemoteType
<1>9. RemoteType(u)
    BY <1>2, <1>4, <1>5, <1>6, <1>7, <1>8 DEF RemoteType
<1>10. QED
    BY <1>9 DEF u

\* One file less.
LEMMA RemovedType ==
    ASSUME NEW t, RemoteType(t), NEW f
    PROVE  RemoteType([t EXCEPT !.files = @ \ {f}])
<1> DEFINE u == [t EXCEPT !.files = @ \ {f}]
<1>1. t = [folders |-> t.folders, files |-> t.files]
    BY DEF RemoteType
<1>2. u = [folders |-> t.folders, files |-> t.files \ {f}]
    BY <1>1
<1>3. u.files = t.files \ {f} /\ u.folders = t.folders
      /\ u = [folders |-> u.folders, files |-> u.files]
    BY <1>2
<1>4. IsFiniteSet(u.files)
    BY <1>3, FS_RemoveElement DEF RemoteType
<1> HIDE DEF u
<1>5. RemoteType(u)
    BY <1>3, <1>4 DEF RemoteType
<1>6. QED
    BY <1>5 DEF u

\* What is stored under a free name is added and nothing is lost.
LEMMA StoredType ==
    ASSUME NEW t, RemoteType(t), NEW dir \in Segments, NEW leaf \in FileName,
           NEW from \in SUBSET Segments, IsFiniteSet(from),
           \A g \in t.files : ~(g.dir = dir /\ g.name = leaf)
    PROVE  RemoteType(Stored(t, dir, leaf, from))
<1> DEFINE f == [dir |-> dir, name |-> leaf, from |-> from]
<1>1. f \in RemoteFile /\ f.dir = dir /\ f.name = leaf /\ f.from = from
    BY DEF RemoteFile, Segments
<1>2. {g \in t.files : ~(g.dir = dir /\ g.name = leaf)} = t.files
    OBVIOUS
<1>3. Stored(t, dir, leaf, from) =
          [folders |-> t.folders \cup Prefixes(f.dir), files |-> t.files \cup {f}]
    BY <1>1, <1>2 DEF Stored
<1> HIDE DEF f
<1>4. RemoteType([folders |-> t.folders \cup Prefixes(f.dir), files |-> t.files \cup {f}])
    BY <1>1, AddedType
<1>5. QED
    BY <1>1, <1>3, <1>4 DEF f

LEMMA RenamedIsName ==
    ASSUME NEW leaf \in FileName, NEW n \in Nat
    PROVE  Renamed(leaf, n) \in FileName
<1>1. leaf.copy \in Nat
    BY DEF FileName
<1>2. leaf.copy + n \in Nat
    BY <1>1
<1>3. QED
    BY <1>2 DEF FileName, Renamed

LEMMA PackedIsName ==
    ASSUME NEW leaf \in FileName, NEW ext \in {"", ".zst", ".tar.zst"}
    PROVE  Packed(leaf, ext) \in FileName
BY DEF FileName, Packed

\* The name found for an upload is a name, and no file and no folder has it.
LEMMA FreeLeafIsFree ==
    ASSUME NEW dir, NEW leaf \in FileName, FreeLeaf(dir, leaf) # None
    PROVE  FreeLeaf(dir, leaf) \in FileName /\ ~Taken(dir, FreeLeaf(dir, leaf))
<1> DEFINE free == {n \in 0..RENAME_TRIES : ~Taken(dir, Renamed(leaf, n))}
           n == CHOOSE n \in free : \A m \in free : n <= m
<1>1. RENAME_TRIES \in Nat
    BY TransfersAssumption
<1>2. free \in SUBSET Nat
    BY <1>1
<1>3. free # {} /\ FreeLeaf(dir, leaf) = Renamed(leaf, n)
    BY DEF FreeLeaf
<1> HIDE DEF free
<1>4. n \in free
    BY <1>2, <1>3, SmallestOne
<1> HIDE DEF n
<1>5. n \in Nat /\ ~Taken(dir, Renamed(leaf, n))
    BY <1>1, <1>4 DEF free
<1>6. QED
    BY <1>3, <1>5, RenamedIsName

\* The past holds what it held and what there is now.
LEMMA BecomesPast ==
    ASSUME PastType, NEW t, Becomes(t)
    PROVE  /\ tree' = t /\ PastType'
           /\ \A i \in 0..CACHE_TTL : past[i] \subseteq past'[i]
<1>1. 0 \in 0..CACHE_TTL
    BY ListingAssumption
<1>2. QED
    BY <1>1 DEF PastType, Becomes

StillPast ==
    /\ PastType'
    /\ \A i \in 0..CACHE_TTL : past[i] \subseteq past'[i]

\* A transfer only adds to the remote folder.
Added ==
    /\ RemoteType(tree')
    /\ StillPast
    /\ tree.files \subseteq tree'.files
    /\ tree.folders \subseteq tree'.folders

LEMMA UnchangedAdds ==
    ASSUME RemoteType(tree), PastType, UNCHANGED <<tree, past>>
    PROVE  Added
BY DEF Added, StillPast, PastType, RemoteType

LEMMA StoreAdds ==
    ASSUME RemoteType(tree), PastType, NEW dir \in Segments, NEW as \in FileName,
           NEW from \in SUBSET Segments, IsFiniteSet(from), ~Taken(dir, as),
           Becomes(Stored(tree, dir, as, from))
    PROVE  Added /\ [dir |-> dir, name |-> as, from |-> from] \in tree'.files
<1> DEFINE stored == Stored(tree, dir, as, from)
<1>1. \A g \in tree.files : ~(g.dir = dir /\ g.name = as)
    BY DEF Taken
<1>2. RemoteType(stored)
    BY <1>1, StoredType
<1>3. {g \in tree.files : ~(g.dir = dir /\ g.name = as)} = tree.files
    BY <1>1
<1>4. /\ stored.files = tree.files \cup {[dir |-> dir, name |-> as, from |-> from]}
      /\ stored.folders = tree.folders \cup Prefixes(dir)
    BY <1>3 DEF Stored
<1> HIDE DEF stored
<1>5. tree' = stored /\ StillPast
    BY BecomesPast DEF StillPast, stored
<1>6. QED
    BY <1>2, <1>4, <1>5 DEF Added

LEMMA FoldersAdd ==
    ASSUME RemoteType(tree), PastType, NEW p \in Segments,
           Becomes([tree EXCEPT !.folders = @ \cup Prefixes(p)])
    PROVE  Added
<1> DEFINE u == [tree EXCEPT !.folders = @ \cup Prefixes(p)]
<1>1. RemoteType(u)
    BY FoldersType
<1>2. u.files = tree.files /\ tree.folders \subseteq u.folders
    BY DEF RemoteType
<1> HIDE DEF u
<1>3. tree' = u /\ StillPast
    BY BecomesPast DEF u, StillPast
<1>4. QED
    BY <1>1, <1>2, <1>3 DEF Added

\* An upload stores its file or is recorded as failed.
LEMMA PerformUpload ==
    ASSUME RemoteType(tree), PastType, NEW item, NEW dir \in Segments, NEW leaf \in FileName,
           NEW from \in SUBSET Segments, IsFiniteSet(from),
           perform_upload(item, dir, leaf, from)
    PROVE  /\ Added
           /\ \/ \E as : /\ Did(item, Up(item, dir, as, from))
                         /\ [dir |-> dir, name |-> as, from |-> from] \in tree'.files
              \/ Did(item, Failed(item))
<1>1. PICK as : as = FreeLeaf(dir, leaf)
    OBVIOUS
<1>2. ASSUME as # None, Becomes(Stored(tree, dir, as, from))
      PROVE  Added /\ [dir |-> dir, name |-> as, from |-> from] \in tree'.files
    <2>1. as \in FileName /\ ~Taken(dir, as)
        BY <1>1, <1>2, FreeLeafIsFree
    <2>2. QED
        BY <1>2, <2>1, StoreAdds
<1>3. ASSUME NEW p \in Prefixes(dir),
             Becomes([tree EXCEPT !.folders = @ \cup Prefixes(p)])
      PROVE  Added
    <2>1. p \in Segments
        BY PrefixesAre DEF Segments
    <2>2. QED
        BY <1>3, <2>1, FoldersAdd
<1>4. \/ as # None /\ Becomes(Stored(tree, dir, as, from)) /\ Did(item, Up(item, dir, as, from))
      \/ /\ \/ \E p \in Prefixes(dir) : Becomes([tree EXCEPT !.folders = @ \cup Prefixes(p)])
            \/ as # None /\ Becomes(Stored(tree, dir, as, from))
         /\ Did(item, Failed(item))
    BY <1>1 DEF perform_upload
<1>5. QED
    BY <1>2, <1>3, <1>4

-------------------------------------------------------------------------------
(***************************************************************************)
(* The local files.                                                        *)
(***************************************************************************)

LEMMA AppendIs ==
    ASSUME NEW dir \in Segments, NEW name \in FileName
    PROVE  /\ Append(dir, name) \in Segments \ {<<>>}
           /\ Front(Append(dir, name)) = dir
           /\ Last(Append(dir, name)) = name
<1>1. Append(dir, name) \in Segments /\ Len(Append(dir, name)) = Len(dir) + 1
      /\ Append(dir, name)[Len(dir) + 1] = name /\ Len(dir) \in Nat
    BY DEF Segments
<1>2. Append(dir, name) # <<>>
    BY <1>1
<1>3. SubSeq(Append(dir, name), 1, Len(dir)) = dir
    BY DEF Segments
<1>4. QED
    BY <1>1, <1>2, <1>3 DEF Front, Last

LEMMA WrittenType ==
    ASSUME NEW files, LocalType(files), NEW path \in Segments \ {<<>>},
           NEW from \in SUBSET Segments, IsFiniteSet(from)
    PROVE  LocalType(Written(files, path, from))
<1> DEFINE kept == {f \in files : f.path # path}
           new  == [path |-> path, kind |-> "file", big |-> FALSE, from |-> from]
<1>1. kept \in SUBSET files
    OBVIOUS
<1>2. IsFiniteSet(kept)
    BY <1>1, FS_Subset DEF LocalType
<1>3. IsFiniteSet(kept \cup {new})
    BY <1>2, FS_AddElement
<1>4. new \in LocalFile /\ new.from = from
    BY DEF LocalFile, Segments
<1>5. Written(files, path, from) = kept \cup {new}
    BY DEF Written
<1> HIDE DEF kept, new
<1>6. \A f \in kept \cup {new} : f \in LocalFile /\ IsFiniteSet(f.from)
    BY <1>1, <1>4 DEF LocalType
<1>7. QED
    BY <1>3, <1>5, <1>6 DEF LocalType

LEMMA ConcatIs ==
    ASSUME NEW p \in Segments \ {<<>>}, NEW q \in Segments
    PROVE  p \o q \in Segments \ {<<>>}
<1>1. p \o q \in Seq(FileName) /\ Len(p \o q) = Len(p) + Len(q) /\ Len(p) # 0
      /\ Len(p) \in Nat /\ Len(q) \in Nat
    BY DEF Segments
<1>2. p \o q # <<>>
    BY <1>1
<1>3. QED
    BY <1>1, <1>2 DEF Segments

LEMMA FolderAdds ==
    ASSUME NEW files, LocalType(files), NEW path \in Segments \ {<<>>}
    PROVE  LocalType(files \cup {LocalFolder(path)})
<1> DEFINE new == LocalFolder(path)
<1>1. new \in LocalFile /\ new.from = {}
    BY DEF LocalFolder, LocalFile, Segments
<1>2. IsFiniteSet(files \cup {new}) /\ IsFiniteSet(new.from)
    BY <1>1, FS_AddElement, FS_EmptySet DEF LocalType
<1> HIDE DEF new
<1>3. LocalType(files \cup {new})
    BY <1>1, <1>2 DEF LocalType
<1>4. QED
    BY <1>3 DEF new

\* The folders and the files a bundle is unpacked into.
LEMMA BundleAdds ==
    ASSUME NEW files, LocalType(files), NEW at \in Segments \ {<<>>},
           NEW from \in SUBSET Segments, IsFiniteSet(from)
    PROVE  LocalType(files
               \cup {LocalFolder(at \o q) : q \in {<<>>} \cup UNION {Prefixes(Front(p)) : p \in from}}
               \cup {[path |-> at \o p, kind |-> "file", big |-> FALSE, from |-> {p}] : p \in from})
<1> DEFINE Q == {<<>>} \cup UNION {Prefixes(Front(p)) : p \in from}
           fronts == [p \in from |-> Prefixes(Front(p))]
           D == {LocalFolder(at \o q) : q \in Q}
           E == {[path |-> at \o p, kind |-> "file", big |-> FALSE, from |-> {p}] : p \in from}
<1>1. \A p \in from : Front(p) \in Segments
    BY DEF Front, Segments
<1>2. \A p \in from : Prefixes(Front(p)) \subseteq Segments /\ IsFiniteSet(Prefixes(Front(p)))
    BY <1>1, PrefixesAre DEF Segments
<1>3. IsFiniteSet(UNION {Prefixes(Front(p)) : p \in from})
    <2> DEFINE T == {fronts[p] : p \in from}
    <2>1. fronts = [p \in from |-> fronts[p]]
        OBVIOUS
    <2>2. T = {Prefixes(Front(p)) : p \in from}
        OBVIOUS
    <2>3. IsFiniteSet(T)
        <3> HIDE DEF fronts
        <3>1. QED
            BY <2>1, ImageFinite
    <2>4. \A S \in T : IsFiniteSet(S)
        BY <1>2, <2>2
    <2>5. IsFiniteSet(UNION T)
        <3> HIDE DEF T
        <3>1. QED
            BY <2>3, <2>4, FS_UNION
    <2>6. QED
        BY <2>2, <2>5
<1>4. Q \subseteq Segments
    <2>1. <<>> \in Segments
        BY DEF Segments
    <2>2. QED
        BY <1>2, <2>1
<1>5. IsFiniteSet(Q)
    BY <1>3, FS_Singleton, FS_Union
<1> HIDE DEF Q
<1>6. IsFiniteSet(D) /\ \A f \in D : f \in LocalFile /\ IsFiniteSet(f.from)
    <2> DEFINE g == [q \in Q |-> LocalFolder(at \o q)]
    <2>1. D = {g[q] : q \in Q} /\ g = [q \in Q |-> g[q]]
        OBVIOUS
    <2>2. IsFiniteSet(D)
        <3> HIDE DEF g, D
        <3>1. QED
            BY <1>5, <2>1, ImageFinite
    <2>3. ASSUME NEW q \in Q
          PROVE  LocalFolder(at \o q) \in LocalFile /\ LocalFolder(at \o q).from = {}
        <3>1. at \o q \in Segments \ {<<>>}
            BY <1>4, ConcatIs
        <3>2. QED
            BY <3>1 DEF LocalFolder, LocalFile, Segments
    <2>4. QED
        BY <2>2, <2>3, FS_EmptySet
<1>7. IsFiniteSet(E) /\ \A f \in E : f \in LocalFile /\ IsFiniteSet(f.from)
    <2> DEFINE g == [p \in from |->
                        [path |-> at \o p, kind |-> "file", big |-> FALSE, from |-> {p}]]
    <2>1. E = {g[q] : q \in from} /\ g = [q \in from |-> g[q]]
        OBVIOUS
    <2>2. IsFiniteSet(E)
        <3> HIDE DEF g, E
        <3>1. QED
            BY <2>1, ImageFinite
    <2>3. ASSUME NEW p \in from, NEW f,
                 f = [path |-> at \o p, kind |-> "file", big |-> FALSE, from |-> {p}]
          PROVE  f \in LocalFile /\ f.from = {p}
        <3>1. at \o p \in Segments \ {<<>>} /\ {p} \in SUBSET Segments
            BY ConcatIs
        <3>2. QED
            BY <2>3, <3>1 DEF LocalFile, Segments
    <2>4. ASSUME NEW f \in E PROVE f \in LocalFile /\ IsFiniteSet(f.from)
        <3>1. PICK p \in from :
                  f = [path |-> at \o p, kind |-> "file", big |-> FALSE, from |-> {p}]
            OBVIOUS
        <3>2. QED
            BY <2>3, <3>1, FS_Singleton
    <2>5. QED
        BY <2>2, <2>4
<1> HIDE DEF D, E
<1>8. LocalType(files \cup D \cup E)
    <2>1. IsFiniteSet(files \cup D \cup E)
        BY <1>6, <1>7, FS_Union DEF LocalType
    <2>2. QED
        BY <1>6, <1>7, <2>1 DEF LocalType
<1>9. QED
    BY <1>8 DEF D, E, Q

LEMMA UnpackedType ==
    ASSUME NEW files, LocalType(files), NEW dir \in Segments, NEW f \in RemoteFile,
           IsFiniteSet(f.from), NEW g \in Unpacked(files, dir, f)
    PROVE  LocalType(g)
<1> DEFINE at == Append(dir, Packed(f.name, ""))
<1>1. f.name \in FileName /\ f.from \in SUBSET Segments
    BY DEF RemoteFile, Segments
<1>2. at \in Segments \ {<<>>}
    <2>1. Packed(f.name, "") \in FileName
        BY <1>1 DEF Packed, FileName
    <2>2. \A name \in FileName : Append(dir, name) \in Segments \ {<<>>}
        BY AppendIs
    <2>3. QED
        BY <2>1, <2>2
<1>3. LocalType(Written(files, at, f.from)) /\ LocalType(Written(files, at, {}))
    BY <1>1, <1>2, WrittenType, FS_EmptySet
<1>4. ASSUME NEW S \in SUBSET f.from
      PROVE  LocalType(files
          \cup {LocalFolder(at \o q) : q \in {<<>>} \cup UNION {Prefixes(Front(p)) : p \in S}}
          \cup {[path |-> at \o p, kind |-> "file", big |-> FALSE, from |-> {p}] : p \in S})
    <2>1. S \in SUBSET Segments /\ IsFiniteSet(S)
        BY <1>1, FS_Subset
    <2>2. QED
        BY <1>2, <2>1, BundleAdds
<1>5. \/ g = files \/ g = Written(files, at, f.from) \/ g = Written(files, at, {})
      \/ \E S \in SUBSET f.from : g = files
          \cup {LocalFolder(at \o q) : q \in {<<>>} \cup UNION {Prefixes(Front(p)) : p \in S}}
          \cup {[path |-> at \o p, kind |-> "file", big |-> FALSE, from |-> {p}] : p \in S}
    BY DEF Unpacked
<1>6. QED
    BY <1>3, <1>4, <1>5

\* A fetch writes the file, leaves things alone or cuts the file short.
LEMMA FetchType ==
    ASSUME LocalType(local), NEW item, NEW f \in RemoteFile, IsFiniteSet(f.from),
           NEW dir \in Segments, NEW unpack, fetch(item, f, dir, unpack)
    PROVE  LocalType(local')
<1> DEFINE at == Append(dir, f.name)
<1>1. f.name \in FileName /\ f.from \in SUBSET Segments
    BY DEF RemoteFile, Segments
<1>2. at \in Segments \ {<<>>}
    BY <1>1, AppendIs
<1>3. LocalType(Written(local, at, f.from)) /\ LocalType(Written(local, at, {}))
    BY <1>1, <1>2, WrittenType, FS_EmptySet
<1>4. \A g \in Unpacked(Written(local, at, f.from), dir, f) : LocalType(g)
    BY <1>3, UnpackedType
<1>5. \/ local' \in Unpacked(Written(local, at, f.from), dir, f)
      \/ local' = Written(local, at, f.from)
      \/ local' = local
      \/ local' = Written(local, at, {})
    BY DEF fetch
<1>6. QED
    BY <1>3, <1>4, <1>5

-------------------------------------------------------------------------------
(***************************************************************************)
(* Commands and the work they plan.                                        *)
(***************************************************************************)

LEMMA PathOfWord ==
    ASSUME NEW tok \in WordToken \cup {None}
    PROVE  PathOf(tok) \in Segments
<1>1. <<>> \in Segments
    BY DEF Segments
<1>2. QED
    BY <1>1 DEF PathOf, WordToken, Segments

LEMMA PathsAre ==
    /\ Path \subseteq Segments
    /\ \A p \in Path : Prefixes(p) \subseteq Path
<1>1. MAX_DEPTH \in Nat /\ Folder \subseteq FileName
    BY ListingAssumption
<1>2. ASSUME NEW p \in Path
      PROVE  p \in Segments /\ p \in Seq(Folder) /\ Len(p) <= MAX_DEPTH
    <2>1. PICK n \in 0..MAX_DEPTH : p \in [1..n -> Folder]
        BY DEF Path
    <2>2. n \in Nat /\ n <= MAX_DEPTH
        BY <1>1, <2>1
    <2>3. p \in Seq(Folder) /\ Len(p) = n
        BY <2>1, <2>2
    <2>4. \A i \in 1..n : p[i] \in FileName
        BY <1>1, <2>1
    <2>5. p \in Seq(FileName)
        BY <2>1, <2>2, <2>4
    <2>6. QED
        BY <2>2, <2>3, <2>5 DEF Segments
<1>3. ASSUME NEW p \in Path, NEW q \in Prefixes(p)
      PROVE  q \in Path
    <2>1. PICK l \in 0..Len(p) : q = SubSeq(p, 1, l)
        BY DEF Prefixes
    <2>2. q \in Seq(Folder) /\ Len(q) = l
        BY <1>2, <2>1
    <2>3. l \in 0..MAX_DEPTH
        BY <1>1, <1>2
    <2>4. q \in [1..l -> Folder]
        BY <2>2
    <2>5. QED
        BY <2>3, <2>4 DEF Path
<1>4. QED
    BY <1>2, <1>3

\* The path below a folder.
LEMMA BelowIs ==
    ASSUME NEW dir \in Segments, NEW p \in Segments
    PROVE  /\ Below(dir, p) \in Segments
           /\ Len(p) > Len(dir) => /\ Below(dir, p) # <<>>
                                   /\ Last(Below(dir, p)) = Last(p)
                                   /\ Last(p) \in FileName
                                   /\ Front(Below(dir, p)) \in Segments
<1> DEFINE r == Below(dir, p)
<1>1. Len(dir) \in Nat /\ Len(p) \in Nat
    BY DEF Segments
<1>2. r \in Segments
    BY <1>1 DEF Below, Segments
<1>3. ASSUME Len(p) > Len(dir)
      PROVE  /\ r # <<>> /\ Last(r) = Last(p) /\ Last(p) \in FileName
             /\ Front(r) \in Segments
    <2>1. Len(r) = Len(p) - Len(dir)
        BY <1>1, <1>3 DEF Below, Segments
    <2>2. r # <<>>
        BY <1>1, <1>3, <2>1
    <2>3. r[Len(r)] = p[Len(p)] /\ p[Len(p)] \in FileName
        <3>1. p \in Seq(FileName) /\ Len(p) \in 1..Len(p)
            BY <1>1, <1>3 DEF Segments
        <3>2. p[Len(p)] \in FileName
            BY <3>1
        <3>3. r = SubSeq(p, Len(dir) + 1, Len(p))
            BY DEF Below
        <3>4. \A i \in 1..Len(r) : r[i] = p[Len(dir) + i]
            BY <1>1, <1>3, <2>1, <3>1, <3>3
        <3>5. Len(r) \in 1..Len(r) /\ Len(dir) + Len(r) = Len(p)
            BY <1>1, <1>3, <2>1
        <3>6. QED
            BY <3>2, <3>4, <3>5
    <2>4. Front(r) \in Segments
        BY <1>1, <1>2, <1>3, <2>1 DEF Front, Segments
    <2>5. QED
        BY <2>2, <2>3, <2>4 DEF Last
<1>4. QED
    BY <1>2, <1>3

LEMMA WorkIs ==
    ASSUME NEW cmd, ReadsAs(cmd), NEW item \in WorkOf(cmd)
    PROVE  \/ cmd.verb = "Upload" /\ item.op = "word" /\ item.tok \in WordToken
           \/ /\ cmd.verb = "SaveAll" /\ item.op = "walk"
              /\ item.file \in LocalBelow(PathOf(cmd.here))
           \/ /\ cmd.verb = "SaveAll" /\ item.op = "bundle"
              /\ item.files \in SUBSET LocalBelow(PathOf(cmd.here)) /\ IsFiniteSet(item.files)
           \/ cmd.verb = "Download" /\ item.op = "get" /\ item.tok \in WordToken
           \/ cmd.verb = "Download" /\ item.op = "glob" /\ item.dir \in Segments
           \/ /\ cmd.verb = "DownloadAll" /\ item.op = "fetch"
              /\ item.file \in Fetchable /\ item.here \in Segments
           \/ /\ cmd.verb = "DownloadAll" /\ item.op = "dir"
              /\ item.dir \in Segments /\ item.here \in Segments
<1>1. CASE cmd.verb = "Upload"
    BY <1>1 DEF WorkOf
<1>2. CASE cmd.verb = "SaveAll"
    BY <1>2 DEF WorkOf
<1>3. CASE cmd.verb = "Download"
    BY <1>3 DEF WorkOf
<1>4. CASE cmd.verb = "DownloadAll"
    BY <1>4 DEF WorkOf
<1>5. QED
    BY <1>1, <1>2, <1>3, <1>4 DEF ReadsAs

LEMMA WalkedAre ==
    ASSUME LocalType(local), NEW dir, NEW recursive
    PROVE  /\ walk_local(dir, recursive) \subseteq LocalBelow(dir)
           /\ walk_local(dir, recursive) \subseteq local
           /\ IsFiniteSet(walk_local(dir, recursive))
<1>1. walk_local(dir, recursive) \in SUBSET local
    BY DEF walk_local
<1>2. IsFiniteSet(walk_local(dir, recursive))
    BY <1>1, FS_Subset DEF LocalType
<1>3. walk_local(dir, recursive) \subseteq LocalBelow(dir)
    BY DEF walk_local, LocalBelow, LocalType
<1>4. QED
    BY <1>1, <1>2, <1>3

\* Items for the elements of a finite set.
LEMMA ItemsAre ==
    ASSUME NEW op, NEW S, IsFiniteSet(S), NEW W, \A f \in S : [op |-> op, file |-> f] \in W
    PROVE  Items(op, S) \in Seq(W)
<1> DEFINE g == [f \in S |-> [op |-> op, file |-> f]]
           T == {[op |-> op, file |-> f] : f \in S}
<1>1. IsFiniteSet({g[f] : f \in S})
    <2>1. g = [f \in S |-> g[f]]
        OBVIOUS
    <2> HIDE DEF g
    <2>2. QED
        BY <2>1, ImageFinite
<1>2. {g[f] : f \in S} = T
    OBVIOUS
<1>3. T \subseteq W
    OBVIOUS
<1> HIDE DEF T
<1>4. SetToSeq(T) \in Seq(T)
    BY <1>1, <1>2, Listed
<1>5. SetToSeq(T) \in Seq(W)
    BY <1>3, <1>4
<1>6. QED
    BY <1>5 DEF Items, T

\* What a command goes through is work of its kind.
LEMMA PlanIs ==
    ASSUME LocalType(local), NEW cmd, Command(cmd), NEW plan \in Plan(cmd)
    PROVE  plan.todo \in Seq(WorkOf(cmd))
<1> DEFINE found == walk_local(PathOf(cmd.here), cmd.recursive)
<1>1. <<>> \in Seq(WorkOf(cmd))
    OBVIOUS
<1>2. CASE cmd.verb = "Upload"
    <2>1. cmd.files \in Seq(WordToken)
        BY <1>2 DEF Command, ReadsAs
    <2>2. plan.todo = [i \in DOMAIN cmd.files |-> [op |-> "word", tok |-> cmd.files[i]]]
        BY <1>2 DEF Plan
    <2>3. \A i \in 1..Len(cmd.files) : [op |-> "word", tok |-> cmd.files[i]] \in WorkOf(cmd)
        BY <1>2, <2>1 DEF WorkOf
    <2>4. QED
        BY <2>1, <2>2, <2>3
<1>3. CASE cmd.verb = "Download"
    <2>1. cmd.files \in Seq(WordToken)
        BY <1>3 DEF Command, ReadsAs
    <2> DEFINE of(i) == IF cmd.files[i].path # <<>> /\ Last(cmd.files[i].path) = Star
                        THEN [op |-> "glob", dir |-> Front(cmd.files[i].path)]
                        ELSE [op |-> "get", tok |-> cmd.files[i]]
    <2>2. plan.todo = [i \in DOMAIN cmd.files |-> of(i)]
        BY <1>3 DEF Plan
    <2>3. ASSUME NEW i \in 1..Len(cmd.files) PROVE of(i) \in WorkOf(cmd)
        <3>0. cmd.files[i] \in WordToken
            BY <2>1
        <3>1. cmd.files[i] \in WordToken /\ cmd.files[i].path \in Seq(FileName)
            BY <3>0 DEF WordToken
        <3>2. Front(cmd.files[i].path) \in Segments
            BY <3>1 DEF Front, Segments
        <3>3. QED
            BY <1>3, <3>1, <3>2 DEF WorkOf
    <2> HIDE DEF of
    <2>4. QED
        BY <2>1, <2>2, <2>3
<1>4. CASE cmd.verb = "SaveAll"
    <2>1. found \subseteq LocalBelow(PathOf(cmd.here)) /\ IsFiniteSet(found)
        BY WalkedAre
    <2>2. \A f \in found : [op |-> "walk", file |-> f] \in WorkOf(cmd)
        BY <1>4, <2>1 DEF WorkOf
    <2>3. Items("walk", found) \in Seq(WorkOf(cmd))
        BY <2>1, <2>2, ItemsAre
    <2>4. [op |-> "bundle", files |-> found] \in WorkOf(cmd)
        BY <1>4, <2>1 DEF WorkOf
    <2>5. plan.todo \in {Items("walk", found), <<[op |-> "bundle", files |-> found]>>, <<>>}
        BY <1>4 DEF Plan
    <2>6. <<[op |-> "bundle", files |-> found]>> \in Seq(WorkOf(cmd))
        <3> DEFINE b == [op |-> "bundle", files |-> found]
        <3> HIDE DEF b
        <3>1. b \in WorkOf(cmd)
            BY <2>4 DEF b
        <3>2. <<b>> \in Seq(WorkOf(cmd))
            BY <3>1
        <3>3. QED
            BY <3>2 DEF b
    <2> HIDE DEF found
    <2>7. QED
        BY <1>1, <2>3, <2>5, <2>6
<1>5. CASE cmd.verb = "DownloadAll"
    <2>1. PathOf(cmd.there) \in Segments /\ PathOf(cmd.here) \in Segments
        BY <1>5, PathOfWord DEF Command, ReadsAs
    <2>2. [op |-> "dir", dir |-> PathOf(cmd.there), here |-> PathOf(cmd.here)] \in WorkOf(cmd)
        BY <1>5, <2>1 DEF WorkOf
    <2>3. plan.todo \in
              {<<>>, <<[op |-> "dir", dir |-> PathOf(cmd.there), here |-> PathOf(cmd.here)]>>}
        BY <1>5 DEF Plan
    <2> DEFINE b == [op |-> "dir", dir |-> PathOf(cmd.there), here |-> PathOf(cmd.here)]
    <2> HIDE DEF b
    <2>4. <<b>> \in Seq(WorkOf(cmd))
        BY <2>2 DEF b
    <2>5. QED
        BY <1>1, <2>3, <2>4 DEF b
<1>6. QED
    BY <1>2, <1>3, <1>4, <1>5 DEF Command, ReadsAs

\* Doing an item takes it off the list and records what came of it.
LEMMA DidIs ==
    ASSUME NEW item, NEW o, JobType(job), job.todo # <<>>, Did(item, o)
    PROVE  /\ JobType(job')
           /\ job'.cmd = job.cmd /\ job'.exit = job.exit /\ job'.asked = job.asked
           /\ job'.todo = Tail(job.todo)
           /\ job'.done = job.done \cup {o}
<1>1. job = [cmd |-> job.cmd, todo |-> job.todo, exit |-> job.exit, done |-> job.done,
             asked |-> job.asked]
    BY DEF JobType
<1>2. job' = [cmd |-> job.cmd, todo |-> Tail(job.todo), exit |-> job.exit,
              done |-> job.done \cup {o}, asked |-> job.asked]
    BY <1>1 DEF Did
<1>3. Tail(job.todo) \in Seq(WorkOf(job.cmd))
    BY DEF JobType
<1>4. /\ job'.cmd = job.cmd /\ job'.exit = job.exit /\ job'.asked = job.asked
      /\ job'.todo = Tail(job.todo)
      /\ job'.done = job.done \cup {o}
    BY <1>2
<1>5. QED
    BY <1>2, <1>3, <1>4 DEF JobType

\* Expanding an item puts what it stands for in its place.
LEMMA ExpandedIs ==
    ASSUME JobType(job), job.todo # <<>>, NEW work \in Seq(WorkOf(job.cmd)),
           job' = [job EXCEPT !.todo = work \o Tail(@)]
    PROVE  /\ JobType(job')
           /\ job'.cmd = job.cmd /\ job'.exit = job.exit /\ job'.asked = job.asked
           /\ job'.todo = work \o Tail(job.todo)
           /\ job'.done = job.done
<1>1. job = [cmd |-> job.cmd, todo |-> job.todo, exit |-> job.exit, done |-> job.done,
             asked |-> job.asked]
    BY DEF JobType
<1>2. job' = [cmd |-> job.cmd, todo |-> work \o Tail(job.todo), exit |-> job.exit,
              done |-> job.done, asked |-> job.asked]
    BY <1>1
<1>3. work \o Tail(job.todo) \in Seq(WorkOf(job.cmd))
    BY DEF JobType
<1>4. /\ job'.cmd = job.cmd /\ job'.exit = job.exit /\ job'.asked = job.asked
      /\ job'.todo = work \o Tail(job.todo)
      /\ job'.done = job.done
    BY <1>2
<1>5. QED
    BY <1>2, <1>3, <1>4 DEF JobType

-------------------------------------------------------------------------------
(***************************************************************************)
(* Listings.                                                               *)
(***************************************************************************)

\* A listing e of the folder p, by kind, is what t holds there, or a part of it.
Gives(e, p, kind, t) ==
    LET was == OfKind(kind, Listing(t, p)) IN
    IF e.truncated THEN e.entries \subseteq was ELSE e.entries = was

LEMMA ListingFinite ==
    ASSUME NEW t, RemoteType(t), NEW p
    PROVE  IsFiniteSet(Listing(t, p))
<1> DEFINE F == {f \in t.files : f.dir = p}
           Q == {q \in t.folders : q # <<>> /\ Front(q) = p}
           nf == [f \in F |-> [name |-> f.name, dir |-> FALSE]]
           nq == [q \in Q |-> [name |-> Last(q), dir |-> TRUE]]
<1>1. IsFiniteSet(F) /\ IsFiniteSet(Q)
    <2>1. F \in SUBSET t.files /\ Q \in SUBSET t.folders
        OBVIOUS
    <2>2. QED
        BY <2>1, FS_Subset DEF RemoteType
<1>2. nf = [f \in F |-> nf[f]] /\ nq = [q \in Q |-> nq[q]]
    OBVIOUS
<1>3. Listing(t, p) = {nf[f] : f \in F} \cup {nq[q] : q \in Q}
    BY DEF Listing
<1>4. IsFiniteSet({nf[f] : f \in F}) /\ IsFiniteSet({nq[q] : q \in Q})
    <2> HIDE DEF nf, nq, F, Q
    <2>1. QED
        BY <1>1, <1>2, ImageFinite
<1> HIDE DEF nf, nq, F, Q
<1>5. QED
    BY <1>3, <1>4, FS_Union

LEMMA ShapedIs ==
    ASSUME NEW t, RemoteType(t), NEW p, NEW kind, NEW e \in Shaped(kind, Listing(t, p))
    PROVE  Kept(e) /\ e.age = 0 /\ Gives(e, p, kind, t)
<1> DEFINE raw == Listing(t, p)
           was == OfKind(kind, raw)
<1>1. CAP \in Nat
    BY ListingAssumption
<1>2. IsFiniteSet(raw)
    BY ListingFinite
<1>3. was \in SUBSET raw
    BY DEF OfKind
<1>4. Cardinality(raw) \in Nat /\ Cardinality(was) \in Nat /\ Cardinality(was) <= Cardinality(raw)
    <2> HIDE DEF raw, was
    <2>1. IsFiniteSet(was) /\ Cardinality(was) <= Cardinality(raw)
        BY <1>2, <1>3, FS_Subset
    <2>2. QED
        BY <1>2, <2>1, FS_CardinalityType
<1>5. PICK E \in IF Cardinality(was) <= CAP THEN {was} ELSE kSubset(CAP, was) :
          e = [entries |-> E, truncated |-> Cardinality(raw) > CAP, age |-> 0]
    BY DEF Shaped
<1>6. E \subseteq was
    BY <1>5 DEF kSubset
<1>7. Cardinality(raw) <= CAP => E = was
    BY <1>1, <1>4, <1>5
<1> HIDE DEF raw, was
<1>8. e.entries = E /\ e.age = 0 /\ (e.truncated <=> Cardinality(raw) > CAP)
      /\ e = [entries |-> e.entries, truncated |-> e.truncated, age |-> e.age]
    BY <1>5
<1>9. IF e.truncated THEN e.entries \subseteq was ELSE e.entries = was
    BY <1>1, <1>4, <1>6, <1>7, <1>8
<1>10. QED
    BY <1>8, <1>9 DEF Gives, Kept, was, raw

\* What one request for a listing does.
LEMMA ListRemoteIs ==
    ASSUME RemoteType(tree), NEW c, NEW p, NEW kind, list_remote(c, p, kind)
    PROVE  \/ Live(cache, <<p, kind>>) /\ Reply(c, p, kind, cache[<<p, kind>>]) /\ cache' = cache
           \/ \E e : /\ Kept(e) /\ e.age = 0 /\ Gives(e, p, kind, tree)
                     /\ cache' = [cache EXCEPT ![<<p, kind>>] = e]
                     /\ (Reply(c, p, kind, e) \/ shown' = None)
           \/ shown' = None /\ cache' = cache
<1> DEFINE hit == get(cache, p, kind)
<1>1. CASE hit # None /\ Reply(c, p, kind, hit) /\ UNCHANGED cache
    BY <1>1 DEF get
<1>2. CASE /\ \E e \in Shaped(kind, Listing(tree, p)) :
                 /\ cache' = put(cache, p, kind, e)
                 /\ (Reply(c, p, kind, e) \/ shown' = None)
    <2>1. PICK e \in Shaped(kind, Listing(tree, p)) :
              /\ cache' = put(cache, p, kind, e)
              /\ (Reply(c, p, kind, e) \/ shown' = None)
        BY <1>2
    <2>2. Kept(e) /\ e.age = 0 /\ Gives(e, p, kind, tree)
        BY ShapedIs
    <2>3. cache' = [cache EXCEPT ![<<p, kind>>] = e]
        BY <2>1 DEF put
    <2>4. QED
        BY <2>1, <2>2, <2>3
<1>3. CASE shown' = None /\ UNCHANGED cache
    BY <1>3
<1>4. QED
    BY <1>1, <1>2, <1>3 DEF list_remote

LEMMA AsksKind ==
    ASSUME NEW state, NEW words, Context(state, words).asks # None
    PROVE  Context(state, words).asks \in Kind
<1>1. \A x, y : Offer(x, y).asks # None => Offer(x, y).asks \in Kind
    BY DEF Offer, Kind
<1>2. \A mods, after : \E x, y : AfterS(mods, after) = Offer(x, y)
    BY DEF AfterS
<1>3. \A mods, after : \E x, y : AfterD(mods, after) = Offer(x, y)
    BY DEF AfterD
<1>4. \E x, y : Context(state, words) = Offer(x, y)
    <2>1. CASE ~Ready(state)
        BY <2>1 DEF Context, Nothing
    <2>2. CASE Ready(state) /\ words = <<>>
        BY <2>2 DEF Context
    <2>3. CASE Ready(state) /\ words # <<>>
        <3>1. PICK head, after : head = words[1] /\ after = Tail(words)
            OBVIOUS
        <3>2. Context(state, words) =
                  CASE head.is = "verb" -> IF head.letter = "s" THEN AfterS(head.mods, after)
                                           ELSE AfterD(head.mods, after)
                    [] head.is = "atom" -> Nothing
                    [] OTHER            -> Offer({"file"}, {"dir"})
            BY <2>3, <3>1 DEF Context
        <3>3. CASE head.is = "verb"
            BY <1>2, <1>3, <3>2, <3>3
        <3>4. CASE head.is = "atom"
            BY <3>2, <3>4 DEF Nothing
        <3>5. CASE head.is # "verb" /\ head.is # "atom"
            BY <3>2, <3>5
        <3>6. QED
            BY <3>3, <3>4, <3>5
    <2>4. QED
        BY <2>1, <2>2, <2>3
<1>5. QED
    BY <1>1, <1>4

LEMMA ParentIsPath ==
    ASSUME NEW c \in Cursors
    PROVE  parent_for_remote_prefix(c.cur) \in Path
<1> DEFINE dir == c.cur.dir
<1>1. dir \in Path /\ dir \in Segments /\ Prefixes(dir) \subseteq Path
    BY ListingAssumption, PathsAre
<1>2. dir # <<>> => Front(dir) \in Prefixes(dir)
    <2>1. dir # <<>> => Len(dir) - 1 \in 0..Len(dir)
        BY <1>1 DEF Segments
    <2>2. QED
        BY <2>1 DEF Front, Prefixes
<1>3. parent_for_remote_prefix(c.cur) \in {<<>>, dir, Front(dir)}
      /\ (parent_for_remote_prefix(c.cur) = <<>> \/ dir # <<>>)
    BY DEF parent_for_remote_prefix
<1>4. <<>> \in Path
    BY <1>1, PrefixesAre DEF Segments
<1>5. QED
    BY <1>1, <1>2, <1>3, <1>4

\* A TAB asks for at most one listing, of a folder it can spell.
LEMMA CompleteIs ==
    ASSUME Complete
    PROVE  \E c \in Cursors : \E p \in Path : \E kind \in Kind :
               list_remote(c, p, kind) /\ UNCHANGED <<agent, tree, past, changes>>
<1>1. PICK c \in Cursors :
          LET state == classify(TRUE, FALSE, agent # "absent", agent = "unlocked")
              asks  == Context(state, c.words).asks
          IN  /\ asks # None
              /\ list_remote(c, parent_for_remote_prefix(c.cur), asks)
              /\ UNCHANGED <<agent, tree, past, changes>>
    BY DEF Complete
<1>2. PICK state : state = classify(TRUE, FALSE, agent # "absent", agent = "unlocked")
    OBVIOUS
<1>3. /\ Context(state, c.words).asks # None
      /\ list_remote(c, parent_for_remote_prefix(c.cur), Context(state, c.words).asks)
      /\ UNCHANGED <<agent, tree, past, changes>>
    BY <1>1, <1>2
<1>4. Context(state, c.words).asks \in Kind /\ parent_for_remote_prefix(c.cur) \in Path
    BY <1>3, AsksKind, ParentIsPath
<1>5. QED
    BY <1>3, <1>4

-------------------------------------------------------------------------------
(***************************************************************************)
(* One step of a job.                                                      *)
(***************************************************************************)

\* An upload adds to the remote folder and is recorded as what it came to; what is
\* skipped was not asked for, and what is sent is all that was.
UploadDone(item, asks) ==
    /\ Added
    /\ \/ \E dir, as, from : /\ Did(item, Up(item, dir, as, from))
                             /\ [dir |-> dir, name |-> as, from |-> from] \in tree'.files
                             /\ asks \subseteq {Place(dir, from)}
       \/ Did(item, Failed(item))
       \/ Did(item, Skipped(item)) /\ asks = {}

LEMMA PerformUploadDone ==
    ASSUME RemoteType(tree), PastType, NEW item, NEW dir \in Segments, NEW leaf \in FileName,
           NEW from \in SUBSET Segments, IsFiniteSet(from),
           NEW asks, asks \subseteq {Place(dir, from)},
           perform_upload(item, dir, leaf, from)
    PROVE  UploadDone(item, asks)
BY PerformUpload DEF UploadDone

LEMMA FileAtIs ==
    ASSUME LocalType(local), NEW p, \E g \in local : g.path = p
    PROVE  /\ FileAt(p) \in local /\ FileAt(p).path = p
           /\ p \in Segments \ {<<>>}
           /\ FileAt(p).from \in SUBSET Segments /\ IsFiniteSet(FileAt(p).from)
<1>1. FileAt(p) \in local /\ FileAt(p).path = p
    BY DEF FileAt
<1>2. FileAt(p) \in LocalFile /\ IsFiniteSet(FileAt(p).from)
    BY <1>1 DEF LocalType
<1>3. QED
    BY <1>1, <1>2 DEF LocalFile, Segments

LEMMA LastIsName ==
    ASSUME NEW p \in Segments \ {<<>>}
    PROVE  Last(p) \in FileName /\ Front(p) \in Segments
<1>1. Len(p) \in 1..Len(p)
    BY DEF Segments
<1>2. QED
    BY <1>1 DEF Last, Front, Segments

LEMMA UploadOneIs ==
    ASSUME TypeInv, job # None, NEW item, item.tok \in WordToken, job.cmd.verb = "Upload",
           upload_one(item)
    PROVE  UploadDone(item, AskedOfWord(job.cmd, item.tok.path))
<1> DEFINE p    == item.tok.path
           leaf == Last(p)
           f    == FileAt(p)
           pack == job.cmd.x /\ f.big
           name == IF pack THEN Packed(leaf, ".zst") ELSE leaf
           asks == AskedOfWord(job.cmd, p)
<1>1. RemoteType(tree) /\ PastType /\ LocalType(local) /\ JobType(job)
    BY DEF TypeInv
<1>2. PathOf(job.cmd.dest) \in Segments
    BY <1>1, PathOfWord DEF JobType, Command, ReadsAs
<1>3. CASE Did(item, Skipped(item)) /\ UNCHANGED <<tree, past>> /\ asks = {}
    BY <1>1, <1>3, UnchangedAdds DEF UploadDone
<1>4. CASE Did(item, Failed(item)) /\ UNCHANGED <<tree, past>>
    BY <1>1, <1>4, UnchangedAdds DEF UploadDone
<1>5. CASE /\ \E g \in local : g.path = p
           /\ asks \subseteq {Place(PathOf(job.cmd.dest), f.from)}
           /\ perform_upload(item, PathOf(job.cmd.dest), name, f.from)
    <2>1. p \in Segments \ {<<>>} /\ f.from \in SUBSET Segments /\ IsFiniteSet(f.from)
        BY <1>1, <1>5, FileAtIs
    <2>2. leaf \in FileName
        BY <2>1, LastIsName
    <2>3. name \in FileName
        BY <2>2, PackedIsName
    <2>4. PICK dir, from, A : dir = PathOf(job.cmd.dest) /\ from = f.from /\ A = asks
        OBVIOUS
    <2>5. perform_upload(item, dir, name, from) /\ A \subseteq {Place(dir, from)}
        BY <1>5, <2>4
    <2> HIDE DEF name, f, asks
    <2>6. UploadDone(item, A)
        BY <1>1, <1>2, <2>1, <2>3, <2>4, <2>5, PerformUploadDone
    <2>7. QED
        BY <2>4, <2>6 DEF asks
<1>6. \/ Did(item, Skipped(item)) /\ UNCHANGED <<tree, past>> /\ asks = {}
      \/ Did(item, Failed(item)) /\ UNCHANGED <<tree, past>>
      \/ /\ \E g \in local : g.path = p
         /\ asks \subseteq {Place(PathOf(job.cmd.dest), f.from)}
         /\ perform_upload(item, PathOf(job.cmd.dest), name, f.from)
    <2>1. p # <<>> /\ leaf \in Hidden => asks = {}
        BY DEF AskedOfWord
    <2>2. p # <<>> /\ leaf \notin Hidden /\ (\E g \in local : g.path = p) =>
              asks = IF f.kind = "file" THEN {Place(PathOf(job.cmd.dest), f.from)} ELSE {}
        BY DEF AskedOfWord
    <2>3. \/ /\ p # <<>> /\ leaf \in Hidden
             /\ Did(item, Skipped(item)) /\ UNCHANGED <<tree, past>>
          \/ Did(item, Failed(item)) /\ UNCHANGED <<tree, past>>
          \/ /\ p # <<>> /\ leaf \notin Hidden /\ (\E g \in local : g.path = p)
             /\ \/ /\ f.kind # "file"
                   /\ Did(item, Skipped(item)) /\ UNCHANGED <<tree, past>>
                \/ /\ f.kind = "file"
                   /\ perform_upload(item, PathOf(job.cmd.dest), name, f.from)
        BY DEF upload_one
    <2> HIDE DEF asks, name, f, leaf, p
    <2>4. QED
        BY <2>1, <2>2, <2>3
<1>7. QED
    BY <1>3, <1>4, <1>5, <1>6

LEMMA UploadWalkIs ==
    ASSUME TypeInv, job # None, NEW item, item.file \in LocalBelow(PathOf(job.cmd.here)),
           job.cmd.verb = "SaveAll", upload_walk_entry(item)
    PROVE  UploadDone(item, {Place(PathOf(job.cmd.there)
                                       \o Front(Below(PathOf(job.cmd.here), item.file.path)),
                                   item.file.from)})
<1> DEFINE here == PathOf(job.cmd.here)
           p    == item.file.path
           rel  == Below(here, p)
<1>1. RemoteType(tree) /\ PastType /\ JobType(job)
    BY DEF TypeInv
<1>2. here \in Segments /\ PathOf(job.cmd.there) \in Segments
    BY <1>1, PathOfWord DEF JobType, Command, ReadsAs
<1>3. p \in Segments /\ Len(p) > Len(here) /\ item.file.from \in SUBSET Segments
      /\ IsFiniteSet(item.file.from)
    BY DEF LocalBelow, LocalFile, Segments
<1>4. Front(rel) \in Segments /\ Last(rel) \in FileName
    BY <1>2, <1>3, BelowIs
<1>5. PathOf(job.cmd.there) \o Front(rel) \in Segments
    BY <1>2, <1>4 DEF Segments
<1>6. perform_upload(item, PathOf(job.cmd.there) \o Front(rel), Last(rel), item.file.from)
    BY DEF upload_walk_entry
<1>7. QED
    BY <1>1, <1>3, <1>4, <1>5, <1>6, PerformUploadDone

LEMMA UploadBundleIs ==
    ASSUME TypeInv, job # None, NEW item, item.files \in SUBSET LocalBelow(PathOf(job.cmd.here)),
           IsFiniteSet(item.files), job.cmd.verb = "SaveAll", upload_bundle(item)
    PROVE  UploadDone(item, {Place(PathOf(job.cmd.there),
                                   {Below(PathOf(job.cmd.here), f.path) : f \in item.files})})
<1> DEFINE here == PathOf(job.cmd.here)
           name == IF here = <<>> THEN Name("cwd") ELSE Last(here)
           rels == [f \in item.files |-> Below(here, f.path)]
           from == {Below(here, f.path) : f \in item.files}
<1>1. RemoteType(tree) /\ PastType /\ JobType(job)
    BY DEF TypeInv
<1>2. here \in Segments /\ PathOf(job.cmd.there) \in Segments
    BY <1>1, PathOfWord DEF JobType, Command, ReadsAs
<1>3. name \in FileName
    <2>1. Name("cwd") \in FileName
        BY TransfersAssumption DEF Name, FileName
    <2>2. here # <<>> => Last(here) \in FileName
        BY <1>2, LastIsName
    <2>3. QED
        BY <2>1, <2>2
<1>4. Packed(name, ".tar.zst") \in FileName
    BY <1>3, PackedIsName
<1>5. from \in SUBSET Segments
    <2>1. \A f \in item.files : f.path \in Segments
        BY DEF LocalBelow, LocalFile, Segments
    <2>2. \A f \in item.files : Below(here, f.path) \in Segments
        BY <1>2, <2>1, BelowIs
    <2>3. QED
        BY <2>2
<1>6. IsFiniteSet(from)
    <2>1. from = {rels[f] : f \in item.files} /\ rels = [f \in item.files |-> rels[f]]
        OBVIOUS
    <2> HIDE DEF rels, from
    <2>2. QED
        BY <2>1, ImageFinite
<1>7. perform_upload(item, PathOf(job.cmd.there), Packed(name, ".tar.zst"), from)
    BY DEF upload_bundle
<1> HIDE DEF name, from
<1>8. UploadDone(item, {Place(PathOf(job.cmd.there), from)})
    BY <1>1, <1>2, <1>4, <1>5, <1>6, <1>7, PerformUploadDone
<1>9. QED
    BY <1>8 DEF from


\* What a step of a download writes, and what it makes of the item.
DownloadDone(item) ==
    /\ LocalType(local')
    /\ \/ \E path, from : Did(item, Down(item, path, from))
       \/ Did(item, Failed(item))
       \/ Did(item, Skipped(item))

LEMMA FetchIs ==
    ASSUME TypeInv, NEW item, NEW f \in Fetchable, NEW dir \in Segments, NEW unpack,
           fetch(item, f, dir, unpack)
    PROVE  DownloadDone(item)
<1>1. f \in RemoteFile /\ IsFiniteSet(f.from)
    BY DEF Fetchable
<1>2. LocalType(local')
    BY <1>1, FetchType DEF TypeInv
<1>3. Did(item, Down(item, Append(dir, f.name), f.from)) \/ Did(item, Failed(item))
    BY DEF fetch
<1>4. QED
    BY <1>2, <1>3 DEF DownloadDone

LEMMA DownloadOneIs ==
    ASSUME TypeInv, job # None, NEW item, item.tok \in WordToken, job.cmd.verb = "Download",
           download_one(item)
    PROVE  DownloadDone(item)
<1> DEFINE p     == item.tok.path
           found == {f \in tree.files : p # <<>> /\ f.dir = Front(p) /\ f.name = Last(p)}
<1>1. RemoteType(tree) /\ LocalType(local) /\ JobType(job)
    BY DEF TypeInv
<1>2. PathOf(job.cmd.dest) \in Segments
    BY <1>1, PathOfWord DEF JobType, Command, ReadsAs
<1>3. \A f \in found : f \in Fetchable
    BY <1>1 DEF RemoteType, Fetchable
<1>4. \/ Did(item, Skipped(item)) /\ UNCHANGED local
      \/ Did(item, Failed(item)) /\ UNCHANGED local
      \/ \E f \in found : fetch(item, f, PathOf(job.cmd.dest), job.cmd.x)
    BY DEF download_one
<1> HIDE DEF found
<1>5. CASE \E f \in found : fetch(item, f, PathOf(job.cmd.dest), job.cmd.x)
    BY <1>2, <1>3, <1>5, FetchIs
<1>6. CASE UNCHANGED local /\ (Did(item, Skipped(item)) \/ Did(item, Failed(item)))
    BY <1>1, <1>6 DEF DownloadDone, LocalType
<1>7. QED
    BY <1>4, <1>5, <1>6

\* An item is replaced by the items it stands for.
Expanded(work) == job' = [job EXCEPT !.todo = work \o Tail(@)]

LEMMA ExpandGlobIs ==
    ASSUME TypeInv, job # None, NEW item, item.dir \in Segments, job.cmd.verb = "Download",
           expand_remote_glob(item)
    PROVE  /\ Matches(item.dir) \subseteq WorkOf(job.cmd)
           /\ \/ Did(item, Failed(item))
              \/ /\ Matches(item.dir) # {}
                 /\ \E work \in Seq(WorkOf(job.cmd)) :
                        Expanded(work) /\ ToSet(work) = Matches(item.dir)
<1> DEFINE F  == {f \in tree.files : f.dir = item.dir}
           gs == [f \in F |-> [op |-> "get", tok |-> Word(Append(item.dir, f.name))]]
           M  == Matches(item.dir)
<1>1. RemoteType(tree)
    BY DEF TypeInv
<1>2. IsFiniteSet(F)
    <2>1. F \in SUBSET tree.files
        OBVIOUS
    <2>2. QED
        BY <1>1, <2>1, FS_Subset DEF RemoteType
<1>3. M = {gs[f] : f \in F} /\ gs = [f \in F |-> gs[f]]
    BY DEF Matches
<1>4. IsFiniteSet(M)
    <2> HIDE DEF M, gs, F
    <2>1. QED
        BY <1>2, <1>3, ImageFinite
<1>5. M \subseteq WorkOf(job.cmd)
    <2>1. ASSUME NEW f \in F PROVE Append(item.dir, f.name) \in Seq(FileName)
        <3>1. f.name \in FileName
            BY <1>1 DEF RemoteType, RemoteFile
        <3>2. QED
            BY <3>1 DEF Segments
    <2>2. ASSUME NEW f \in F PROVE Word(Append(item.dir, f.name)) \in WordToken
        BY <2>1 DEF Word, WordToken
    <2>3. QED
        BY <2>2 DEF Matches, WorkOf
<1> HIDE DEF M
<1>6. SetToSeq(M) \in Seq(WorkOf(job.cmd)) /\ ToSet(SetToSeq(M)) = M
    <2>1. SetToSeq(M) \in Seq(M)
        BY <1>4, Listed
    <2>2. QED
        BY <1>4, <1>5, <2>1, ListedSet
<1>7. Did(item, Failed(item)) \/ (M # {} /\ Expanded(SetToSeq(M)))
    BY DEF expand_remote_glob, Expanded, M
<1>8. QED
    BY <1>5, <1>6, <1>7 DEF M

\* What a folder stands for: its files and, when they are gone into, its folders.
FilesOf(item) ==
    {[op |-> "fetch", file |-> f, here |-> item.here] : f \in {f \in tree.files : f.dir = item.dir}}
FoldersOf(cmd, item) ==
    {[op |-> "dir", dir |-> q, here |-> Append(item.here, Last(q))] :
        q \in {q \in tree.folders : cmd.recursive /\ q # <<>> /\ Front(q) = item.dir}}

LEMMA DownloadDirIs ==
    ASSUME TypeInv, job # None, NEW item, item.dir \in Segments, item.here \in Segments,
           job.cmd.verb = "DownloadAll", download_dir(item)
    PROVE  /\ LocalType(local') /\ local \subseteq local'
           /\ FilesOf(item) \cup FoldersOf(job.cmd, item) \subseteq WorkOf(job.cmd)
           /\ \/ Did(item, Failed(item))
              \/ \E work \in Seq(WorkOf(job.cmd)) :
                    Expanded(work) /\ ToSet(work) = FilesOf(item) \cup FoldersOf(job.cmd, item)
<1> DEFINE here == item.here
           F  == {f \in tree.files : f.dir = item.dir}
           Q  == {q \in tree.folders : job.cmd.recursive /\ q # <<>> /\ Front(q) = item.dir}
           ff == [f \in F |-> [op |-> "fetch", file |-> f, here |-> here]]
           fd == [q \in Q |-> [op |-> "dir", dir |-> q, here |-> Append(here, Last(q))]]
           TF == {ff[f] : f \in F}
           TQ == {fd[q] : q \in Q}
<1>1. RemoteType(tree) /\ LocalType(local)
    BY DEF TypeInv
<1>2. IsFiniteSet(F) /\ IsFiniteSet(Q)
    <2>1. F \in SUBSET tree.files /\ Q \in SUBSET tree.folders
        OBVIOUS
    <2>2. QED
        BY <1>1, <2>1, FS_Subset DEF RemoteType
<1>3. TF \subseteq WorkOf(job.cmd)
    <2>1. \A f \in F : f \in Fetchable
        BY <1>1 DEF RemoteType, Fetchable
    <2>2. \A f \in Fetchable : [op |-> "fetch", file |-> f, here |-> here] \in WorkOf(job.cmd)
        BY DEF WorkOf
    <2>3. QED
        BY <2>1, <2>2
<1>4. TQ \subseteq WorkOf(job.cmd)
    <2>1. ASSUME NEW q \in Q PROVE q \in Segments /\ Append(here, Last(q)) \in Segments
        <3>1. q \in Segments \ {<<>>}
            BY <1>1 DEF RemoteType
        <3>2. Last(q) \in FileName
            BY <3>1, LastIsName
        <3>3. QED
            BY <3>1, <3>2, AppendIs
    <2>2. \A q \in Segments, r \in Segments :
              [op |-> "dir", dir |-> q, here |-> r] \in WorkOf(job.cmd)
        BY DEF WorkOf
    <2>3. QED
        BY <2>1, <2>2
<1>5. IsFiniteSet(TF) /\ IsFiniteSet(TQ)
    <2>1. ff = [f \in F |-> ff[f]] /\ fd = [q \in Q |-> fd[q]]
        OBVIOUS
    <2> HIDE DEF F, Q, ff, fd
    <2>2. QED
        BY <1>2, <2>1, ImageFinite
<1>6. /\ {[op |-> "fetch", file |-> f, here |-> here] : f \in F} = TF
      /\ {[op |-> "dir", dir |-> q, here |-> Append(here, Last(q))] : q \in Q} = TQ
      /\ FilesOf(item) = TF /\ FoldersOf(job.cmd, item) = TQ
    BY DEF FilesOf, FoldersOf
<1>7. /\ SetToSeq(TF) \o SetToSeq(TQ) \in Seq(WorkOf(job.cmd))
      /\ ToSet(SetToSeq(TF) \o SetToSeq(TQ)) = TF \cup TQ
    <2> HIDE DEF TF, TQ
    <2>1. SetToSeq(TF) \in Seq(TF) /\ SetToSeq(TQ) \in Seq(TQ)
        BY <1>5, Listed
    <2>2. SetToSeq(TF) \in Seq(WorkOf(job.cmd)) /\ SetToSeq(TQ) \in Seq(WorkOf(job.cmd))
        BY <1>3, <1>4, <2>1
    <2>3. ToSet(SetToSeq(TF)) = TF /\ ToSet(SetToSeq(TQ)) = TQ
        BY <1>5, ListedSet
    <2>4. PICK W, s, t : W = WorkOf(job.cmd) /\ s = SetToSeq(TF) /\ t = SetToSeq(TQ)
        OBVIOUS
    <2>5. s \in Seq(W) /\ t \in Seq(W)
        BY <2>2, <2>4
    <2>6. ToSet(s \o t) = ToSet(s) \cup ToSet(t)
        BY <2>5, BothParts
    <2>7. QED
        BY <2>3, <2>4, <2>5, <2>6
<1>8. \/ /\ local' = local \cup (IF IsFolderHere(here) THEN {} ELSE {LocalFolder(here)})
         /\ Expanded(SetToSeq(FilesOf(item)) \o SetToSeq(FoldersOf(job.cmd, item)))
      \/ Did(item, Failed(item)) /\ UNCHANGED local
    <2> HIDE DEF F, Q, ff, fd, TF, TQ
    <2>1. QED
        BY DEF download_dir, Expanded, FilesOf, FoldersOf
<1>9. CASE Did(item, Failed(item)) /\ UNCHANGED local
    BY <1>1, <1>3, <1>4, <1>6, <1>9 DEF LocalType
<1>10. CASE /\ local' = local \cup (IF IsFolderHere(here) THEN {} ELSE {LocalFolder(here)})
            /\ Expanded(SetToSeq(TF) \o SetToSeq(TQ))
    <2>1. here # <<>> \/ IsFolderHere(here)
        BY DEF IsFolderHere
    <2>2. LocalType(local')
        <3>1. CASE IsFolderHere(here)
            <4>1. local' = local
                BY <1>10, <3>1
            <4>2. QED
                BY <1>1, <4>1
        <3>2. CASE ~IsFolderHere(here)
            <4>1. local' = local \cup {LocalFolder(here)} /\ here \in Segments \ {<<>>}
                BY <1>10, <2>1, <3>2
            <4>2. QED
                BY <1>1, <4>1, FolderAdds
        <3>3. QED
            BY <3>1, <3>2
    <2>3. local \subseteq local'
        BY <1>10
    <2>4. QED
        BY <1>3, <1>4, <1>6, <1>7, <1>10, <2>2, <2>3
<1>11. QED
    BY <1>3, <1>4, <1>6, <1>8, <1>9, <1>10

\* What a step leaves: the job goes on, and what it reports as uploaded is there.
Goes ==
    /\ JobType(job')
    /\ job'.cmd = job.cmd /\ job'.exit = job.exit /\ job'.asked = job.asked
    /\ \A o \in job'.done :
          \/ o \in job.done \/ o.is # "up"
          \/ /\ IsUpload(job.cmd)
             /\ [dir |-> o.dir, name |-> o.name, from |-> o.from] \in tree'.files

LEMMA UploadGoes ==
    ASSUME TypeInv, job # None, job.todo # <<>>, IsUpload(job.cmd), NEW item,
           NEW asks, UploadDone(item, asks)
    PROVE  Goes
<1>1. JobType(job)
    BY DEF TypeInv
<1>2. CASE \E dir, as, from : /\ Did(item, Up(item, dir, as, from))
                              /\ [dir |-> dir, name |-> as, from |-> from] \in tree'.files
    <2>1. PICK dir, as, from : /\ Did(item, Up(item, dir, as, from))
                               /\ [dir |-> dir, name |-> as, from |-> from] \in tree'.files
        BY <1>2
    <2>2. PICK o : o = Up(item, dir, as, from)
        OBVIOUS
    <2>3. o.dir = dir /\ o.name = as /\ o.from = from
        BY <2>2 DEF Up
    <2>4. /\ JobType(job')
          /\ job'.cmd = job.cmd /\ job'.exit = job.exit /\ job'.asked = job.asked
          /\ job'.done = job.done \cup {o}
        BY <1>1, <2>1, <2>2, DidIs
    <2>5. QED
        BY <2>1, <2>3, <2>4 DEF Goes
<1>3. CASE Did(item, Failed(item)) \/ Did(item, Skipped(item))
    <2>1. PICK o : o \in {Failed(item), Skipped(item)} /\ Did(item, o)
        BY <1>3
    <2>2. o.is # "up"
        BY <2>1 DEF Failed, Skipped
    <2>3. /\ JobType(job')
          /\ job'.cmd = job.cmd /\ job'.exit = job.exit /\ job'.asked = job.asked
          /\ job'.done = job.done \cup {o}
        BY <1>1, <2>1, DidIs
    <2>4. QED
        BY <2>2, <2>3 DEF Goes
<1>4. QED
    BY <1>2, <1>3 DEF UploadDone

LEMMA DownloadGoes ==
    ASSUME TypeInv, job # None, job.todo # <<>>, NEW item,
           \/ \E path, from : Did(item, Down(item, path, from))
           \/ Did(item, Failed(item))
           \/ Did(item, Skipped(item))
           \/ \E work \in Seq(WorkOf(job.cmd)) : Expanded(work)
    PROVE  Goes
<1>1. JobType(job)
    BY DEF TypeInv
<1>2. CASE \E work \in Seq(WorkOf(job.cmd)) : Expanded(work)
    <2>1. PICK work \in Seq(WorkOf(job.cmd)) : Expanded(work)
        BY <1>2
    <2>2. /\ JobType(job')
          /\ job'.cmd = job.cmd /\ job'.exit = job.exit /\ job'.asked = job.asked
          /\ job'.done = job.done
        BY <1>1, <2>1, ExpandedIs DEF Expanded
    <2>3. QED
        BY <2>2 DEF Goes
<1>3. CASE \/ \E path, from : Did(item, Down(item, path, from))
           \/ Did(item, Failed(item))
           \/ Did(item, Skipped(item))
    <2>1. PICK o : o.is # "up" /\ Did(item, o)
        BY <1>3 DEF Down, Failed, Skipped
    <2>2. /\ JobType(job')
          /\ job'.cmd = job.cmd /\ job'.exit = job.exit /\ job'.asked = job.asked
          /\ job'.done = job.done \cup {o}
        BY <1>1, <2>1, DidIs
    <2>3. QED
        BY <2>1, <2>2 DEF Goes
<1>4. QED
    BY <1>2, <1>3

\* Every step of a job keeps the types, adds to the remote folder at most, and goes on.
LEMMA StepIs ==
    ASSUME TypeInv, Step
    PROVE  /\ Added /\ LocalType(local') /\ Goes
           /\ job # None
           /\ UNCHANGED <<agent, cache, shown, changes, last, jobs, disturbed>>
<1>1. /\ job # None /\ job.todo # <<>> /\ JobType(job) /\ LocalType(local)
      /\ RemoteType(tree) /\ PastType
      /\ UNCHANGED <<agent, cache, shown, changes, last, jobs, disturbed>>
    BY DEF Step, TypeInv
<1>2. PICK cmd : cmd = job.cmd
    OBVIOUS
<1>3. PICK item : item = Head(job.todo)
    OBVIOUS
<1>4. ReadsAs(cmd) /\ item \in WorkOf(cmd)
    <2>1. ReadsAs(cmd) /\ job.todo \in Seq(WorkOf(cmd))
        BY <1>1, <1>2 DEF JobType, Command
    <2>2. QED
        BY <1>1, <1>3, <2>1
<1>5. \/ item.op = "word" /\ upload_one(item) /\ UNCHANGED local
      \/ item.op = "walk" /\ upload_walk_entry(item) /\ UNCHANGED local
      \/ item.op = "bundle" /\ upload_bundle(item) /\ UNCHANGED local
      \/ item.op = "get" /\ download_one(item) /\ UNCHANGED <<tree, past>>
      \/ item.op = "glob" /\ expand_remote_glob(item) /\ UNCHANGED <<tree, past, local>>
      \/ item.op = "dir" /\ download_dir(item) /\ UNCHANGED <<tree, past>>
      \/ /\ item.op = "fetch" /\ fetch(item, item.file, item.here, FALSE)
         /\ UNCHANGED <<tree, past>>
    BY <1>3 DEF Step
<1>6. ASSUME UNCHANGED <<tree, past>> PROVE Added
    BY <1>1, <1>6, UnchangedAdds
<1>7. ASSUME UNCHANGED local PROVE LocalType(local')
    BY <1>1, <1>7 DEF LocalType
<1>8. CASE item.op = "word" /\ upload_one(item) /\ UNCHANGED local
    <2>1. cmd.verb = "Upload" /\ item.tok \in WordToken
        BY <1>4, <1>8, WorkIs
    <2>2. \E asks : UploadDone(item, asks)
        BY <1>1, <1>2, <1>8, <2>1, UploadOneIs
    <2>3. Goes
        BY <1>1, <1>2, <2>1, <2>2, UploadGoes DEF IsUpload
    <2>4. QED
        BY <1>1, <1>7, <1>8, <2>2, <2>3 DEF UploadDone
<1>9. CASE item.op = "walk" /\ upload_walk_entry(item) /\ UNCHANGED local
    <2>1. cmd.verb = "SaveAll" /\ item.file \in LocalBelow(PathOf(cmd.here))
        BY <1>4, <1>9, WorkIs
    <2>2. \E asks : UploadDone(item, asks)
        BY <1>1, <1>2, <1>9, <2>1, UploadWalkIs
    <2>3. Goes
        BY <1>1, <1>2, <2>1, <2>2, UploadGoes DEF IsUpload
    <2>4. QED
        BY <1>1, <1>7, <1>9, <2>2, <2>3 DEF UploadDone
<1>10. CASE item.op = "bundle" /\ upload_bundle(item) /\ UNCHANGED local
    <2>1. cmd.verb = "SaveAll" /\ item.files \in SUBSET LocalBelow(PathOf(cmd.here))
          /\ IsFiniteSet(item.files)
        BY <1>4, <1>10, WorkIs
    <2>2. \E asks : UploadDone(item, asks)
        BY <1>1, <1>2, <1>10, <2>1, UploadBundleIs
    <2>3. Goes
        BY <1>1, <1>2, <2>1, <2>2, UploadGoes DEF IsUpload
    <2>4. QED
        BY <1>1, <1>7, <1>10, <2>2, <2>3 DEF UploadDone
<1>11. CASE item.op = "get" /\ download_one(item) /\ UNCHANGED <<tree, past>>
    <2>1. cmd.verb = "Download" /\ item.tok \in WordToken
        BY <1>4, <1>11, WorkIs
    <2>2. DownloadDone(item)
        BY <1>1, <1>2, <1>11, <2>1, DownloadOneIs
    <2>3. Goes
        BY <1>1, <2>2, DownloadGoes DEF DownloadDone
    <2>4. QED
        BY <1>1, <1>6, <1>11, <2>2, <2>3 DEF DownloadDone
<1>12. CASE item.op = "glob" /\ expand_remote_glob(item) /\ UNCHANGED <<tree, past, local>>
    <2>1. cmd.verb = "Download" /\ item.dir \in Segments
        BY <1>4, <1>12, WorkIs
    <2>2. Did(item, Failed(item)) \/ \E work \in Seq(WorkOf(job.cmd)) : Expanded(work)
        BY <1>1, <1>2, <1>12, <2>1, ExpandGlobIs
    <2>3. Goes
        BY <1>1, <2>2, DownloadGoes
    <2>4. QED
        BY <1>1, <1>6, <1>7, <1>12, <2>3
<1>13. CASE item.op = "dir" /\ download_dir(item) /\ UNCHANGED <<tree, past>>
    <2>1. cmd.verb = "DownloadAll" /\ item.dir \in Segments /\ item.here \in Segments
        BY <1>4, <1>13, WorkIs
    <2>2. /\ LocalType(local')
          /\ Did(item, Failed(item)) \/ \E work \in Seq(WorkOf(job.cmd)) : Expanded(work)
        BY <1>1, <1>2, <1>13, <2>1, DownloadDirIs
    <2>3. Goes
        BY <1>1, <2>2, DownloadGoes
    <2>4. QED
        BY <1>1, <1>6, <1>13, <2>2, <2>3
<1>14. CASE item.op = "fetch" /\ fetch(item, item.file, item.here, FALSE)
            /\ UNCHANGED <<tree, past>>
    <2>1. cmd.verb = "DownloadAll" /\ item.file \in Fetchable /\ item.here \in Segments
        BY <1>4, <1>14, WorkIs
    <2>2. DownloadDone(item)
        <3>1. PICK f, dir : f = item.file /\ dir = item.here
            OBVIOUS
        <3>2. fetch(item, f, dir, FALSE) /\ f \in Fetchable /\ dir \in Segments
            BY <1>14, <2>1, <3>1
        <3>3. QED
            BY <3>2, FetchIs
    <2>3. Goes
        BY <1>1, <2>2, DownloadGoes DEF DownloadDone
    <2>4. QED
        BY <1>1, <1>6, <1>14, <2>2, <2>3 DEF DownloadDone
<1>15. QED
    BY <1>5, <1>8, <1>9, <1>10, <1>11, <1>12, <1>13, <1>14

-------------------------------------------------------------------------------
(***************************************************************************)
(* What every step keeps.                                                  *)
(***************************************************************************)

LEMMA InitType ==
    ASSUME Init
    PROVE  TypeInv
<1>1. /\ tree = [folders |-> {<<>>} \cup UNION {Prefixes(f.dir) : f \in Files0},
                 files |-> Files0]
      /\ cache = EmptyCache /\ past = [i \in 0..CACHE_TTL |-> {tree}]
      /\ local = Local0 /\ job = None
    BY DEF Init, InitListing, InitJob
<1>2. /\ Files0 \subseteq RemoteFile /\ IsFiniteSet(Files0)
      /\ \A f \in Files0 : IsFiniteSet(f.from)
      /\ \A f, g \in Files0 : f.dir = g.dir /\ f.name = g.name => f = g
      /\ CACHE_TTL \in Nat
    BY ListingAssumption
<1>3. RemoteType(tree)
    <2> DEFINE dirs == [f \in Files0 |-> Prefixes(f.dir)]
               D    == {dirs[f] : f \in Files0}
    <2>1. dirs = [f \in Files0 |-> dirs[f]] /\ D = {Prefixes(f.dir) : f \in Files0}
        OBVIOUS
    <2>2. \A f \in Files0 : /\ Prefixes(f.dir) \subseteq Segments /\ IsFiniteSet(Prefixes(f.dir))
                            /\ f.dir \in Prefixes(f.dir)
                            /\ \A q \in Prefixes(f.dir) : Prefixes(q) \subseteq Prefixes(f.dir)
        <3>1. \A f \in Files0 : f.dir \in Seq(FileName)
            BY <1>2 DEF RemoteFile
        <3>2. QED
            BY <3>1, PrefixesAre DEF Segments
    <2>3. IsFiniteSet(UNION D)
        <3>1. IsFiniteSet(D)
            <4> HIDE DEF dirs
            <4>1. QED
                BY <1>2, <2>1, ImageFinite
        <3>2. \A S \in D : IsFiniteSet(S)
            BY <2>1, <2>2
        <3> HIDE DEF D
        <3>3. QED
            BY <3>1, <3>2, FS_UNION
    <2>4. IsFiniteSet({<<>>} \cup UNION D)
        <3> HIDE DEF D
        <3>1. QED
            BY <2>3, FS_Singleton, FS_Union
    <2>5. tree.files = Files0 /\ tree.folders = {<<>>} \cup UNION D
          /\ tree = [folders |-> tree.folders, files |-> tree.files]
        BY <1>1, <2>1
    <2>6. <<>> \in Segments /\ Prefixes(<<>>) = {<<>>}
        <3>1. 0..Len(<<>>) = {0} /\ SubSeq(<<>>, 1, 0) = <<>>
            OBVIOUS
        <3>2. Prefixes(<<>>) = {SubSeq(<<>>, 1, 0)}
            BY <3>1 DEF Prefixes
        <3>3. <<>> \in Segments
            BY DEF Segments
        <3>4. QED
            BY <3>1, <3>2, <3>3
    <2>7. tree.folders \subseteq Segments
        BY <2>1, <2>2, <2>5, <2>6
    <2>8. \A f \in tree.files : f.dir \in tree.folders
        BY <2>1, <2>2, <2>5
    <2>9. \A q \in tree.folders : Prefixes(q) \subseteq tree.folders
        BY <2>1, <2>2, <2>5, <2>6
    <2> HIDE DEF D, dirs
    <2>10. QED
        BY <1>2, <2>4, <2>5, <2>7, <2>8, <2>9 DEF RemoteType
<1>4. LocalType(local)
    BY <1>1, TransfersAssumption DEF LocalType
<1>5. CacheType
    BY <1>1 DEF CacheType, EmptyCache
<1>6. PastType
    BY <1>1, <1>2 DEF PastType
<1>7. QED
    BY <1>1, <1>3, <1>4, <1>5, <1>6 DEF TypeInv

LEMMA EmptyCacheType ==
    ASSUME cache' = EmptyCache
    PROVE  CacheType'
BY DEF CacheType, EmptyCache

LEMMA CompleteType ==
    ASSUME TypeInv, Complete
    PROVE  CacheType'
<1>1. PICK c \in Cursors, p \in Path, kind \in Kind : list_remote(c, p, kind)
    BY CompleteIs
<1>2. RemoteType(tree) /\ CacheType
    BY DEF TypeInv
<1>3. CASE cache' = cache
    BY <1>2, <1>3 DEF CacheType
<1>4. CASE \E e : Kept(e) /\ cache' = [cache EXCEPT ![<<p, kind>>] = e]
    BY <1>2, <1>4 DEF CacheType
<1>5. QED
    BY <1>1, <1>2, <1>3, <1>4, ListRemoteIs

LEMMA TickType ==
    ASSUME TypeInv, Tick
    PROVE  CacheType' /\ PastType'
<1>1. CacheType /\ PastType /\ CACHE_TTL \in Nat
    BY ListingAssumption DEF TypeInv
<1>2. cache' = [key \in Key |->
           IF cache[key] = None THEN None
           ELSE [cache[key] EXCEPT !.age = IF @ > CACHE_TTL THEN @ ELSE @ + 1]]
    BY DEF Tick
<1>3. ASSUME NEW key \in Key, cache'[key] # None
      PROVE  Kept(cache'[key])
    <2>1. PICK e : e = cache[key]
        OBVIOUS
    <2>2. Kept(e)
        BY <1>1, <1>2, <1>3, <2>1 DEF CacheType
    <2>3. cache'[key] = [e EXCEPT !.age = IF @ > CACHE_TTL THEN @ ELSE @ + 1]
        BY <1>2, <1>3, <2>1
    <2>4. cache'[key] = [entries |-> e.entries, truncated |-> e.truncated,
                         age |-> IF e.age > CACHE_TTL THEN e.age ELSE e.age + 1]
        BY <2>2, <2>3 DEF Kept
    <2>5. e.age \in Nat
        BY <2>2 DEF Kept
    <2>6. QED
        BY <1>1, <2>4, <2>5 DEF Kept
<1>4. CacheType'
    BY <1>2, <1>3 DEF CacheType
<1>5. PastType'
    <2>1. past' = [i \in 0..CACHE_TTL |-> IF i = 0 THEN {tree} ELSE past[i - 1]] /\ tree' = tree
        BY DEF Tick
    <2>2. 0 \in 0..CACHE_TTL
        BY <1>1
    <2>3. QED
        BY <2>1, <2>2 DEF PastType
<1>6. QED
    BY <1>4, <1>5

LEMMA ElsewhereType ==
    ASSUME TypeInv, NEW f \in Files0, Elsewhere(f)
    PROVE  RemoteType(tree') /\ StillPast
<1>1. RemoteType(tree) /\ PastType
    BY DEF TypeInv
<1>2. CASE Becomes([tree EXCEPT !.files = @ \ {f}])
    BY <1>1, <1>2, RemovedType, BecomesPast DEF StillPast
<1>3. CASE /\ \A g \in tree.files : ~(g.dir = f.dir /\ g.name = f.name)
           /\ Becomes([folders |-> tree.folders \cup Prefixes(f.dir),
                       files |-> tree.files \cup {f}])
    <2>1. f \in RemoteFile /\ IsFiniteSet(f.from)
        BY ListingAssumption
    <2>2. RemoteType([folders |-> tree.folders \cup Prefixes(f.dir),
                      files |-> tree.files \cup {f}])
        BY <1>1, <1>3, <2>1, AddedType
    <2>3. QED
        BY <1>1, <1>3, <2>2, BecomesPast DEF StillPast
<1>4. QED
    BY <1>2, <1>3 DEF Elsewhere

\* A job begins with work of its command and nothing done.
LEMMA StartIs ==
    ASSUME TypeInv, NEW argv \in Argv, Start(argv)
    PROVE  /\ job = None
           /\ \/ job' = job
              \/ JobType(job') /\ job'.done = {} /\ last' = None
           /\ last' = None \/ (last'.done = {} /\ last'.exit # EXIT_OK)
           /\ shown' = None
           /\ UNCHANGED <<cache, tree, past, changes, local, disturbed>>
<1>1. PICK cmd : cmd = Invocation(argv, NoEnv)
    OBVIOUS
<1>2. /\ job = None /\ shown' = None
      /\ \/ /\ IsError(cmd)
            /\ Ends(cmd, "usage", {}, {})
            /\ UNCHANGED <<agent, cache, job>>
         \/ /\ ~IsError(cmd)
            /\ \E e \in Refusal(cmd) : Ends(cmd, e, {}, {})
            /\ UNCHANGED <<cache, job>>
         \/ /\ ~IsError(cmd)
            /\ \E plan \in Plan(cmd) :
                  job' = [cmd |-> cmd, todo |-> plan.todo, exit |-> plan.exit,
                          done |-> {}, asked |-> Asked(cmd)]
            /\ last' = None
            /\ UNCHANGED <<agent, cache>>
      /\ UNCHANGED <<tree, past, changes, local, disturbed>>
    BY <1>1 DEF Start
<1>3. \A e \in Refusal(cmd) \cup {"usage"} :
          Ends(cmd, e, {}, {}) => last' = None \/ (last'.done = {} /\ last'.exit # EXIT_OK)
    <2>1. \A e \in Refusal(cmd) \cup {"usage"} : e # EXIT_OK
        BY DEF Refusal, EXIT_OK
    <2>2. \A e : Ends(cmd, e, {}, {}) => last' = None \/ (last'.done = {} /\ last'.exit = e)
        BY DEF Ends
    <2>3. QED
        BY <2>1, <2>2
<1>4. ASSUME ~IsError(cmd), NEW plan \in Plan(cmd),
             job' = [cmd |-> cmd, todo |-> plan.todo, exit |-> plan.exit,
                     done |-> {}, asked |-> Asked(cmd)]
      PROVE  JobType(job') /\ job'.done = {}
    <2>1. Command(cmd)
        BY <1>1, <1>4, TransfersAssumption DEF Command
    <2>2. plan.todo \in Seq(WorkOf(cmd))
        BY <2>1, PlanIs DEF TypeInv
    <2>3. QED
        BY <1>4, <2>1, <2>2 DEF JobType
<1>5. QED
    BY <1>2, <1>3, <1>4

LEMMA InvalidatedType ==
    ASSUME CacheType, NEW cmd, NEW exit,
           \E c \in {cache, EmptyCache} : cache' = Invalidated(c, cmd, exit)
    PROVE  CacheType'
<1>1. PICK c \in {cache, EmptyCache} : cache' = Invalidated(c, cmd, exit)
    OBVIOUS
<1>2. /\ c = [key \in Key |-> c[key]]
      /\ \A key \in Key : c[key] # None => Kept(c[key])
    BY DEF CacheType, EmptyCache
<1>3. cache' = c \/ cache' = invalidate_prefix_to_root(c, Dest(cmd))
    BY <1>1 DEF Invalidated
<1>4. QED
    BY <1>2, <1>3 DEF CacheType, invalidate_prefix_to_root

LEMMA FinishIs ==
    ASSUME Finish
    PROVE  /\ job # None /\ job' = None /\ disturbed' = FALSE
           /\ \E exit : /\ Ends(job.cmd, exit, job.done, job.asked)
                        /\ \E c \in {cache, EmptyCache} : cache' = Invalidated(c, job.cmd, exit)
           /\ UNCHANGED <<agent, tree, shown, past, changes, local, jobs>>
BY DEF Finish

LEMMA NextType ==
    ASSUME TypeInv, [Next]_vars
    PROVE  TypeInv'
<1>1. /\ RemoteType(tree) /\ LocalType(local) /\ CacheType /\ PastType
      /\ job # None => JobType(job)
    BY DEF TypeInv
<1>2. CASE Idle /\ Complete
    <2>1. UNCHANGED <<tree, past, local, job>>
        BY <1>2, CompleteIs DEF Idle, jobVars
    <2>2. CacheType'
        BY <1>2, CompleteType
    <2>3. QED
        BY <1>1, <2>1, <2>2 DEF TypeInv, PastType
<1>3. CASE Idle /\ Session
    <2>1. UNCHANGED <<tree, past, local, job>> /\ (cache' = EmptyCache \/ cache' = cache)
        BY <1>3 DEF Idle, Session, jobVars
    <2>2. CacheType'
        BY <1>1, <2>1, EmptyCacheType DEF CacheType
    <2>3. QED
        BY <1>1, <2>1, <2>2 DEF TypeInv, PastType
<1>4. CASE Tick /\ UNCHANGED jobVars
    <2>1. UNCHANGED <<tree, local, job>>
        BY <1>4 DEF Tick, jobVars
    <2>2. QED
        BY <1>1, <1>4, <2>1, TickType DEF TypeInv
<1>5. CASE Other
    <2>1. PICK f \in Files0 : Elsewhere(f)
        BY <1>5 DEF Other
    <2>2. UNCHANGED <<local, job, cache>>
        BY <1>5, <2>1 DEF Other, Elsewhere
    <2>3. QED
        BY <1>1, <2>1, <2>2, ElsewhereType DEF TypeInv, StillPast, CacheType
<1>6. CASE \E argv \in Argv : Start(argv)
    <2>1. /\ job' = job \/ JobType(job')
          /\ UNCHANGED <<cache, tree, past, local>>
        BY <1>6, StartIs
    <2>2. QED
        BY <1>1, <2>1 DEF TypeInv, CacheType, PastType
<1>7. CASE Step
    BY <1>1, <1>7, StepIs DEF TypeInv, CacheType, Added, StillPast, Goes
<1>8. CASE Finish
    <2>1. job' = None /\ UNCHANGED <<tree, past, local>>
        BY <1>8, FinishIs
    <2>2. CacheType'
        BY <1>1, <1>8, FinishIs, InvalidatedType
    <2>3. QED
        BY <1>1, <2>1, <2>2 DEF TypeInv, PastType
<1>9. CASE Kill
    BY <1>1, <1>9 DEF Kill, listingVars, TypeInv, CacheType, PastType
<1>10. CASE UNCHANGED vars
    BY <1>1, <1>10 DEF vars, listingVars, jobVars, TypeInv, CacheType, PastType
<1>11. QED
    BY <1>2, <1>3, <1>4, <1>5, <1>6, <1>7, <1>8, <1>9, <1>10 DEF Next

\* The remote and the local files, the cache and the job keep their shape: one file
\* for a name in a folder, every folder in its parent, the work left fits the command.
THEOREM TypeCorrect == Spec => []TypeInv
<1>1. Init => TypeInv
    BY InitType
<1>2. TypeInv /\ [Next]_vars => TypeInv'
    BY NextType
<1>3. QED
    BY <1>1, <1>2, PTL DEF Spec

-------------------------------------------------------------------------------
(***************************************************************************)
(* What a TAB shows.                                                       *)
(***************************************************************************)

\* Whatever the cache would serve is what its folder held that many ticks ago.
CacheFresh ==
    \A key \in Key :
        Live(cache, key) =>
            \E t \in past[cache[key].age] : Gives(cache[key], key[1], key[2], t)

FreshInv == TypeInv /\ CacheFresh /\ FreshEnough

LEMMA CompleteFresh ==
    ASSUME FreshInv, Complete
    PROVE  CacheFresh' /\ FreshEnough'
<1>1. TypeInv /\ RemoteType(tree) /\ CacheType /\ tree \in past[0] /\ CACHE_TTL \in Nat
    BY ListingAssumption DEF FreshInv, TypeInv, PastType
<1>2. PICK c \in Cursors, p \in Path, kind \in Kind :
          list_remote(c, p, kind) /\ UNCHANGED <<agent, tree, past, changes>>
    BY CompleteIs
<1>3. <<p, kind>> \in Key
    BY DEF Key
<1>4. CASE Live(cache, <<p, kind>>) /\ Reply(c, p, kind, cache[<<p, kind>>]) /\ cache' = cache
    <2>1. PICK e : e = cache[<<p, kind>>]
        OBVIOUS
    <2>2. PICK t \in past[e.age] : Gives(e, p, kind, t)
        BY <1>3, <1>4, <2>1 DEF FreshInv, CacheFresh
    <2>3. e.age \in 0..CACHE_TTL
        <3>1. e # None /\ e.age <= CACHE_TTL
            BY <1>4, <2>1 DEF Live
        <3>2. e.age \in Nat
            BY <1>1, <1>3, <2>1, <3>1 DEF CacheType, Kept
        <3>3. QED
            BY <1>1, <3>1, <3>2
    <2>4. shown' = [cursor |-> c, prefix |-> p, kind |-> kind, entries |-> e.entries,
                    truncated |-> e.truncated]
        BY <1>4, <2>1 DEF Reply
    <2>5. Gives(shown', p, kind, t) /\ shown'.prefix = p /\ shown'.kind = kind
        BY <2>2, <2>4 DEF Gives
    <2>6. FreshEnough'
        BY <1>2, <2>2, <2>3, <2>5 DEF FreshEnough, Gives
    <2>7. CacheFresh'
        BY <1>2, <1>4 DEF FreshInv, CacheFresh, Live
    <2>8. QED
        BY <2>6, <2>7
<1>5. CASE \E e : /\ Kept(e) /\ e.age = 0 /\ Gives(e, p, kind, tree)
                  /\ cache' = [cache EXCEPT ![<<p, kind>>] = e]
                  /\ (Reply(c, p, kind, e) \/ shown' = None)
    <2>1. PICK e : /\ Kept(e) /\ e.age = 0 /\ Gives(e, p, kind, tree)
                   /\ cache' = [cache EXCEPT ![<<p, kind>>] = e]
                   /\ (Reply(c, p, kind, e) \/ shown' = None)
        BY <1>5
    <2>2. ASSUME NEW key \in Key, Live(cache', key)
          PROVE  \E t \in past'[cache'[key].age] : Gives(cache'[key], key[1], key[2], t)
        <3>1. CASE key = <<p, kind>>
            <4>1. cache'[key] = e /\ key[1] = p /\ key[2] = kind
                BY <1>1, <2>1, <3>1 DEF CacheType
            <4>2. past'[e.age] = past[0]
                BY <1>2, <2>1
            <4>3. QED
                BY <1>1, <2>1, <4>1, <4>2
        <3>2. CASE key # <<p, kind>>
            <4>1. cache'[key] = cache[key]
                BY <1>1, <2>1, <3>2 DEF CacheType
            <4>2. QED
                BY <1>2, <2>2, <4>1 DEF FreshInv, CacheFresh, Live
        <3>3. QED
            BY <3>1, <3>2
    <2>3. CacheFresh'
        BY <2>2 DEF CacheFresh
    <2>4. ASSUME Reply(c, p, kind, e)
          PROVE  FreshEnough'
        <3>1. shown' = [cursor |-> c, prefix |-> p, kind |-> kind, entries |-> e.entries,
                        truncated |-> e.truncated]
            BY <2>4 DEF Reply
        <3>2. Gives(shown', p, kind, tree) /\ shown'.prefix = p /\ shown'.kind = kind
            BY <2>1, <3>1 DEF Gives
        <3>3. 0 \in 0..CACHE_TTL /\ tree \in past'[0]
            BY <1>1, <1>2
        <3>4. QED
            BY <3>2, <3>3 DEF FreshEnough, Gives
    <2>5. FreshEnough'
        BY <2>1, <2>4 DEF FreshEnough
    <2>6. QED
        BY <2>3, <2>5
<1>6. CASE shown' = None /\ cache' = cache
    BY <1>2, <1>6 DEF FreshInv, CacheFresh, Live, FreshEnough
<1>7. QED
    BY <1>1, <1>2, <1>4, <1>5, <1>6, ListRemoteIs

\* An entry that is a tick older is served from the trees that are a tick older.
LEMMA TickFresh ==
    ASSUME FreshInv, Tick
    PROVE  CacheFresh' /\ FreshEnough'
<1>1. CacheType /\ PastType /\ CACHE_TTL \in Nat
    BY ListingAssumption DEF FreshInv, TypeInv
<1>2. /\ cache' = [key \in Key |->
             IF cache[key] = None THEN None
             ELSE [cache[key] EXCEPT !.age = IF @ > CACHE_TTL THEN @ ELSE @ + 1]]
      /\ past' = [i \in 0..CACHE_TTL |-> IF i = 0 THEN {tree} ELSE past[i - 1]]
      /\ shown' = None
    BY DEF Tick
<1>3. ASSUME NEW key \in Key, Live(cache', key)
      PROVE  \E t \in past'[cache'[key].age] : Gives(cache'[key], key[1], key[2], t)
    <2>1. PICK e : e = cache[key]
        OBVIOUS
    <2>2. e # None
        BY <1>2, <1>3, <2>1 DEF Live
    <2>3. Kept(e)
        BY <1>1, <2>1, <2>2 DEF CacheType
    <2>4. cache'[key] = [e EXCEPT !.age = IF @ > CACHE_TTL THEN @ ELSE @ + 1]
        BY <1>2, <2>1, <2>2
    <2>5. cache'[key] = [entries |-> e.entries, truncated |-> e.truncated,
                         age |-> IF e.age > CACHE_TTL THEN e.age ELSE e.age + 1]
        BY <2>3, <2>4 DEF Kept
    <2>6. cache'[key].age <= CACHE_TTL
        BY <1>3 DEF Live
    <2>7. e.age \in Nat /\ e.age < CACHE_TTL /\ cache'[key].age = e.age + 1
        BY <1>1, <2>3, <2>5, <2>6 DEF Kept
    <2>8. past'[e.age + 1] = past[e.age]
        <3>1. e.age + 1 \in 0..CACHE_TTL /\ e.age + 1 # 0 /\ (e.age + 1) - 1 = e.age
            BY <1>1, <2>7
        <3>2. QED
            BY <1>2, <3>1
    <2>9. PICK t \in past[e.age] : Gives(e, key[1], key[2], t)
        BY <1>1, <2>1, <2>2, <2>7 DEF FreshInv, CacheFresh, Live
    <2>10. cache'[key].entries = e.entries /\ cache'[key].truncated = e.truncated
        BY <2>5
    <2>11. Gives(cache'[key], key[1], key[2], t)
        BY <2>9, <2>10 DEF Gives
    <2>12. QED
        BY <2>7, <2>8, <2>9, <2>11
<1>4. QED
    BY <1>2, <1>3 DEF CacheFresh, FreshEnough

\* More past and fewer listings: nothing shown or kept becomes wrong.
LEMMA StillFresh ==
    ASSUME FreshInv, \A key \in Key : cache'[key] = None \/ cache'[key] = cache[key],
           StillPast, shown' = None \/ shown' = shown
    PROVE  CacheFresh' /\ FreshEnough'
<1>1. \A j \in 0..CACHE_TTL : past[j] \subseteq past'[j]
    BY DEF StillPast
<1>2. CACHE_TTL \in Nat /\ CacheType
    BY ListingAssumption DEF FreshInv, TypeInv
<1>3. ASSUME NEW key \in Key, Live(cache', key)
      PROVE  \E t \in past'[cache'[key].age] : Gives(cache'[key], key[1], key[2], t)
    <2>1. cache'[key] = cache[key] /\ Live(cache, key)
        BY <1>3 DEF Live
    <2>2. cache[key].age \in 0..CACHE_TTL
        BY <1>2, <2>1 DEF Live, CacheType, Kept
    <2>3. QED
        BY <1>1, <2>1, <2>2 DEF FreshInv, CacheFresh
<1>4. CacheFresh'
    BY <1>3 DEF CacheFresh
<1>5. CASE shown' = None
    BY <1>4, <1>5 DEF FreshEnough
<1>6. CASE shown' = shown
    BY <1>1, <1>4, <1>6 DEF FreshInv, FreshEnough
<1>7. QED
    BY <1>5, <1>6

LEMMA UnchangedPast ==
    ASSUME TypeInv, UNCHANGED <<tree, past>>
    PROVE  StillPast
BY DEF TypeInv, PastType, StillPast

LEMMA DroppedOrKept ==
    ASSUME NEW c \in {cache, EmptyCache}, NEW cmd, NEW exit, cache' = Invalidated(c, cmd, exit)
    PROVE  \A key \in Key : cache'[key] = None \/ cache'[key] = cache[key]
<1>1. \A key \in Key : c[key] = None \/ c[key] = cache[key]
    BY DEF EmptyCache
<1>2. cache' = c \/ cache' = invalidate_prefix_to_root(c, Dest(cmd))
    BY DEF Invalidated
<1>3. QED
    BY <1>1, <1>2 DEF invalidate_prefix_to_root

LEMMA NextFresh ==
    ASSUME FreshInv, [Next]_vars
    PROVE  FreshInv'
<1>1. TypeInv
    BY DEF FreshInv
<1>2. TypeInv'
    BY <1>1, NextType
<1> SUFFICES CacheFresh' /\ FreshEnough'
    BY <1>2 DEF FreshInv
<1>3. CASE Idle /\ Complete
    BY <1>3, CompleteFresh
<1>4. CASE Tick /\ UNCHANGED jobVars
    BY <1>4, TickFresh
<1>5. CASE Idle /\ Session
    <2>1. /\ \A key \in Key : cache'[key] = None \/ cache'[key] = cache[key]
          /\ shown' = None /\ UNCHANGED <<tree, past>>
        BY <1>5 DEF Session, EmptyCache
    <2>2. QED
        BY <1>1, <2>1, UnchangedPast, StillFresh
<1>6. CASE Other
    <2>1. PICK f \in Files0 : Elsewhere(f)
        BY <1>6 DEF Other
    <2>2. StillPast /\ shown' = None /\ cache' = cache
        BY <1>1, <2>1, ElsewhereType DEF Elsewhere
    <2>3. QED
        BY <2>2, StillFresh
<1>7. CASE \E argv \in Argv : Start(argv)
    <2>1. shown' = None /\ cache' = cache /\ UNCHANGED <<tree, past>>
        BY <1>1, <1>7, StartIs
    <2>2. QED
        BY <1>1, <2>1, UnchangedPast, StillFresh
<1>8. CASE Step
    <2>1. StillPast /\ shown' = shown /\ cache' = cache
        BY <1>1, <1>8, StepIs DEF Added
    <2>2. QED
        BY <2>1, StillFresh
<1>9. CASE Finish
    <2>1. shown' = shown /\ UNCHANGED <<tree, past>>
        BY <1>9, FinishIs
    <2>2. \A key \in Key : cache'[key] = None \/ cache'[key] = cache[key]
        BY <1>9, FinishIs, DroppedOrKept
    <2>3. QED
        BY <1>1, <2>1, <2>2, UnchangedPast, StillFresh
<1>10. CASE Kill \/ UNCHANGED vars
    <2>1. UNCHANGED listingVars
        BY <1>10 DEF Kill, vars
    <2>2. shown' = shown /\ cache' = cache /\ UNCHANGED <<tree, past>>
        BY <2>1 DEF listingVars
    <2>3. QED
        BY <1>1, <2>2, UnchangedPast, StillFresh
<1>11. QED
    BY <1>3, <1>4, <1>5, <1>6, <1>7, <1>8, <1>9, <1>10 DEF Next

\* What a TAB shows is what its folder held at some time in the last TTL, whatever
\* other devices, transfers, locks and unlocks did meanwhile: all of it, or a part
\* that is said to be one.
THEOREM FreshListings == Spec => []FreshEnough
<1>1. Init => FreshInv
    <2>1. Init => CacheFresh /\ FreshEnough
        BY DEF Init, InitListing, CacheFresh, Live, EmptyCache, FreshEnough
    <2>2. QED
        BY <2>1, InitType DEF FreshInv
<1>2. FreshInv /\ [Next]_vars => FreshInv'
    BY NextFresh
<1>3. FreshInv => FreshEnough
    BY DEF FreshInv
<1>4. QED
    BY <1>1, <1>2, <1>3, PTL DEF Spec

-------------------------------------------------------------------------------
(***************************************************************************)
(* What was uploaded.                                                      *)
(***************************************************************************)

\* Every upload among the outcomes is in the remote folder.
HasCopies(done) ==
    \A o \in done : o.is = "up" =>
        [dir |-> o.dir, name |-> o.name, from |-> o.from] \in tree.files

\* Only uploads upload, to a folder that can be spelled.
ByUpload(cmd, done) == \A o \in done : o.is = "up" => IsUpload(cmd) /\ Dest(cmd) \in Path

CopyInv ==
    /\ job # None => last = None /\ ByUpload(job.cmd, job.done)
    /\ job # None /\ ~disturbed => HasCopies(job.done)
    /\ last # None => HasCopies(last.done) /\ ByUpload(last.cmd, last.done)

\* What is kept of the folders that lead to the destination was listed after the
\* upload, from what the remote folder still is.
ListedSince ==
    last # None /\ last.exit = EXIT_OK /\ IsUpload(last.cmd) =>
        \A key \in Key : key[1] \in Prefixes(Dest(last.cmd)) /\ cache[key] # None =>
            Gives(cache[key], key[1], key[2], tree)

UploadInv == TypeInv /\ CopyInv /\ ListedSince

LEMMA NextCopies ==
    ASSUME TypeInv, CopyInv, [Next]_vars
    PROVE  CopyInv'
<1>1. CASE (Idle /\ Complete) \/ (Idle /\ Session) \/ (Tick /\ UNCHANGED jobVars)
           \/ UNCHANGED vars
    <2>1. UNCHANGED <<tree, job, last, disturbed>>
        BY <1>1, CompleteIs DEF Idle, Session, Tick, jobVars, vars, listingVars
    <2>2. QED
        BY <2>1 DEF CopyInv, HasCopies, ByUpload
<1>2. CASE Other
    BY <1>2 DEF Other, CopyInv, HasCopies, ByUpload
<1>3. CASE \E argv \in Argv : Start(argv)
    <2>1. /\ job = None
          /\ \/ job' = job
             \/ job'.done = {} /\ last' = None
          /\ last' = None \/ last'.done = {}
          /\ tree' = tree
        BY <1>3, StartIs
    <2>2. QED
        BY <2>1 DEF CopyInv, HasCopies, ByUpload
<1>4. CASE Step
    <2>1. /\ job # None /\ last' = last /\ disturbed' = disturbed
          /\ tree.files \subseteq tree'.files
          /\ job'.cmd = job.cmd
          /\ \A o \in job'.done :
                \/ o \in job.done \/ o.is # "up"
                \/ /\ IsUpload(job.cmd)
                   /\ [dir |-> o.dir, name |-> o.name, from |-> o.from] \in tree'.files
        BY <1>4, StepIs DEF Added, Goes
    <2>2. last' = None
        BY <2>1 DEF CopyInv
    <2>3. ByUpload(job'.cmd, job'.done)
        <3>1. IsUpload(job.cmd) => Dest(job.cmd) \in Path
            BY <2>1 DEF TypeInv, JobType, Command
        <3>2. QED
            BY <2>1, <3>1 DEF CopyInv, ByUpload
    <2>4. job' # None /\ ~disturbed' => HasCopies(job.done)
        BY <2>1 DEF CopyInv
    <2>5. job' # None /\ ~disturbed' => HasCopies(job.done)'
        BY <2>1, <2>4 DEF HasCopies
    <2>6. QED
        BY <2>1, <2>2, <2>3, <2>4 DEF CopyInv, ByUpload, HasCopies
<1>5. CASE Finish
    <2>1. PICK exit : Ends(job.cmd, exit, job.done, job.asked)
        BY <1>5, FinishIs
    <2>2. job # None /\ job' = None /\ tree' = tree
        BY <1>5, FinishIs
    <2>3. \/ last' = None
          \/ ~disturbed /\ last'.cmd = job.cmd /\ last'.done = job.done
        BY <2>1 DEF Ends
    <2>4. QED
        BY <2>2, <2>3 DEF CopyInv, ByUpload, HasCopies
<1>6. CASE Kill
    BY <1>6 DEF Kill, listingVars, CopyInv, ByUpload, HasCopies
<1>7. QED
    BY <1>1, <1>2, <1>3, <1>4, <1>5, <1>6 DEF Next

LEMMA CopiesAreThere ==
    CopyInv => EachHasItsCopy
<1> SUFFICES ASSUME CopyInv, ~disturbed,
                    NEW o \in IF job # None THEN job.done
                              ELSE IF last # None THEN last.done ELSE {},
                    o.is = "up"
             PROVE  \E f \in tree.files : f.dir = o.dir /\ f.name = o.name /\ f.from = o.from
    BY DEF EachHasItsCopy
<1>1. PICK f : f = [dir |-> o.dir, name |-> o.name, from |-> o.from]
    OBVIOUS
<1>2. f.dir = o.dir /\ f.name = o.name /\ f.from = o.from
    BY <1>1
<1>3. f \in tree.files
    BY <1>1 DEF CopyInv, HasCopies
<1>4. QED
    BY <1>2, <1>3

\* A listing taken now is a listing of what there is now.
LEMMA ListedNow ==
    ASSUME UploadInv, Complete, last' = last
    PROVE  ListedSince'
<1>1. PICK c \in Cursors, p \in Path, kind \in Kind :
          list_remote(c, p, kind) /\ UNCHANGED <<agent, tree, past, changes>>
    BY CompleteIs
<1>2. RemoteType(tree) /\ CacheType
    BY DEF UploadInv, TypeInv
<1>3. CASE cache' = cache
    BY <1>1, <1>3 DEF UploadInv, ListedSince
<1>4. CASE \E e : Gives(e, p, kind, tree) /\ cache' = [cache EXCEPT ![<<p, kind>>] = e]
    <2>1. PICK e : Gives(e, p, kind, tree) /\ cache' = [cache EXCEPT ![<<p, kind>>] = e]
        BY <1>4
    <2>2. <<p, kind>> \in Key
        BY DEF Key
    <2>3. \A key \in Key : cache'[key] = IF key = <<p, kind>> THEN e ELSE cache[key]
        BY <1>2, <2>1, <2>2 DEF CacheType
    <2>4. <<p, kind>>[1] = p /\ <<p, kind>>[2] = kind
        OBVIOUS
    <2> SUFFICES ASSUME last # None /\ last.exit = EXIT_OK /\ IsUpload(last.cmd),
                        NEW key \in Key, key[1] \in Prefixes(Dest(last.cmd)), cache'[key] # None
                 PROVE  Gives(cache'[key], key[1], key[2], tree)
        BY <1>1 DEF ListedSince
    <2>5. CASE key = <<p, kind>>
        BY <2>1, <2>3, <2>4, <2>5
    <2>6. CASE key # <<p, kind>>
        BY <2>3, <2>6 DEF UploadInv, ListedSince
    <2>7. QED
        BY <2>5, <2>6
<1>5. QED
    BY <1>1, <1>2, <1>3, <1>4, ListRemoteIs

LEMMA NextListedSince ==
    ASSUME UploadInv, [Next]_vars
    PROVE  ListedSince'
<1>1. TypeInv /\ CopyInv /\ ListedSince
    BY DEF UploadInv
<1>2. CASE Idle /\ Complete
    BY <1>2, ListedNow DEF Idle, jobVars
<1>3. CASE cache' = cache /\ UNCHANGED <<tree, last>>
    BY <1>1, <1>3 DEF ListedSince
<1>4. CASE Idle /\ Session
    <2>1. UNCHANGED <<tree, last>> /\ (cache' = cache \/ cache' = EmptyCache)
        BY <1>4 DEF Idle, Session, jobVars
    <2>2. CASE cache' = EmptyCache
        BY <2>2 DEF ListedSince, EmptyCache
    <2>3. QED
        BY <1>3, <2>1, <2>2
<1>5. CASE last' = None
    BY <1>5 DEF ListedSince
<1>6. CASE Tick /\ UNCHANGED jobVars
    <2>1. UNCHANGED <<tree, last>> /\ CacheType
        BY <1>1, <1>6 DEF Tick, jobVars, TypeInv
    <2>2. cache' = [key \in Key |->
             IF cache[key] = None THEN None
             ELSE [cache[key] EXCEPT !.age = IF @ > CACHE_TTL THEN @ ELSE @ + 1]]
        BY <1>6 DEF Tick
    <2>3. ASSUME NEW key \in Key, cache'[key] # None
          PROVE  /\ cache[key] # None
                 /\ cache'[key].entries = cache[key].entries
                 /\ cache'[key].truncated = cache[key].truncated
        <3>1. PICK e : e = cache[key]
            OBVIOUS
        <3>2. e # None
            BY <2>2, <2>3, <3>1
        <3>3. Kept(e)
            BY <2>1, <3>1, <3>2 DEF CacheType
        <3>4. cache'[key] = [e EXCEPT !.age = IF @ > CACHE_TTL THEN @ ELSE @ + 1]
            BY <2>2, <3>1, <3>2
        <3>5. cache'[key].entries = e.entries /\ cache'[key].truncated = e.truncated
            BY <3>3, <3>4 DEF Kept
        <3>6. QED
            BY <3>1, <3>2, <3>5
    <2>4. QED
        BY <1>1, <2>1, <2>3 DEF ListedSince, Gives
<1>7. CASE Other
    BY <1>5, <1>7 DEF Other
<1>8. CASE \E argv \in Argv : Start(argv)
    <2>1. last' = None \/ last'.exit # EXIT_OK
        BY <1>1, <1>8, StartIs
    <2>2. QED
        BY <2>1 DEF ListedSince
<1>9. CASE Step
    <2>1. last' = None
        BY <1>1, <1>9, StepIs DEF CopyInv
    <2>2. QED
        BY <1>5, <2>1
<1>10. CASE Finish
    <2>1. tree' = tree /\ job # None
        BY <1>10, FinishIs
    <2>2. PICK exit : /\ Ends(job.cmd, exit, job.done, job.asked)
                      /\ \E c \in {cache, EmptyCache} : cache' = Invalidated(c, job.cmd, exit)
        BY <1>10, FinishIs
    <2>3. last' = None \/ (last'.cmd = job.cmd /\ last'.exit = exit)
        BY <2>2 DEF Ends
    <2>4. ASSUME exit = EXIT_OK, IsUpload(job.cmd)
          PROVE  \A key \in Key : key[1] \in Prefixes(Dest(job.cmd)) => cache'[key] = None
        BY <2>2, <2>4 DEF Invalidated, invalidate_prefix_to_root, walk_to_root
    <2>5. QED
        BY <2>3, <2>4 DEF ListedSince
<1>11. CASE Kill \/ UNCHANGED vars
    <2>1. cache' = cache /\ UNCHANGED <<tree, last>>
        BY <1>11 DEF Kill, vars, listingVars, jobVars
    <2>2. QED
        BY <1>3, <2>1
<1>12. QED
    BY <1>2, <1>4, <1>6, <1>7, <1>8, <1>9, <1>10, <1>11 DEF Next

\* What a listing of what there is now shows of a file that is there, and of the
\* folders that lead to it.
LEMMA ListingShows ==
    ASSUME RemoteType(tree), NEW o,
           [dir |-> o.dir, name |-> o.name, from |-> o.from] \in tree.files,
           NEW p \in Prefixes(o.dir)
    PROVE  (IF p = o.dir THEN [name |-> o.name, dir |-> FALSE]
            ELSE [name |-> o.dir[Len(p) + 1], dir |-> TRUE]) \in Listing(tree, p)
<1>1. PICK f : f = [dir |-> o.dir, name |-> o.name, from |-> o.from]
    OBVIOUS
<1>2. f.dir = o.dir /\ f.name = o.name /\ f \in tree.files
    BY <1>1
<1>3. CASE p = o.dir
    <2>1. [name |-> f.name, dir |-> FALSE] \in Listing(tree, p)
        BY <1>2, <1>3 DEF Listing
    <2>2. QED
        BY <1>2, <1>3, <2>1
<1>4. CASE p # o.dir
    <2> DEFINE q == SubSeq(o.dir, 1, Len(p) + 1)
    <2>1. o.dir \in tree.folders /\ o.dir \in Seq(FileName)
        BY <1>2 DEF RemoteType, Segments
    <2>2. PICK l \in 0..Len(o.dir) : p = SubSeq(o.dir, 1, l)
        BY DEF Prefixes
    <2>3. Len(p) = l /\ l < Len(o.dir) /\ l \in Nat
        <3>1. l = Len(o.dir) => p = o.dir
            BY <2>1, <2>2
        <3>2. Len(p) = l
            BY <2>1, <2>2
        <3>3. QED
            BY <1>4, <2>1, <3>1, <3>2
    <2>4. l + 1 \in 0..Len(o.dir)
        BY <2>1, <2>3
    <2>5. q \in Prefixes(o.dir)
        BY <2>3, <2>4 DEF Prefixes
    <2>6. q \in tree.folders
        BY <2>1, <2>5 DEF RemoteType
    <2>7. Len(q) = l + 1 /\ q \in Seq(FileName) /\ q[l + 1] = o.dir[l + 1]
        BY <2>1, <2>3, <2>4
    <2>8. SubSeq(q, 1, l) = p
        BY <2>1, <2>2, <2>3, <2>4
    <2>9. q # <<>> /\ Front(q) = p /\ Last(q) = o.dir[Len(p) + 1]
        <3>1. Front(q) = SubSeq(q, 1, Len(q) - 1) /\ Last(q) = q[Len(q)]
            BY DEF Front, Last
        <3>2. Len(q) - 1 = l /\ Len(q) # 0
            BY <2>3, <2>7
        <3>3. QED
            BY <2>3, <2>7, <2>8, <3>1, <3>2
    <2> HIDE DEF q
    <2>10. [name |-> Last(q), dir |-> TRUE] \in Listing(tree, p)
        BY <2>6, <2>9 DEF Listing
    <2>11. QED
        BY <1>4, <2>9, <2>10
<1>5. QED
    BY <1>3, <1>4

LEMMA UploadsAreShown ==
    UploadInv => OwnUploadsShown
<1> SUFFICES ASSUME UploadInv, last # None, last.exit = EXIT_OK, NEW o \in last.done, o.is = "up"
             PROVE  Shown(o, Prefixes(Dest(last.cmd)))
    BY DEF OwnUploadsShown
<1>1. /\ RemoteType(tree) /\ IsUpload(last.cmd) /\ Dest(last.cmd) \in Path
      /\ [dir |-> o.dir, name |-> o.name, from |-> o.from] \in tree.files
    BY DEF UploadInv, TypeInv, CopyInv, ByUpload, HasCopies
<1> SUFFICES ASSUME NEW p \in Prefixes(Dest(last.cmd)) \cap Prefixes(o.dir), NEW kind \in Kind,
                    NEW e, e = IF p = o.dir THEN [name |-> o.name, dir |-> FALSE]
                               ELSE [name |-> o.dir[Len(p) + 1], dir |-> TRUE],
                    Live(cache, <<p, kind>>), ~cache[<<p, kind>>].truncated
             PROVE  OfKind(kind, {e}) \subseteq cache[<<p, kind>>].entries
    BY DEF Shown
<1>2. e \in Listing(tree, p)
    BY <1>1, ListingShows
<1>3. <<p, kind>> \in Key /\ <<p, kind>>[1] = p /\ <<p, kind>>[2] = kind
    BY <1>1, PathsAre DEF Key
<1>4. Gives(cache[<<p, kind>>], p, kind, tree)
    BY <1>1, <1>3 DEF UploadInv, ListedSince, Live
<1>5. cache[<<p, kind>>].entries = OfKind(kind, Listing(tree, p))
    BY <1>4 DEF Gives
<1>6. OfKind(kind, {e}) \subseteq OfKind(kind, Listing(tree, p))
    BY <1>2 DEF OfKind
<1>7. QED
    BY <1>5, <1>6

LEMMA NextUpload ==
    UploadInv /\ [Next]_vars => UploadInv'
BY NextType, NextCopies, NextListedSince DEF UploadInv

LEMMA UploadInvariance == Spec => []UploadInv
<1>1. Init => UploadInv
    <2>1. Init => CopyInv /\ ListedSince
        BY DEF Init, InitJob, CopyInv, ListedSince
    <2>2. QED
        BY <2>1, InitType DEF UploadInv
<1>2. QED
    BY <1>1, NextUpload, PTL DEF Spec

\* Every upload a command reports has a remote file of that name with the contents
\* of its source, whatever else the batch sent under the same name: later uploads
\* take a free name and replace nothing.
THEOREM UploadsHaveCopies == Spec => []EachHasItsCopy
BY UploadInvariance, CopiesAreThere, PTL DEF UploadInv

\* After an upload that ended well no listing the agent still serves of its
\* destination, or of a folder that leads there, is without what it sent.
THEOREM UploadsAreListed == Spec => []OwnUploadsShown
BY UploadInvariance, UploadsAreShown, PTL

-------------------------------------------------------------------------------
(***************************************************************************)
(* Exit codes: what is still to be done accounts for everything asked for. *)
(***************************************************************************)

Fails(done) == \E o \in done : o.is = "fail"

\* A remote file a word names, and where it goes.
FetchedFor(cmd, f) == Fetched(Append(PathOf(cmd.dest), f.name), Rivals(cmd, f.name))

FoundAt(p) == {f \in tree.files : p # <<>> /\ f.dir = Front(p) /\ f.name = Last(p)}

\* The item is what gets a there, or fails.
Serves(cmd, item, a) ==
    CASE item.op = "word" -> a \in AskedOfWord(cmd, item.tok.path)
      [] item.op = "walk" ->
            a = Place(PathOf(cmd.there) \o Front(Below(PathOf(cmd.here), item.file.path)),
                      item.file.from)
      [] item.op = "bundle" ->
            a = Place(PathOf(cmd.there), {Below(PathOf(cmd.here), f.path) : f \in item.files})
      [] item.op = "get" ->
            /\ Visible(item.tok.path)
            /\ \/ \E f \in FoundAt(item.tok.path) : a = FetchedFor(cmd, f)
               \/ FoundAt(item.tok.path) = {} /\ a = Nowhere
      [] item.op = "glob" ->
            \/ \E f \in tree.files : /\ f.dir = item.dir /\ Visible(Append(f.dir, f.name))
                                     /\ a = FetchedFor(cmd, f)
            \/ (\A f \in tree.files : f.dir # item.dir) /\ a = Nowhere
      [] item.op = "fetch" -> a = Fetched(Append(item.here, item.file.name), {item.file.from})
      [] item.op = "dir" ->
            \E f \in Under(item.dir, cmd.recursive) :
                a = Fetched(item.here \o Below(item.dir, f.dir) \o <<f.name>>, {f.from})

\* What an item fetches was asked for, and it goes where it was asked to be.
Aligned(cmd, item) ==
    CASE item.op = "get" ->
            Visible(item.tok.path) => FoundAt(item.tok.path) \subseteq Wanted(cmd)
      [] item.op = "glob" ->
            {f \in tree.files : f.dir = item.dir /\ Visible(Append(f.dir, f.name))}
                \subseteq Wanted(cmd)
      [] item.op = "fetch" ->
            /\ item.file \in tree.files
            /\ IsPrefix(PathOf(cmd.there), item.file.dir)
            /\ item.here = PathOf(cmd.here) \o Below(PathOf(cmd.there), item.file.dir)
      [] item.op = "dir" ->
            /\ IsPrefix(PathOf(cmd.there), item.dir)
            /\ item.here = PathOf(cmd.here) \o Below(PathOf(cmd.there), item.dir)
      [] OTHER -> TRUE

\* An item is done: what took its place is aligned, and unless something failed what
\* it was for is there or served, and nothing that was there is gone.
Served(cmd, item) ==
    \E W : /\ ToSet(job'.todo) = W \cup ToSet(Tail(job.todo))
           /\ job.done \subseteq job'.done
           /\ \A w \in W : Aligned(cmd, w)'
           /\ \/ Fails(job'.done)
              \/ /\ \A a : Serves(cmd, item, a) => Settled(a)' \/ \E w \in W : Serves(cmd, w, a)'
                 /\ \A a \in Asked(cmd) : Settled(a) => Settled(a)'

\* What the items and the question mean does not change under a command.
LEMMA SameMeaning ==
    ASSUME NEW cmd, ReadsAs(cmd),
           IsUpload(cmd) => local' = local,
           ~IsUpload(cmd) => tree' = tree
    PROVE  /\ Asked(cmd)' = Asked(cmd)
           /\ \A item \in WorkOf(cmd) : /\ Aligned(cmd, item)' = Aligned(cmd, item)
                                        /\ \A a : Serves(cmd, item, a)' = Serves(cmd, item, a)
<1>1. CASE cmd.verb = "Upload"
    <2>1. local' = local
        BY <1>1 DEF IsUpload
    <2>2. \A p : AskedOfWord(cmd, p)' = AskedOfWord(cmd, p)
        BY <2>1 DEF AskedOfWord, FileAt
    <2>3. Asked(cmd)' = Asked(cmd)
        BY <1>1, <2>2 DEF Asked
    <2>4. \A item \in WorkOf(cmd) : item.op = "word"
        BY <1>1, WorkIs
    <2>5. ASSUME NEW item \in WorkOf(cmd)
          PROVE  /\ Aligned(cmd, item)' = Aligned(cmd, item)
                 /\ \A a : Serves(cmd, item, a)' = Serves(cmd, item, a)
        <3>1. item.op = "word"
            BY <2>4
        <3>2. Aligned(cmd, item)' = Aligned(cmd, item)
            BY <3>1 DEF Aligned
        <3>3. \A a : Serves(cmd, item, a)' = Serves(cmd, item, a)
            BY <2>2, <3>1 DEF Serves
        <3>4. QED
            BY <3>2, <3>3
    <2>6. QED
        BY <2>3, <2>5
<1>2. CASE cmd.verb = "SaveAll"
    <2>1. local' = local
        BY <1>2 DEF IsUpload
    <2>2. \A dir, recursive : walk_local(dir, recursive)' = walk_local(dir, recursive)
        BY <2>1 DEF walk_local
    <2>3. Asked(cmd)' = Asked(cmd)
        BY <1>2, <2>2 DEF Asked
    <2>4. \A item \in WorkOf(cmd) : item.op = "walk" \/ item.op = "bundle"
        BY <1>2, WorkIs
    <2>5. ASSUME NEW item \in WorkOf(cmd)
          PROVE  /\ Aligned(cmd, item)' = Aligned(cmd, item)
                 /\ \A a : Serves(cmd, item, a)' = Serves(cmd, item, a)
        <3>1. item.op = "walk" \/ item.op = "bundle"
            BY <2>4
        <3>2. Aligned(cmd, item)' = Aligned(cmd, item)
            BY <3>1 DEF Aligned
        <3>3. \A a : Serves(cmd, item, a)' = Serves(cmd, item, a)
            BY <3>1 DEF Serves
        <3>4. QED
            BY <3>2, <3>3
    <2>6. QED
        BY <2>3, <2>5
<1>3. CASE ~IsUpload(cmd)
    <2>1. tree' = tree /\ cmd.verb \in {"Download", "DownloadAll"}
        BY <1>3 DEF IsUpload, ReadsAs
    <2>2. Wanted(cmd)' = Wanted(cmd) /\ \A p : Named(p)' = Named(p)
        BY <2>1 DEF Wanted, Named
    <2>3. \A n : Rivals(cmd, n)' = Rivals(cmd, n)
        BY <2>2 DEF Rivals
    <2>4. \A q, r : Under(q, r)' = Under(q, r)
        BY <2>1 DEF Under
    <2>5. Asked(cmd)' = Asked(cmd)
        BY <2>1, <2>2, <2>3, <2>4 DEF Asked
    <2>6. \A p : FoundAt(p)' = FoundAt(p)
        BY <2>1 DEF FoundAt
    <2>7. \A item \in WorkOf(cmd) : item.op \in {"get", "glob", "fetch", "dir"}
        BY <2>1, WorkIs
    <2>8. ASSUME NEW item \in WorkOf(cmd)
          PROVE  Aligned(cmd, item)' = Aligned(cmd, item)
        BY <2>1, <2>2, <2>6, <2>7 DEF Aligned
    <2>9. \A f : FetchedFor(cmd, f)' = FetchedFor(cmd, f)
        BY <2>3 DEF FetchedFor
    <2>10. ASSUME NEW item \in WorkOf(cmd), NEW a
          PROVE  Serves(cmd, item, a)' = Serves(cmd, item, a)
        BY <2>1, <2>4, <2>6, <2>7, <2>9 DEF Serves
    <2>11. QED
        BY <2>5, <2>8, <2>10
<1>4. QED
    BY <1>1, <1>2, <1>3 DEF IsUpload

LEMMA SettledStays ==
    ASSUME local \subseteq local', tree.files \subseteq tree'.files
    PROVE  \A a : Settled(a) => Settled(a)'
BY DEF Settled

\* An item that failed is served for: the failure is on record.
LEMMA FailedServed ==
    ASSUME TypeInv, job # None, job.todo # <<>>, NEW cmd, NEW item, Did(item, Failed(item))
    PROVE  Served(cmd, item)
<1>1. /\ job'.todo = Tail(job.todo) /\ job'.done = job.done \cup {Failed(item)}
    BY DidIs DEF TypeInv
<1>2. PICK o : o = Failed(item)
    OBVIOUS
<1>3. o.is = "fail"
    BY <1>2 DEF Failed
<1>4. Fails(job'.done)
    BY <1>1, <1>2, <1>3 DEF Fails
<1>5. PICK W : W = {}
    OBVIOUS
<1>6. /\ ToSet(job'.todo) = W \cup ToSet(Tail(job.todo))
      /\ job.done \subseteq job'.done
      /\ \A w \in W : Aligned(cmd, w)'
    BY <1>1, <1>5
<1>7. QED
    BY <1>4, <1>6 DEF Served

\* So is one that came to something else when what it was for is there.
LEMMA DidServed ==
    ASSUME TypeInv, job # None, job.todo # <<>>, NEW cmd, NEW item, NEW o, Did(item, o),
           \A a : Serves(cmd, item, a) => Settled(a)',
           \A a \in Asked(cmd) : Settled(a) => Settled(a)'
    PROVE  Served(cmd, item)
<1>1. /\ job'.todo = Tail(job.todo) /\ job'.done = job.done \cup {o}
    BY DidIs DEF TypeInv
<1>2. /\ ToSet(job'.todo) = {} \cup ToSet(Tail(job.todo))
      /\ job.done \subseteq job'.done
    BY <1>1
<1>3. QED
    BY <1>2 DEF Served

LEMMA ExpandedSet ==
    ASSUME JobType(job), job.todo # <<>>, NEW W,
           \E work \in Seq(WorkOf(job.cmd)) : Expanded(work) /\ ToSet(work) = W
    PROVE  ToSet(job'.todo) = W \cup ToSet(Tail(job.todo)) /\ job'.done = job.done
<1>1. PICK work \in Seq(WorkOf(job.cmd)) : Expanded(work) /\ ToSet(work) = W
    OBVIOUS
<1>2. job'.todo = work \o Tail(job.todo) /\ job'.done = job.done
    BY <1>1, ExpandedIs DEF Expanded
<1>3. PICK S, t : S = WorkOf(job.cmd) /\ t = Tail(job.todo)
    OBVIOUS
<1>4. work \in Seq(S) /\ t \in Seq(S)
    BY <1>3 DEF JobType
<1>5. ToSet(work \o t) = ToSet(work) \cup ToSet(t)
    BY <1>4, BothParts
<1>6. QED
    BY <1>1, <1>2, <1>3, <1>5

LEMMA UploadServed ==
    ASSUME TypeInv, job # None, job.todo # <<>>, NEW cmd, NEW item, NEW asks,
           UploadDone(item, asks), UNCHANGED local, \A a : Serves(cmd, item, a) => a \in asks
    PROVE  Served(cmd, item)
<1>1. \A a : Settled(a) => Settled(a)'
    BY SettledStays DEF UploadDone, Added
<1>2. CASE Did(item, Failed(item))
    BY <1>2, FailedServed
<1>3. CASE Did(item, Skipped(item)) /\ asks = {}
    <2>1. \A a : Serves(cmd, item, a) => Settled(a)'
        BY <1>3
    <2>2. PICK o : o = Skipped(item)
        OBVIOUS
    <2>3. QED
        BY <1>1, <1>3, <2>1, <2>2, DidServed
<1>4. CASE \E dir, as, from : /\ Did(item, Up(item, dir, as, from))
                              /\ [dir |-> dir, name |-> as, from |-> from] \in tree'.files
                              /\ asks \subseteq {Place(dir, from)}
    <2>1. PICK dir, as, from : /\ Did(item, Up(item, dir, as, from))
                               /\ [dir |-> dir, name |-> as, from |-> from] \in tree'.files
                               /\ asks \subseteq {Place(dir, from)}
        BY <1>4
    <2>2. PICK f : f = [dir |-> dir, name |-> as, from |-> from]
        OBVIOUS
    <2>3. f.dir = dir /\ f.from = from /\ f \in tree'.files
        BY <2>1, <2>2
    <2>4. ASSUME NEW a, Serves(cmd, item, a)
          PROVE  Settled(a)'
        <3>1. a = [there |-> TRUE, dir |-> dir, from |-> {from}]
            BY <2>1, <2>4 DEF Place
        <3>2. a.there /\ a.dir = dir /\ a.from = {from}
            BY <3>1
        <3>3. QED
            BY <2>3, <3>2 DEF Settled
    <2>5. PICK o : o = Up(item, dir, as, from)
        OBVIOUS
    <2>6. QED
        BY <1>1, <2>1, <2>4, <2>5, DidServed
<1>5. QED
    BY <1>2, <1>3, <1>4 DEF UploadDone

\* There is a file of that path with those contents here.
Has(files, p, from) == \E f \in files : f.path = p /\ f.from = from

LEMMA WrittenHas ==
    ASSUME NEW files, NEW path, NEW from
    PROVE  /\ Has(Written(files, path, from), path, from)
           /\ \A p, g : Has(files, p, g) /\ p # path => Has(Written(files, path, from), p, g)
<1>1. PICK f : f = [path |-> path, kind |-> "file", big |-> FALSE, from |-> from]
    OBVIOUS
<1>2. f.path = path /\ f.from = from /\ f \in Written(files, path, from)
    BY <1>1 DEF Written
<1>3. QED
    BY <1>2 DEF Has, Written

LEMMA HasMore ==
    ASSUME NEW files, NEW more, files \subseteq more
    PROVE  \A p, g : Has(files, p, g) => Has(more, p, g)
BY DEF Has

\* What unpacking leaves: everything that was there, except what it was unpacked over.
LEMMA UnpackedHas ==
    ASSUME NEW files, NEW dir, NEW f, NEW new \in Unpacked(files, dir, f), NEW p, NEW g,
           Has(files, p, g)
    PROVE  \/ Has(new, p, g)
           \/ /\ f.name.ext = ".zst" /\ p = Append(dir, Packed(f.name, ""))
              /\ Has(new, p, f.from) \/ Has(new, p, {})
<1> DEFINE at == Append(dir, Packed(f.name, ""))
<1>1. \/ new = files
      \/ f.name.ext = ".zst" /\ \E from \in {f.from, {}} : new = Written(files, at, from)
      \/ files \subseteq new
    BY DEF Unpacked
<1>2. CASE files \subseteq new
    BY <1>2, HasMore
<1>3. CASE f.name.ext = ".zst" /\ \E from \in {f.from, {}} : new = Written(files, at, from)
    <2>1. PICK from \in {f.from, {}} : new = Written(files, at, from)
        BY <1>3
    <2>2. Has(new, at, from) /\ (p # at => Has(new, p, g))
        BY <2>1, WrittenHas
    <2>3. QED
        BY <1>3, <2>1, <2>2
<1>4. QED
    BY <1>1, <1>2, <1>3

\* What a fetch that did not fail leaves.
LEMMA FetchHas ==
    ASSUME NEW item, NEW f \in Fetchable, NEW dir \in Segments, NEW unpack,
           fetch(item, f, dir, unpack)
    PROVE  \/ Did(item, Failed(item))
           \/ /\ Did(item, Down(item, Append(dir, f.name), f.from))
              /\ Has(local', Append(dir, f.name), f.from)
              /\ \A p, g : Has(local, p, g) =>
                    \/ Has(local', p, g)
                    \/ p = Append(dir, f.name)
                    \/ /\ unpack /\ f.name.ext = ".zst" /\ p = Append(dir, Packed(f.name, ""))
                       /\ Has(local', p, f.from) \/ Has(local', p, {})
<1> DEFINE at == Append(dir, f.name)
           written == Written(local, at, f.from)
<1>1. \/ Did(item, Failed(item))
      \/ /\ Did(item, Down(item, at, f.from))
         /\ local' \in IF unpack THEN Unpacked(written, dir, f) ELSE {written}
    BY DEF fetch
<1>2. Has(written, at, f.from) /\ \A p, g : Has(local, p, g) /\ p # at => Has(written, p, g)
    BY WrittenHas
<1>3. f.name.ext = ".zst" => at # Append(dir, Packed(f.name, ""))
    <2>1. f.name \in FileName
        BY DEF Fetchable, RemoteFile
    <2>2. Packed(f.name, "") \in FileName
        BY <2>1, PackedIsName
    <2>3. Packed(f.name, "").ext = ""
        BY <2>1 DEF Packed, FileName
    <2>4. \A n \in FileName : Last(Append(dir, n)) = n
        BY AppendIs
    <2>5. at = Append(dir, Packed(f.name, "")) => f.name = Packed(f.name, "")
        <3>1. PICK n, m : n = f.name /\ m = Packed(f.name, "")
            OBVIOUS
        <3>2. Append(dir, n) = Append(dir, m) => n = m
            BY <2>1, <2>2, <2>4, <3>1
        <3>3. QED
            BY <3>1, <3>2
    <2>6. QED
        BY <2>3, <2>5
<1> HIDE DEF written, at
<1>4. CASE local' \in IF unpack THEN Unpacked(written, dir, f) ELSE {written}
    <2>1. CASE ~unpack
        BY <1>1, <1>2, <1>4, <2>1 DEF at
    <2>2. CASE unpack
        <3>1. local' \in Unpacked(written, dir, f)
            BY <1>4, <2>2
        <3>2. \A p, g : Has(written, p, g) =>
                  \/ Has(local', p, g)
                  \/ /\ f.name.ext = ".zst" /\ p = Append(dir, Packed(f.name, ""))
                     /\ Has(local', p, f.from) \/ Has(local', p, {})
            BY <3>1, UnpackedHas
        <3>3. Has(local', at, f.from)
            BY <1>2, <1>3, <3>2
        <3>4. QED
            BY <1>1, <1>2, <2>2, <3>2, <3>3 DEF at
    <2>3. QED
        BY <2>1, <2>2
<1>5. QED
    BY <1>1, <1>4 DEF at

LEMMA FetchedIs ==
    ASSUME NEW at, NEW from
    PROVE  /\ Settled(Fetched(at, from)) <=> \E g \in from : Has(local, at, g)
           /\ Settled(Fetched(at, from))' <=> \E g \in from : Has(local', at, g)
<1>1. PICK a : a = [there |-> FALSE, dir |-> at, from |-> from]
    OBVIOUS
<1>2. a = Fetched(at, from) /\ ~a.there /\ a.dir = at /\ a.from = from
    BY <1>1 DEF Fetched
<1>3. Settled(a) <=> \E g \in from : Has(local, at, g)
    BY <1>2 DEF Settled, Has
<1>4. Settled(a)' <=> \E g \in from : Has(local', at, g)
    BY <1>2 DEF Settled, Has
<1>5. QED
    BY <1>2, <1>3, <1>4

\* What is asked of the remote folder does not depend on what is here.
LEMMA NowhereStays ==
    ASSUME tree' = tree
    PROVE  Settled(Nowhere) => Settled(Nowhere)'
<1>1. Nowhere.there /\ Nowhere' = Nowhere
    BY DEF Nowhere, Place
<1>2. QED
    BY <1>1 DEF Settled

\* A word that is fetched may be taken for what its rivals were to be.
LEMMA RivalsAre ==
    ASSUME NEW cmd, NEW f \in Wanted(cmd)
    PROVE  /\ f.from \in Rivals(cmd, f.name)
           /\ cmd.x /\ f.name.ext = ".zst" =>
                  {f.from, {}} \subseteq Rivals(cmd, Packed(f.name, ""))
BY DEF Rivals

LEMMA AskedWords ==
    ASSUME NEW cmd, cmd.verb = "Download"
    PROVE  /\ \A f \in Wanted(cmd) : FetchedFor(cmd, f) \in Asked(cmd)
           /\ \A a \in Asked(cmd) : \/ a = Nowhere
                                    \/ \E g \in Wanted(cmd) : a = FetchedFor(cmd, g)
BY DEF Asked, FetchedFor

LEMMA WantedAre ==
    ASSUME RemoteType(tree), NEW cmd
    PROVE  \A f \in Wanted(cmd) : f \in tree.files /\ f.name \in FileName /\ f \in Fetchable
BY DEF Wanted, Named, RemoteType, RemoteFile, Fetchable

\* A word that was fetched is there, and whatever was there before is or gave way to
\* a rival.
LEMMA WordFetched ==
    ASSUME RemoteType(tree), NEW cmd, ReadsAs(cmd), cmd.verb = "Download", tree' = tree, NEW item,
           NEW f \in Wanted(cmd), fetch(item, f, PathOf(cmd.dest), cmd.x)
    PROVE  \/ Did(item, Failed(item))
           \/ /\ \E o : Did(item, o)
              /\ Settled(FetchedFor(cmd, f))'
              /\ \A a \in Asked(cmd) : Settled(a) => Settled(a)'
<1>1. PICK dir : dir = PathOf(cmd.dest)
    OBVIOUS
<1>2. dir \in Segments
    BY <1>1, PathOfWord DEF ReadsAs
<1>3. f \in Fetchable /\ f.name \in FileName
    BY WantedAre
<1>4. fetch(item, f, dir, cmd.x)
    BY <1>1
<1> SUFFICES ASSUME ~Did(item, Failed(item))
             PROVE  /\ \E o : Did(item, o)
                    /\ Settled(FetchedFor(cmd, f))'
                    /\ \A a \in Asked(cmd) : Settled(a) => Settled(a)'
    OBVIOUS
<1>5. /\ \E o : Did(item, o)
      /\ Has(local', Append(dir, f.name), f.from)
      /\ \A p, g : Has(local, p, g) =>
            \/ Has(local', p, g)
            \/ p = Append(dir, f.name)
            \/ /\ cmd.x /\ f.name.ext = ".zst" /\ p = Append(dir, Packed(f.name, ""))
               /\ Has(local', p, f.from) \/ Has(local', p, {})
    <2>1. PICK unpack : unpack = cmd.x
        OBVIOUS
    <2>2. fetch(item, f, dir, unpack)
        BY <1>4, <2>1
    <2>3. QED
        BY <1>2, <1>3, <2>1, <2>2, FetchHas
<1>6. \A n, m \in FileName : Append(dir, n) = Append(dir, m) => n = m
    <2>1. \A n \in FileName : Last(Append(dir, n)) = n
        BY <1>2, AppendIs
    <2> SUFFICES ASSUME NEW n \in FileName, NEW m \in FileName, Append(dir, n) = Append(dir, m)
                 PROVE  n = m
        OBVIOUS
    <2>2. QED
        BY <2>1
<1>7. ASSUME NEW g \in Wanted(cmd), NEW R, R = Rivals(cmd, g.name)
      PROVE  /\ FetchedFor(cmd, g)' = Fetched(Append(dir, g.name), R)
             /\ FetchedFor(cmd, g) = Fetched(Append(dir, g.name), R)
    <2>1. FetchedFor(cmd, g) = Fetched(Append(dir, g.name), R)
        BY <1>1, <1>7 DEF FetchedFor
    <2>2. Wanted(cmd)' = Wanted(cmd)
        BY DEF Wanted, Named
    <2>3. Rivals(cmd, g.name)' = R
        BY <1>7, <2>2 DEF Rivals
    <2>4. QED
        BY <1>1, <2>1, <2>3 DEF FetchedFor
<1>8. Settled(FetchedFor(cmd, f))'
    <2>1. PICK R : R = Rivals(cmd, f.name)
        OBVIOUS
    <2>2. f.from \in R
        BY <2>1, RivalsAre
    <2>3. PICK at : at = Append(dir, f.name)
        OBVIOUS
    <2>4. Settled(Fetched(at, R))'
        BY <1>5, <2>2, <2>3, FetchedIs
    <2>5. FetchedFor(cmd, f)' = Fetched(at, R)
        BY <1>7, <2>1, <2>3
    <2>6. QED
        BY <2>4, <2>5 DEF Fetched
<1>9. ASSUME NEW g \in Wanted(cmd), Settled(FetchedFor(cmd, g)), NEW a, a = FetchedFor(cmd, g)
      PROVE  Settled(a)'
    <2>1. PICK R : R = Rivals(cmd, g.name)
        OBVIOUS
    <2>2. PICK at : at = Append(dir, g.name)
        OBVIOUS
    <2>3. a = Fetched(at, R)
        BY <1>7, <1>9, <2>1, <2>2
    <2>4. Settled(Fetched(at, R))
        BY <1>7, <1>9, <2>1, <2>2
    <2>5. PICK h \in R : Has(local, at, h)
        BY <2>4, FetchedIs
    <2>6. g.name \in FileName /\ Packed(f.name, "") \in FileName
        BY <1>3, WantedAre, PackedIsName
    <2>7. \E k \in R : Has(local', at, k)
        <3>1. CASE Has(local', at, h)
            BY <3>1
        <3>2. CASE at = Append(dir, f.name)
            <4>1. g.name = f.name
                BY <1>3, <1>6, <2>2, <2>6, <3>2
            <4>2. f.from \in R
                BY <2>1, <4>1, RivalsAre
            <4>3. QED
                BY <1>5, <3>2, <4>2
        <3>3. CASE /\ cmd.x /\ f.name.ext = ".zst" /\ at = Append(dir, Packed(f.name, ""))
                   /\ Has(local', at, f.from) \/ Has(local', at, {})
            <4>1. g.name = Packed(f.name, "")
                BY <1>6, <2>2, <2>6, <3>3
            <4>2. {f.from, {}} \subseteq R
                BY <2>1, <3>3, <4>1, RivalsAre
            <4>3. QED
                BY <3>3, <4>2
        <3>4. QED
            BY <1>5, <2>5, <3>1, <3>2, <3>3
    <2>8. Settled(Fetched(at, R))'
        BY <2>7, FetchedIs
    <2>9. QED
        BY <2>3, <2>8 DEF Fetched
<1>10. ASSUME NEW a \in Asked(cmd), Settled(a)
       PROVE  Settled(a)'
    <2>1. CASE a = Nowhere
        BY <1>10, <2>1, NowhereStays DEF Nowhere, Place
    <2>2. CASE \E g \in Wanted(cmd) : a = FetchedFor(cmd, g)
        BY <1>9, <1>10, <2>2
    <2>3. QED
        BY <2>1, <2>2, AskedWords
<1>11. QED
    BY <1>5, <1>8, <1>10

\* A word is looked up, and fetched where it is found.
LEMMA WordServed ==
    ASSUME TypeInv, job # None, job.todo # <<>>, NEW cmd, cmd = job.cmd, cmd.verb = "Download",
           NEW item, item.op = "get", item.tok \in WordToken, Aligned(cmd, item),
           download_one(item), tree' = tree
    PROVE  Served(cmd, item)
<1>1. RemoteType(tree) /\ ReadsAs(cmd)
    BY DEF TypeInv, JobType, Command
<1>2. PICK p : p = item.tok.path
    OBVIOUS
<1>3. \A f, g \in FoundAt(p) : f = g
    BY <1>1 DEF FoundAt, RemoteType
<1>4. \/ ~Visible(p) /\ Did(item, Skipped(item)) /\ UNCHANGED local
      \/ FoundAt(p) = {} /\ Did(item, Failed(item))
      \/ Visible(p) /\ \E f \in FoundAt(p) : fetch(item, f, PathOf(cmd.dest), cmd.x)
    BY <1>2 DEF download_one, FoundAt
<1>5. CASE ~Visible(p) /\ Did(item, Skipped(item)) /\ UNCHANGED local
    <2>1. \A a : ~Serves(cmd, item, a)
        BY <1>2, <1>5 DEF Serves
    <2>2. PICK o : o = Skipped(item)
        OBVIOUS
    <2>3. \A a : Settled(a) => Settled(a)'
        BY <1>5, SettledStays
    <2>4. QED
        BY <1>5, <2>1, <2>2, <2>3, DidServed
<1>6. CASE Did(item, Failed(item))
    BY <1>6, FailedServed
<1>7. CASE Visible(p) /\ \E f \in FoundAt(p) : fetch(item, f, PathOf(cmd.dest), cmd.x)
    <2>1. PICK f \in FoundAt(p) : fetch(item, f, PathOf(cmd.dest), cmd.x)
        BY <1>7
    <2>2. f \in Wanted(cmd)
        BY <1>2, <1>7 DEF Aligned
    <2>3. CASE Did(item, Failed(item))
        BY <2>3, FailedServed
    <2>4. CASE /\ \E o : Did(item, o)
               /\ Settled(FetchedFor(cmd, f))'
               /\ \A a \in Asked(cmd) : Settled(a) => Settled(a)'
        <3>1. ASSUME NEW a, Serves(cmd, item, a)
              PROVE  Settled(a)'
            <4>1. a = FetchedFor(cmd, f)
                BY <1>2, <1>3, <2>1, <3>1 DEF Serves
            <4>2. IsUpload(cmd) = FALSE
                BY DEF IsUpload
            <4>3. FetchedFor(cmd, f)' = FetchedFor(cmd, f)
                BY DEF FetchedFor, Rivals, Wanted, Named
            <4>4. QED
                BY <2>4, <4>1, <4>3 DEF Settled
        <3>2. PICK o : Did(item, o)
            BY <2>4
        <3>3. QED
            BY <2>4, <3>1, <3>2, DidServed
    <2>5. QED
        BY <1>1, <2>1, <2>2, <2>3, <2>4, WordFetched
<1>8. QED
    BY <1>4, <1>5, <1>6, <1>7

\* A pattern stands for the words it matches.
LEMMA GlobServed ==
    ASSUME TypeInv, job # None, job.todo # <<>>, NEW cmd, cmd = job.cmd, cmd.verb = "Download",
           NEW item, item.op = "glob", item.dir \in Segments, Aligned(cmd, item),
           expand_remote_glob(item), tree' = tree, local' = local
    PROVE  Served(cmd, item)
<1>1. RemoteType(tree) /\ ReadsAs(cmd) /\ JobType(job)
    BY DEF TypeInv, JobType, Command
<1>2. CASE Did(item, Failed(item))
    BY <1>2, FailedServed
<1>3. CASE /\ Matches(item.dir) # {}
           /\ \E work \in Seq(WorkOf(cmd)) : Expanded(work) /\ ToSet(work) = Matches(item.dir)
    <2>1. PICK d, W : d = item.dir /\ W = Matches(item.dir)
        OBVIOUS
    <2>2. ToSet(job'.todo) = W \cup ToSet(Tail(job.todo)) /\ job'.done = job.done
        BY <1>1, <1>3, <2>1, ExpandedSet
    <2>3. W \subseteq WorkOf(cmd)
        BY <2>1, ExpandGlobIs
    <2>4. ASSUME NEW f \in tree.files, f.dir = d
          PROVE  \E w \in W : /\ w.op = "get" /\ w.tok.path = Append(d, f.name)
                              /\ FoundAt(w.tok.path) = {f}
        <3>1. f.name \in FileName /\ d \in Segments
            BY <1>1, <2>1 DEF RemoteType, RemoteFile
        <3>2. /\ Append(d, f.name) # <<>> /\ Front(Append(d, f.name)) = d
              /\ Last(Append(d, f.name)) = f.name
            BY <3>1, AppendIs
        <3>3. FoundAt(Append(d, f.name)) = {f}
            BY <1>1, <2>4, <3>2 DEF FoundAt, RemoteType
        <3>4. PICK w : w = [op |-> "get", tok |-> Word(Append(d, f.name))]
            OBVIOUS
        <3>5. w \in W
            BY <2>1, <2>4, <3>4 DEF Matches
        <3>6. w.op = "get" /\ w.tok.path = Append(d, f.name)
            BY <3>4 DEF Word
        <3>7. QED
            BY <3>3, <3>5, <3>6
    <2>5. ASSUME NEW w \in W
          PROVE  \E f \in tree.files : /\ f.dir = d /\ w.op = "get"
                                       /\ w.tok.path = Append(d, f.name)
        <3>1. PICK f \in tree.files :
                  f.dir = d /\ w = [op |-> "get", tok |-> Word(Append(d, f.name))]
            BY <2>1 DEF Matches
        <3>2. w.op = "get" /\ w.tok.path = Append(d, f.name)
            BY <3>1 DEF Word
        <3>3. QED
            BY <3>1, <3>2
    <2>6. ASSUME NEW w \in W
          PROVE  Aligned(cmd, w)
        <3>1. PICK f \in tree.files : /\ f.dir = d /\ w.op = "get"
                                      /\ w.tok.path = Append(d, f.name)
            BY <2>5
        <3>2. PICK v \in W : v.tok.path = Append(d, f.name) /\ FoundAt(v.tok.path) = {f}
            BY <2>4, <3>1
        <3>3. Visible(w.tok.path) => f \in Wanted(cmd)
            BY <2>1, <3>1 DEF Aligned
        <3>4. QED
            BY <3>1, <3>2, <3>3 DEF Aligned
    <2>7. ASSUME NEW a, Serves(cmd, item, a)
          PROVE  \E w \in W : Serves(cmd, w, a)
        <3>1. PICK f \in tree.files : f.dir = d
            BY <1>3, <2>1, <2>5
        <3>2. PICK g \in tree.files : /\ g.dir = d /\ Visible(Append(g.dir, g.name))
                                      /\ a = FetchedFor(cmd, g)
            BY <2>1, <2>7, <3>1 DEF Serves
        <3>3. PICK w \in W : /\ w.op = "get" /\ w.tok.path = Append(d, g.name)
                             /\ FoundAt(w.tok.path) = {g}
            BY <2>4, <3>2
        <3>4. Serves(cmd, w, a)
            BY <3>2, <3>3 DEF Serves
        <3>5. QED
            BY <3>4
    <2>8. \A w \in W : Aligned(cmd, w)' /\ \A a : Serves(cmd, w, a) => Serves(cmd, w, a)'
        BY <1>1, <2>3, <2>6, SameMeaning
    <2>9. \A a : Settled(a) => Settled(a)'
        BY SettledStays
    <2>10. QED
        BY <2>2, <2>7, <2>8, <2>9 DEF Served
<1>4. QED
    BY <1>2, <1>3, ExpandGlobIs

-------------------------------------------------------------------------------
(***************************************************************************)
(* Folders that are fetched: paths below paths.                            *)
(***************************************************************************)

LEMMA SameSeq ==
    ASSUME NEW s \in Segments, NEW t \in Segments, Len(s) = Len(t),
           \A i \in 1..Len(s) : s[i] = t[i]
    PROVE  s = t
BY DEF Segments

LEMMA JoinedIs ==
    ASSUME NEW s \in Segments, NEW t \in Segments
    PROVE  /\ s \o t \in Segments /\ Len(s \o t) = Len(s) + Len(t)
           /\ Len(s) \in Nat /\ Len(t) \in Nat
           /\ \A i \in 1..(Len(s) + Len(t)) :
                 (s \o t)[i] = IF i <= Len(s) THEN s[i] ELSE t[i - Len(s)]
BY DEF Segments

\* What is put behind a path is what stands behind it.
JoinsTo(u, s, x, n) ==
    /\ u \in Segments /\ Len(u) = Len(s) + n /\ Len(s) \in Nat /\ n \in Nat
    /\ \A i \in 1..(Len(s) + n) : u[i] = IF i <= Len(s) THEN s[i] ELSE x[i - Len(s)]
    /\ \A i \in 1..n : u[Len(s) + i] = x[i]

LEMMA JoinedTo ==
    ASSUME NEW s \in Segments, NEW x \in Segments, NEW n, Len(x) = n
    PROVE  JoinsTo(s \o x, s, x, n)
<1>1. /\ s \o x \in Segments /\ Len(s \o x) = Len(s) + n /\ Len(s) \in Nat /\ n \in Nat
      /\ \A i \in 1..(Len(s) + n) :
            (s \o x)[i] = IF i <= Len(s) THEN s[i] ELSE x[i - Len(s)]
    BY JoinedIs
<1>2. ASSUME NEW i \in 1..n PROVE (s \o x)[Len(s) + i] = x[i]
    <2>1. Len(s) + i \in 1..(Len(s) + n) /\ ~(Len(s) + i <= Len(s)) /\ Len(s) + i - Len(s) = i
        BY <1>1
    <2>2. QED
        BY <1>1, <2>1
<1>3. QED
    BY <1>1, <1>2 DEF JoinsTo

LEMMA PartIs ==
    ASSUME NEW p \in Segments, NEW m \in 1..(Len(p) + 1), NEW n \in 0..Len(p), m <= n + 1
    PROVE  /\ SubSeq(p, m, n) \in Segments /\ Len(SubSeq(p, m, n)) = n - m + 1
           /\ \A i \in 1..(n - m + 1) : SubSeq(p, m, n)[i] = p[i + m - 1]
<1>1. Len(p) \in Nat /\ m \in Int /\ n \in Int
    BY DEF Segments
<1>2. \A i \in m..n : p[i] \in FileName
    BY <1>1 DEF Segments
<1>3. SubSeq(p, m, n) = [i \in 1..(n - m + 1) |-> p[i + m - 1]]
    BY <1>1 DEF Segments
<1>4. QED
    BY <1>1, <1>2, <1>3 DEF Segments

LEMMA FirstIs ==
    ASSUME NEW p \in Segments, NEW n \in 0..Len(p)
    PROVE  /\ SubSeq(p, 1, n) \in Segments /\ Len(SubSeq(p, 1, n)) = n
           /\ \A i \in 1..n : SubSeq(p, 1, n)[i] = p[i]
<1>1. Len(p) \in Nat /\ n \in Int
    BY DEF Segments
<1>2. 1 \in 1..(Len(p) + 1) /\ 1 <= n + 1 /\ n - 1 + 1 = n /\ \A i \in Int : i + 1 - 1 = i
    BY <1>1
<1>3. /\ SubSeq(p, 1, n) \in Segments /\ Len(SubSeq(p, 1, n)) = n - 1 + 1
      /\ \A i \in 1..(n - 1 + 1) : SubSeq(p, 1, n)[i] = p[i + 1 - 1]
    BY <1>2, PartIs
<1>4. QED
    BY <1>1, <1>2, <1>3

LEMMA OneMoreIs ==
    ASSUME NEW s \in Segments, NEW n \in FileName
    PROVE  /\ Append(s, n) \in Segments /\ Len(Append(s, n)) = Len(s) + 1 /\ Len(s) \in Nat
           /\ \A i \in 1..Len(s) : Append(s, n)[i] = s[i]
           /\ Append(s, n)[Len(s) + 1] = n
           /\ s \o <<n>> = Append(s, n)
BY DEF Segments

\* A path is its beginning and what is below that.
LEMMA PrefixIs ==
    ASSUME NEW t \in Segments, NEW p \in Segments, IsPrefix(t, p)
    PROVE  /\ Len(t) <= Len(p) /\ Len(t) \in Nat /\ Len(p) \in Nat
           /\ \A i \in 1..Len(t) : t[i] = p[i]
           /\ Below(t, p) \in Segments /\ Len(Below(t, p)) = Len(p) - Len(t)
           /\ \A i \in 1..(Len(p) - Len(t)) : Below(t, p)[i] = p[Len(t) + i]
<1>1. Len(t) <= Len(p) /\ SubSeq(t, 1, Len(t)) = SubSeq(p, 1, Len(t))
    BY DEF IsPrefix
<1>2. Len(t) \in Nat /\ Len(p) \in Nat
    BY DEF Segments
<1>3. /\ \A i \in 1..Len(t) : SubSeq(t, 1, Len(t))[i] = t[i]
      /\ \A i \in 1..Len(t) : SubSeq(p, 1, Len(t))[i] = p[i]
    <2>1. \A i \in 1..Len(t) : i + 1 - 1 = i
        BY <1>2
    <2>2. \A i \in 1..(Len(t) - 1 + 1) : SubSeq(t, 1, Len(t))[i] = t[i + 1 - 1]
        BY <1>2, PartIs
    <2>3. \A i \in 1..(Len(t) - 1 + 1) : SubSeq(p, 1, Len(t))[i] = p[i + 1 - 1]
        BY <1>1, <1>2, PartIs
    <2>4. QED
        BY <1>2, <2>1, <2>2, <2>3
<1>4. /\ Below(t, p) \in Segments /\ Len(Below(t, p)) = Len(p) - Len(t)
      /\ \A i \in 1..(Len(p) - Len(t)) : Below(t, p)[i] = p[Len(t) + i]
    <2>1. Len(t) + 1 \in 1..(Len(p) + 1) /\ Len(p) \in 0..Len(p) /\ Len(t) + 1 <= Len(p) + 1
        BY <1>1, <1>2
    <2>2. /\ SubSeq(p, Len(t) + 1, Len(p)) \in Segments
          /\ Len(SubSeq(p, Len(t) + 1, Len(p))) = Len(p) - (Len(t) + 1) + 1
          /\ \A i \in 1..(Len(p) - (Len(t) + 1) + 1) :
                SubSeq(p, Len(t) + 1, Len(p))[i] = p[i + (Len(t) + 1) - 1]
        BY <2>1, PartIs
    <2>3. Len(p) - (Len(t) + 1) + 1 = Len(p) - Len(t)
          /\ \A i \in Int : i + (Len(t) + 1) - 1 = Len(t) + i
        BY <1>2
    <2>4. QED
        BY <2>2, <2>3 DEF Below
<1>5. QED
    BY <1>1, <1>2, <1>3, <1>4

\* What is below a folder under two names of it decides which it is.
LEMMA SameBelow ==
    ASSUME NEW t \in Segments, NEW here \in Segments, NEW p \in Segments, NEW q \in Segments,
           IsPrefix(t, p), IsPrefix(t, q), here \o Below(t, p) = here \o Below(t, q)
    PROVE  p = q
<1> DEFINE x == Below(t, p)
           y == Below(t, q)
<1>1. /\ x \in Segments /\ Len(x) = Len(p) - Len(t)
      /\ y \in Segments /\ Len(y) = Len(q) - Len(t)
      /\ Len(t) \in Nat /\ Len(p) \in Nat /\ Len(q) \in Nat /\ Len(here) \in Nat
      /\ Len(t) <= Len(p) /\ Len(t) <= Len(q)
    <2>1. Len(here) \in Nat
        BY DEF Segments
    <2>2. QED
        BY <2>1, PrefixIs
<1>2. here \o x = here \o y
    OBVIOUS
<1> HIDE DEF x, y
<1>3. /\ Len(x) = Len(y) /\ Len(p) = Len(q)
      /\ \A i \in 1..Len(x) : x[i] = y[i]
    <2>1. /\ Len(here \o x) = Len(here) + Len(x)
          /\ \A i \in 1..Len(x) : (here \o x)[Len(here) + i] = x[i]
        <3>1. JoinsTo(here \o x, here, x, Len(x))
            BY <1>1, JoinedTo
        <3>2. QED
            BY <3>1 DEF JoinsTo
    <2>2. /\ Len(here \o y) = Len(here) + Len(y)
          /\ \A i \in 1..Len(y) : (here \o y)[Len(here) + i] = y[i]
        <3>1. JoinsTo(here \o y, here, y, Len(y))
            BY <1>1, JoinedTo
        <3>2. QED
            BY <3>1 DEF JoinsTo
    <2>3. Len(x) = Len(y) /\ Len(p) = Len(q)
        BY <1>1, <1>2, <2>1, <2>2
    <2>4. QED
        BY <1>2, <2>1, <2>2, <2>3
<1>4. \A i \in 1..(Len(p) - Len(t)) : p[Len(t) + i] = q[Len(t) + i]
    <2>1. /\ \A i \in 1..(Len(p) - Len(t)) : x[i] = p[Len(t) + i]
          /\ \A i \in 1..(Len(q) - Len(t)) : y[i] = q[Len(t) + i]
        BY PrefixIs DEF x, y
    <2>2. QED
        BY <1>1, <1>3, <2>1
<1>5. \A i \in 1..Len(t) : p[i] = q[i]
    BY PrefixIs
<1>6. ASSUME NEW i \in 1..Len(p) PROVE p[i] = q[i]
    <2>1. CASE i <= Len(t)
        BY <1>1, <1>5, <2>1
    <2>2. CASE ~(i <= Len(t))
        <3>1. i - Len(t) \in 1..(Len(p) - Len(t)) /\ Len(t) + (i - Len(t)) = i
            BY <1>1, <2>2
        <3>2. QED
            BY <1>4, <3>1
    <2>3. QED
        BY <2>1, <2>2
<1>7. QED
    BY <1>3, <1>6, SameSeq

\* A folder in a folder that is below r is below r.
LEMMA InFolder ==
    ASSUME NEW r \in Segments, NEW q \in Segments \ {<<>>}, IsPrefix(r, Front(q)),
           NEW here \in Segments
    PROVE  /\ IsPrefix(r, q)
           /\ Append(here \o Below(r, Front(q)), Last(q)) = here \o Below(r, q)
<1> DEFINE t == Front(q)
           n == Last(q)
<1>1. /\ t \in Segments /\ n \in FileName /\ Len(q) = Len(t) + 1 /\ Len(q) \in Nat
      /\ \A i \in 1..Len(t) : t[i] = q[i]
      /\ n = q[Len(q)]
    <2>1. Len(q) \in Nat \ {0}
        BY DEF Segments
    <2>2. t = SubSeq(q, 1, Len(q) - 1) /\ n = q[Len(q)]
        BY DEF Front, Last
    <2>3. 1 \in 1..(Len(q) + 1) /\ Len(q) - 1 \in 0..Len(q) /\ 1 <= (Len(q) - 1) + 1
          /\ (Len(q) - 1) - 1 + 1 = Len(q) - 1 /\ \A i \in Int : i + 1 - 1 = i
        BY <2>1
    <2>4. /\ t \in Segments /\ Len(t) = Len(q) - 1
          /\ \A i \in 1..(Len(q) - 1) : t[i] = q[i]
        BY <2>2, <2>3, PartIs
    <2>5. n \in FileName
        BY LastIsName
    <2>6. QED
        BY <2>1, <2>2, <2>4, <2>5
<1> HIDE DEF t, n
<1>2. IsPrefix(r, t)
    BY DEF t
<1>3. /\ Len(r) <= Len(t) /\ Len(r) \in Nat /\ Len(t) \in Nat
      /\ \A i \in 1..Len(r) : r[i] = t[i]
      /\ Below(r, t) \in Segments /\ Len(Below(r, t)) = Len(t) - Len(r)
      /\ \A i \in 1..(Len(t) - Len(r)) : Below(r, t)[i] = t[Len(r) + i]
    BY <1>1, <1>2, PrefixIs
<1>4. IsPrefix(r, q)
    <2>1. \A i \in 1..Len(r) : r[i] = q[i]
        BY <1>1, <1>3
    <2>2. Len(r) <= Len(q)
        BY <1>1, <1>3
    <2>3. /\ SubSeq(r, 1, Len(r)) \in Segments /\ Len(SubSeq(r, 1, Len(r))) = Len(r)
          /\ \A i \in 1..Len(r) : SubSeq(r, 1, Len(r))[i] = r[i]
        <3>1. 1 \in 1..(Len(r) + 1) /\ Len(r) \in 0..Len(r) /\ 1 <= Len(r) + 1
              /\ Len(r) - 1 + 1 = Len(r) /\ \A i \in Int : i + 1 - 1 = i
            BY <1>3
        <3>2. QED
            BY <3>1, PartIs
    <2>4. /\ SubSeq(q, 1, Len(r)) \in Segments /\ Len(SubSeq(q, 1, Len(r))) = Len(r)
          /\ \A i \in 1..Len(r) : SubSeq(q, 1, Len(r))[i] = q[i]
        <3>1. 1 \in 1..(Len(q) + 1) /\ Len(r) \in 0..Len(q) /\ 1 <= Len(r) + 1
              /\ Len(r) - 1 + 1 = Len(r) /\ \A i \in Int : i + 1 - 1 = i
            BY <1>1, <1>3
        <3>2. QED
            BY <3>1, PartIs
    <2>5. SubSeq(r, 1, Len(r)) = SubSeq(q, 1, Len(r))
        BY <2>1, <2>3, <2>4, SameSeq
    <2>6. QED
        BY <2>2, <2>5 DEF IsPrefix
<1>5. Append(here \o Below(r, t), n) = here \o Below(r, q)
    <2> DEFINE u == here \o Below(r, t)
               v == here \o Below(r, q)
    <2>1. /\ Below(r, q) \in Segments /\ Len(Below(r, q)) = Len(q) - Len(r)
          /\ \A i \in 1..(Len(q) - Len(r)) : Below(r, q)[i] = q[Len(r) + i]
        BY <1>4, PrefixIs
    <2>2. /\ u \in Segments /\ Len(u) = Len(here) + (Len(t) - Len(r)) /\ Len(here) \in Nat
          /\ \A i \in 1..(Len(here) + (Len(t) - Len(r))) :
                u[i] = IF i <= Len(here) THEN here[i] ELSE Below(r, t)[i - Len(here)]
        <3>1. JoinsTo(u, here, Below(r, t), Len(t) - Len(r))
            BY <1>3, JoinedTo
        <3>2. QED
            BY <3>1 DEF JoinsTo
    <2>3. /\ v \in Segments /\ Len(v) = Len(here) + (Len(q) - Len(r)) /\ Len(here) \in Nat
          /\ \A i \in 1..(Len(here) + (Len(q) - Len(r))) :
                v[i] = IF i <= Len(here) THEN here[i] ELSE Below(r, q)[i - Len(here)]
        <3>1. JoinsTo(v, here, Below(r, q), Len(q) - Len(r))
            BY <2>1, JoinedTo
        <3>2. QED
            BY <3>1 DEF JoinsTo
    <2> HIDE DEF u, v
    <2>4. /\ Append(u, n) \in Segments /\ Len(Append(u, n)) = Len(u) + 1
          /\ \A i \in 1..Len(u) : Append(u, n)[i] = u[i]
          /\ Append(u, n)[Len(u) + 1] = n
        BY <1>1, <2>2, OneMoreIs
    <2>5. Len(Append(u, n)) = Len(v)
        BY <1>1, <1>3, <2>2, <2>3, <2>4
    <2>6. ASSUME NEW i \in 1..Len(v) PROVE Append(u, n)[i] = v[i]
        <3>1. CASE i <= Len(here)
            <4>1. i \in 1..Len(u) /\ i \in 1..(Len(here) + (Len(t) - Len(r)))
                  /\ i \in 1..(Len(here) + (Len(q) - Len(r)))
                BY <1>1, <1>3, <2>2, <2>3, <3>1
            <4>2. QED
                BY <2>2, <2>3, <2>4, <3>1, <4>1
        <3>2. CASE ~(i <= Len(here)) /\ i <= Len(u)
            <4>1. /\ i \in 1..Len(u) /\ i \in 1..(Len(here) + (Len(t) - Len(r)))
                  /\ i \in 1..(Len(here) + (Len(q) - Len(r)))
                  /\ i - Len(here) \in 1..(Len(t) - Len(r))
                  /\ i - Len(here) \in 1..(Len(q) - Len(r))
                  /\ Len(r) + (i - Len(here)) \in 1..Len(t)
                BY <1>1, <1>3, <2>2, <2>3, <3>2
            <4>2. Append(u, n)[i] = Below(r, t)[i - Len(here)]
                BY <2>2, <2>4, <3>2, <4>1
            <4>3. v[i] = Below(r, q)[i - Len(here)]
                BY <2>3, <3>2, <4>1
            <4>4. Below(r, t)[i - Len(here)] = t[Len(r) + (i - Len(here))]
                BY <1>3, <4>1
            <4>5. Below(r, q)[i - Len(here)] = q[Len(r) + (i - Len(here))]
                BY <2>1, <4>1
            <4>6. QED
                BY <1>1, <4>1, <4>2, <4>3, <4>4, <4>5
        <3>3. CASE i = Len(u) + 1
            <4>1. /\ ~(i <= Len(here)) /\ i - Len(here) \in 1..(Len(q) - Len(r))
                  /\ i \in 1..(Len(here) + (Len(q) - Len(r)))
                  /\ Len(r) + (i - Len(here)) = Len(q)
                BY <1>1, <1>3, <2>2, <2>3, <3>3
            <4>2. v[i] = Below(r, q)[i - Len(here)]
                BY <2>3, <4>1
            <4>3. Below(r, q)[i - Len(here)] = q[Len(r) + (i - Len(here))]
                BY <2>1, <4>1
            <4>4. QED
                BY <1>1, <2>4, <3>3, <4>1, <4>2, <4>3
        <3>4. i <= Len(u) \/ i = Len(u) + 1
            <4>1. Len(u) \in Nat /\ Len(v) = Len(u) + 1
                BY <1>1, <1>3, <2>2, <2>3
            <4>2. QED
                BY <4>1
        <3>5. QED
            BY <3>1, <3>2, <3>3, <3>4
    <2>7. Append(u, n) = v
        BY <2>3, <2>4, <2>5, <2>6, SameSeq
    <2>8. QED
        BY <2>7 DEF u, v
<1>6. QED
    BY <1>4, <1>5 DEF t, n

\* A path that leads on from a folder leads through one in it.
LEMMA Through ==
    ASSUME NEW t \in Segments, NEW d \in Segments, IsPrefix(t, d), t # d,
           NEW q, q = SubSeq(d, 1, Len(t) + 1)
    PROVE  /\ q \in Segments \ {<<>>} /\ q \in Prefixes(d) /\ Front(q) = t
           /\ IsPrefix(q, d)
<1>1. /\ Len(t) <= Len(d) /\ Len(t) \in Nat /\ Len(d) \in Nat
      /\ \A i \in 1..Len(t) : t[i] = d[i]
    BY PrefixIs
<1>2. Len(t) < Len(d)
    <2>1. Len(t) = Len(d) => t = d
        BY <1>1, SameSeq
    <2>2. QED
        BY <1>1, <2>1
<1>3. /\ q \in Segments /\ Len(q) = Len(t) + 1
      /\ \A i \in 1..(Len(t) + 1) : q[i] = d[i]
    <2>1. 1 \in 1..(Len(d) + 1) /\ Len(t) + 1 \in 0..Len(d) /\ 1 <= (Len(t) + 1) + 1
          /\ (Len(t) + 1) - 1 + 1 = Len(t) + 1 /\ \A i \in Int : i + 1 - 1 = i
        BY <1>1, <1>2
    <2>2. QED
        BY <2>1, PartIs
<1>4. q # <<>>
    BY <1>1, <1>3
<1>5. q \in Prefixes(d)
    <2>1. Len(t) + 1 \in 0..Len(d)
        BY <1>1, <1>2
    <2>2. QED
        BY <2>1 DEF Prefixes
<1>6. Front(q) = t
    <2>1. Len(t) \in 0..Len(q)
        BY <1>1, <1>3
    <2>2. /\ SubSeq(q, 1, Len(t)) \in Segments /\ Len(SubSeq(q, 1, Len(t))) = Len(t)
          /\ \A i \in 1..Len(t) : SubSeq(q, 1, Len(t))[i] = q[i]
        BY <1>3, <2>1, FirstIs
    <2>3. \A i \in 1..Len(t) : SubSeq(q, 1, Len(t))[i] = t[i]
        BY <1>1, <1>3, <2>2
    <2>4. SubSeq(q, 1, Len(t)) = t
        BY <2>2, <2>3, SameSeq
    <2>5. Len(q) - 1 = Len(t)
        BY <1>1, <1>3
    <2>6. QED
        BY <2>4, <2>5 DEF Front
<1>7. IsPrefix(q, d)
    <2>1. /\ SubSeq(q, 1, Len(q)) \in Segments /\ Len(SubSeq(q, 1, Len(q))) = Len(q)
          /\ \A i \in 1..Len(q) : SubSeq(q, 1, Len(q))[i] = q[i]
        <3>1. Len(q) \in 0..Len(q)
            BY <1>1, <1>3
        <3>2. QED
            BY <1>3, <3>1, FirstIs
    <2>2. SubSeq(q, 1, Len(q)) = q
        BY <1>3, <2>1, SameSeq
    <2>3. SubSeq(d, 1, Len(q)) = q
        BY <1>3
    <2>4. QED
        BY <1>1, <1>2, <1>3, <2>2, <2>3 DEF IsPrefix
<1>8. QED
    BY <1>3, <1>4, <1>5, <1>6, <1>7

\* What is below a folder, with what leads there, is below the folder on the way.
LEMMA BelowThrough ==
    ASSUME NEW t \in Segments, NEW d \in Segments, NEW q \in Segments \ {<<>>}, Front(q) = t,
           IsPrefix(t, d), IsPrefix(q, d), NEW here \in Segments
    PROVE  here \o Below(t, d) = Append(here, Last(q)) \o Below(q, d)
<1> DEFINE u == here \o Below(t, d)
           v == Append(here, Last(q)) \o Below(q, d)
           n == Last(q)
<1>1. /\ Below(t, d) \in Segments /\ Len(Below(t, d)) = Len(d) - Len(t)
      /\ \A i \in 1..(Len(d) - Len(t)) : Below(t, d)[i] = d[Len(t) + i]
      /\ Len(t) \in Nat /\ Len(d) \in Nat /\ Len(t) <= Len(d)
    BY PrefixIs
<1>2. /\ Below(q, d) \in Segments /\ Len(Below(q, d)) = Len(d) - Len(q)
      /\ \A i \in 1..(Len(d) - Len(q)) : Below(q, d)[i] = d[Len(q) + i]
      /\ Len(q) \in Nat /\ Len(q) <= Len(d)
      /\ \A i \in 1..Len(q) : q[i] = d[i]
    BY PrefixIs
<1>3. n \in FileName /\ n = q[Len(q)] /\ Len(q) = Len(t) + 1
    <2>1. Len(q) # 0
        BY <1>2 DEF Segments
    <2>2. Len(q) - 1 \in 0..Len(q) /\ 1 \in 1..(Len(q) + 1) /\ 1 <= (Len(q) - 1) + 1
          /\ (Len(q) - 1) - 1 + 1 = Len(q) - 1
        BY <1>2, <2>1
    <2>3. Len(SubSeq(q, 1, Len(q) - 1)) = Len(q) - 1
        BY <2>2, PartIs
    <2>4. Len(t) = Len(q) - 1
        BY <2>3 DEF Front
    <2>5. QED
        BY <1>1, <1>2, <2>4, LastIsName DEF Last
<1> HIDE DEF n
<1>4. /\ u \in Segments /\ Len(u) = Len(here) + (Len(d) - Len(t)) /\ Len(here) \in Nat
      /\ \A i \in 1..(Len(here) + (Len(d) - Len(t))) :
            u[i] = IF i <= Len(here) THEN here[i] ELSE Below(t, d)[i - Len(here)]
    <2>1. JoinsTo(u, here, Below(t, d), Len(d) - Len(t))
        BY <1>1, JoinedTo
    <2>2. QED
        BY <2>1 DEF JoinsTo
<1>5. /\ Append(here, n) \in Segments /\ Len(Append(here, n)) = Len(here) + 1
      /\ \A i \in 1..Len(here) : Append(here, n)[i] = here[i]
      /\ Append(here, n)[Len(here) + 1] = n
    BY <1>3, OneMoreIs
<1>6. /\ v \in Segments /\ Len(v) = (Len(here) + 1) + (Len(d) - Len(q))
      /\ \A i \in 1..((Len(here) + 1) + (Len(d) - Len(q))) :
            v[i] = IF i <= Len(here) + 1 THEN Append(here, n)[i]
                   ELSE Below(q, d)[i - (Len(here) + 1)]
    <2>1. v = Append(here, n) \o Below(q, d)
        BY DEF n
    <2>2. PICK s : s = Append(here, n)
        OBVIOUS
    <2>3. s \in Segments /\ Len(s) = Len(here) + 1 /\ v = s \o Below(q, d)
        BY <1>5, <2>1, <2>2
    <2> HIDE DEF v
    <2>4. /\ v \in Segments /\ Len(v) = Len(s) + (Len(d) - Len(q)) /\ Len(s) \in Nat
          /\ \A i \in 1..(Len(s) + (Len(d) - Len(q))) :
                v[i] = IF i <= Len(s) THEN s[i] ELSE Below(q, d)[i - Len(s)]
        <3>1. JoinsTo(s \o Below(q, d), s, Below(q, d), Len(d) - Len(q))
            BY <1>2, <2>3, JoinedTo
        <3>2. QED
            BY <2>3, <3>1 DEF JoinsTo
    <2>5. QED
        BY <2>2, <2>3, <2>4
<1> HIDE DEF u, v
<1>7. Len(u) = Len(v)
    BY <1>1, <1>2, <1>3, <1>4, <1>6
<1>8. ASSUME NEW i \in 1..Len(u) PROVE u[i] = v[i]
    <2>1. i \in 1..(Len(here) + (Len(d) - Len(t))) /\ i \in 1..((Len(here) + 1) + (Len(d) - Len(q)))
        BY <1>4, <1>6, <1>7
    <2>2. CASE i <= Len(here)
        <3>1. i \in 1..Len(here) /\ i <= Len(here) + 1
            BY <1>4, <2>1, <2>2
        <3>2. QED
            BY <1>4, <1>5, <1>6, <2>1, <2>2, <3>1
    <2>3. CASE i = Len(here) + 1
        <3>1. ~(i <= Len(here)) /\ i - Len(here) = 1 /\ 1 \in 1..(Len(d) - Len(t))
              /\ Len(t) + 1 = Len(q) /\ Len(q) \in 1..Len(q)
            BY <1>1, <1>2, <1>3, <1>4, <2>3
        <3>2. u[i] = d[Len(q)]
            BY <1>1, <1>4, <2>1, <3>1
        <3>3. v[i] = q[Len(q)]
            BY <1>3, <1>4, <1>5, <1>6, <2>1, <2>3
        <3>4. QED
            BY <1>2, <3>1, <3>2, <3>3
    <2>4. CASE i > Len(here) + 1
        <3>1. /\ ~(i <= Len(here)) /\ ~(i <= Len(here) + 1)
              /\ i - Len(here) \in 1..(Len(d) - Len(t))
              /\ i - (Len(here) + 1) \in 1..(Len(d) - Len(q))
              /\ Len(t) + (i - Len(here)) = Len(q) + (i - (Len(here) + 1))
            BY <1>1, <1>2, <1>3, <1>4, <2>1, <2>4
        <3>2. u[i] = d[Len(t) + (i - Len(here))]
            BY <1>1, <1>4, <2>1, <3>1
        <3>3. v[i] = d[Len(q) + (i - (Len(here) + 1))]
            BY <1>2, <1>6, <2>1, <3>1
        <3>4. QED
            BY <3>1, <3>2, <3>3
    <2>5. QED
        BY <1>4, <2>2, <2>3, <2>4
<1>9. u = v
    BY <1>4, <1>6, <1>7, <1>8, SameSeq
<1>10. QED
    BY <1>9 DEF u, v, n

\* Where a file below the folder that is fetched goes.
PlaceHere(cmd, f) == PathOf(cmd.here) \o Below(PathOf(cmd.there), f.dir)

LEMMA PlaceIs ==
    ASSUME RemoteType(tree), NEW cmd, ReadsAs(cmd), cmd.verb = "DownloadAll", NEW g \in tree.files,
           IsPrefix(PathOf(cmd.there), g.dir)
    PROVE  /\ PlaceHere(cmd, g) \in Segments /\ g.name \in FileName /\ g.dir \in Segments
           /\ PlaceHere(cmd, g) \o <<g.name>> = Append(PlaceHere(cmd, g), g.name)
<1>1. PICK there, here, d : there = PathOf(cmd.there) /\ here = PathOf(cmd.here) /\ d = g.dir
    OBVIOUS
<1>2. there \in Segments /\ here \in Segments
    BY <1>1, PathOfWord DEF ReadsAs
<1>3. g.name \in FileName /\ g.dir \in Segments
    BY DEF RemoteType, RemoteFile, Segments
<1>4. Below(there, d) \in Segments
    BY <1>1, <1>2, <1>3, PrefixIs
<1>5. here \o Below(there, d) \in Segments
    BY <1>2, <1>4 DEF Segments
<1>6. PlaceHere(cmd, g) \in Segments
    BY <1>1, <1>5 DEF PlaceHere
<1>7. \A s \in Segments, n \in FileName : s \o <<n>> = Append(s, n)
    BY OneMoreIs
<1>8. QED
    BY <1>3, <1>6, <1>7

\* Two files below it never go to one place.
LEMMA PlacesDiffer ==
    ASSUME RemoteType(tree), NEW cmd, ReadsAs(cmd), cmd.verb = "DownloadAll",
           NEW f \in tree.files, IsPrefix(PathOf(cmd.there), f.dir),
           NEW g \in tree.files, IsPrefix(PathOf(cmd.there), g.dir),
           Append(PlaceHere(cmd, f), f.name) = Append(PlaceHere(cmd, g), g.name)
    PROVE  f = g
<1>1. PICK u, v : u = PlaceHere(cmd, f) /\ v = PlaceHere(cmd, g)
    OBVIOUS
<1>2. /\ u \in Segments /\ f.name \in FileName /\ f.dir \in Segments
      /\ v \in Segments /\ g.name \in FileName /\ g.dir \in Segments
    BY <1>1, PlaceIs
<1>3. Append(u, f.name) = Append(v, g.name)
    BY <1>1
<1>4. \A s \in Segments, n \in FileName : Front(Append(s, n)) = s /\ Last(Append(s, n)) = n
    BY AppendIs
<1>5. u = v /\ f.name = g.name
    <2>1. /\ Front(Append(u, f.name)) = u /\ Last(Append(u, f.name)) = f.name
          /\ Front(Append(v, g.name)) = v /\ Last(Append(v, g.name)) = g.name
        BY <1>2, <1>4
    <2>2. QED
        BY <1>3, <2>1
<1>6. f.dir = g.dir
    <2>1. PICK there, here, d, e : /\ there = PathOf(cmd.there) /\ here = PathOf(cmd.here)
                                   /\ d = f.dir /\ e = g.dir
        OBVIOUS
    <2>2. there \in Segments /\ here \in Segments
        BY <2>1, PathOfWord DEF ReadsAs
    <2>3. here \o Below(there, d) = here \o Below(there, e)
        BY <1>1, <1>5, <2>1 DEF PlaceHere
    <2>4. d \in Segments /\ e \in Segments /\ IsPrefix(there, d) /\ IsPrefix(there, e)
        BY <1>2, <2>1
    <2>5. d = e
        BY <2>2, <2>3, <2>4, SameBelow
    <2>6. QED
        BY <2>1, <2>5
<1>7. QED
    BY <1>5, <1>6 DEF RemoteType

LEMMA AskedBelow ==
    ASSUME RemoteType(tree), NEW cmd, ReadsAs(cmd), cmd.verb = "DownloadAll", NEW a \in Asked(cmd)
    PROVE  \E g \in tree.files : /\ IsPrefix(PathOf(cmd.there), g.dir)
                                 /\ a = Fetched(Append(PlaceHere(cmd, g), g.name), {g.from})
<1>1. PICK g \in Under(PathOf(cmd.there), cmd.recursive) :
          a = Fetched(PathOf(cmd.here) \o Below(PathOf(cmd.there), g.dir) \o <<g.name>>, {g.from})
    BY DEF Asked
<1>2. g \in tree.files /\ IsPrefix(PathOf(cmd.there), g.dir)
    BY <1>1 DEF Under
<1>3. a = Fetched(PlaceHere(cmd, g) \o <<g.name>>, {g.from})
    BY <1>1 DEF PlaceHere
<1>4. PlaceHere(cmd, g) \o <<g.name>> = Append(PlaceHere(cmd, g), g.name)
    BY <1>2, PlaceIs
<1>5. QED
    BY <1>2, <1>3, <1>4

\* A file that is fetched is where it was to be, and no other is written over.
LEMMA FileServed ==
    ASSUME TypeInv, job # None, job.todo # <<>>, NEW cmd, cmd = job.cmd, cmd.verb = "DownloadAll",
           NEW item, item.op = "fetch", item.file \in Fetchable, item.here \in Segments,
           Aligned(cmd, item), fetch(item, item.file, item.here, FALSE), tree' = tree
    PROVE  Served(cmd, item)
<1>1. RemoteType(tree) /\ ReadsAs(cmd)
    BY DEF TypeInv, JobType, Command
<1>2. PICK f, dir, at : f = item.file /\ dir = item.here /\ at = Append(dir, f.name)
    OBVIOUS
<1>3. /\ f \in tree.files /\ f \in Fetchable /\ dir \in Segments
      /\ IsPrefix(PathOf(cmd.there), f.dir) /\ dir = PlaceHere(cmd, f)
      /\ fetch(item, f, dir, FALSE)
    BY <1>2 DEF Aligned, PlaceHere
<1>4. CASE Did(item, Failed(item))
    BY <1>4, FailedServed
<1>5. CASE /\ Did(item, Down(item, at, f.from))
           /\ Has(local', at, f.from)
           /\ \A p, g : Has(local, p, g) => Has(local', p, g) \/ p = at
    <2>1. PICK from, a0 : from = {f.from} /\ a0 = Fetched(at, from)
        OBVIOUS
    <2>2. Settled(Fetched(at, from))'
        BY <1>5, <2>1, FetchedIs
    <2>3. ASSUME NEW a, Serves(cmd, item, a)
          PROVE  Settled(a)'
        <3>1. a = Fetched(at, from)
            BY <1>2, <2>1, <2>3 DEF Serves
        <3>2. QED
            BY <2>2, <3>1 DEF Fetched
    <2>4. ASSUME NEW a \in Asked(cmd), Settled(a)
          PROVE  Settled(a)'
        <3>1. PICK g \in tree.files :
                  /\ IsPrefix(PathOf(cmd.there), g.dir)
                  /\ a = Fetched(Append(PlaceHere(cmd, g), g.name), {g.from})
            BY <1>1, AskedBelow
        <3>2. PICK q, S : q = Append(PlaceHere(cmd, g), g.name) /\ S = {g.from}
            OBVIOUS
        <3>3. a = Fetched(q, S)
            BY <3>1, <3>2
        <3>4. Has(local, q, g.from)
            BY <2>4, <3>2, <3>3, FetchedIs
        <3>5. Has(local', q, g.from)
            <4>1. CASE q = at
                <5>1. Append(PlaceHere(cmd, f), f.name) = Append(PlaceHere(cmd, g), g.name)
                    BY <1>2, <1>3, <3>2, <4>1
                <5>2. f = g
                    BY <1>1, <1>3, <3>1, <5>1, PlacesDiffer
                <5>3. QED
                    BY <1>5, <4>1, <5>2
            <4>2. CASE q # at
                BY <1>5, <3>4, <4>2
            <4>3. QED
                BY <4>1, <4>2
        <3>6. Settled(Fetched(q, S))'
            BY <3>2, <3>5, FetchedIs
        <3>7. QED
            BY <3>3, <3>6 DEF Fetched
    <2>5. PICK o : o = Down(item, at, f.from)
        OBVIOUS
    <2>6. QED
        BY <1>5, <2>3, <2>4, <2>5, DidServed
<1>6. QED
    <2>1. PICK unpack : unpack = FALSE
        OBVIOUS
    <2>2. fetch(item, f, dir, unpack)
        BY <1>3, <2>1
    <2>3. \/ Did(item, Failed(item))
          \/ /\ Did(item, Down(item, Append(dir, f.name), f.from))
             /\ Has(local', Append(dir, f.name), f.from)
             /\ \A p, g : Has(local, p, g) =>
                   \/ Has(local', p, g)
                   \/ p = Append(dir, f.name)
                   \/ /\ unpack /\ f.name.ext = ".zst" /\ p = Append(dir, Packed(f.name, ""))
                      /\ Has(local', p, f.from) \/ Has(local', p, {})
        BY <1>3, <2>2, FetchHas
    <2>4. QED
        BY <1>2, <1>4, <1>5, <2>1, <2>3

LEMMA BelowItself ==
    ASSUME NEW t \in Segments, NEW here \in Segments
    PROVE  here \o Below(t, t) = here
<1>1. Below(t, t) = <<>>
    BY DEF Below, Segments
<1>2. here \o <<>> = here
    BY DEF Segments
<1>3. QED
    BY <1>1, <1>2

\* A folder stands for its files and folders: what is below it is one of these, or
\* below one.
LEMMA FolderServed ==
    ASSUME TypeInv, job # None, job.todo # <<>>, NEW cmd, cmd = job.cmd, cmd.verb = "DownloadAll",
           NEW item, item.op = "dir", item.dir \in Segments, item.here \in Segments,
           Aligned(cmd, item), download_dir(item), tree' = tree
    PROVE  Served(cmd, item)
<1>1. RemoteType(tree) /\ ReadsAs(cmd) /\ JobType(job)
    BY DEF TypeInv, JobType, Command
<1>2. CASE Did(item, Failed(item))
    BY <1>2, FailedServed
<1>3. CASE \E work \in Seq(WorkOf(job.cmd)) :
               Expanded(work) /\ ToSet(work) = FilesOf(item) \cup FoldersOf(job.cmd, item)
    <2>1. PICK t, h, W : /\ t = item.dir /\ h = item.here
                         /\ W = FilesOf(item) \cup FoldersOf(cmd, item)
        OBVIOUS
    <2>2. ToSet(job'.todo) = W \cup ToSet(Tail(job.todo)) /\ job'.done = job.done
        BY <1>1, <1>3, <2>1, ExpandedSet
    <2>3. W \subseteq WorkOf(cmd) /\ local \subseteq local'
        BY <2>1, DownloadDirIs
    <2>4. PICK there, here : there = PathOf(cmd.there) /\ here = PathOf(cmd.here)
        OBVIOUS
    <2>5. /\ there \in Segments /\ here \in Segments /\ t \in Segments /\ h \in Segments
          /\ IsPrefix(there, t) /\ h = here \o Below(there, t)
        BY <1>1, <2>1, <2>4, PathOfWord DEF ReadsAs, Aligned
    <2>6. ASSUME NEW f \in tree.files, f.dir = t, NEW w,
                 w = [op |-> "fetch", file |-> f, here |-> h]
          PROVE  w \in W /\ w.op = "fetch" /\ w.file = f /\ w.here = h /\ Aligned(cmd, w)
        <3>1. w \in W
            BY <2>1, <2>6 DEF FilesOf
        <3>2. w.op = "fetch" /\ w.file = f /\ w.here = h
            BY <2>6
        <3>3. QED
            BY <2>4, <2>5, <2>6, <3>1, <3>2 DEF Aligned
    <2>7. ASSUME NEW q \in tree.folders, cmd.recursive, q # <<>>, Front(q) = t, NEW w,
                 w = [op |-> "dir", dir |-> q, here |-> Append(h, Last(q))]
          PROVE  w \in W /\ w.op = "dir" /\ w.dir = q /\ w.here = Append(h, Last(q))
                 /\ Aligned(cmd, w)
        <3>1. w \in W
            BY <2>1, <2>7 DEF FoldersOf
        <3>2. w.op = "dir" /\ w.dir = q /\ w.here = Append(h, Last(q))
            BY <2>7
        <3>3. q \in Segments \ {<<>>}
            BY <1>1, <2>7 DEF RemoteType
        <3>4. IsPrefix(there, Front(q))
            BY <2>5, <2>7
        <3>5. /\ IsPrefix(there, q)
              /\ Append(here \o Below(there, Front(q)), Last(q)) = here \o Below(there, q)
            BY <2>5, <3>3, <3>4, InFolder
        <3>6. Append(h, Last(q)) = here \o Below(there, q)
            BY <2>5, <2>7, <3>5
        <3>7. QED
            BY <2>4, <3>1, <3>2, <3>5, <3>6 DEF Aligned
    <2>8. ASSUME NEW w \in W
          PROVE  Aligned(cmd, w)
        <3>1. CASE w \in FilesOf(item)
            <4>1. PICK f \in tree.files : /\ f.dir = t
                                          /\ w = [op |-> "fetch", file |-> f, here |-> h]
                BY <2>1, <3>1 DEF FilesOf
            <4>2. QED
                BY <2>6, <4>1
        <3>2. CASE w \in FoldersOf(cmd, item)
            <4>1. PICK q \in tree.folders :
                      /\ cmd.recursive /\ q # <<>> /\ Front(q) = t
                      /\ w = [op |-> "dir", dir |-> q, here |-> Append(h, Last(q))]
                BY <2>1, <3>2 DEF FoldersOf
            <4>2. QED
                BY <2>7, <4>1
        <3>3. QED
            BY <2>1, <3>1, <3>2
    <2>9. ASSUME NEW a, Serves(cmd, item, a)
          PROVE  \E w \in W : Serves(cmd, w, a)
        <3>1. PICK f \in Under(t, cmd.recursive) :
                  a = Fetched(h \o Below(t, f.dir) \o <<f.name>>, {f.from})
            BY <2>1, <2>9 DEF Serves
        <3>2. /\ f \in tree.files /\ IsPrefix(t, f.dir) /\ (cmd.recursive \/ f.dir = t)
              /\ f.dir \in tree.folders /\ f.dir \in Segments /\ f.name \in FileName
            BY <1>1, <3>1 DEF Under, RemoteType, RemoteFile
        <3>3. CASE f.dir = t
            <4>1. h \o Below(t, f.dir) = h
                BY <2>5, <3>3, BelowItself
            <4>2. h \o <<f.name>> = Append(h, f.name)
                BY <2>5, <3>2, OneMoreIs
            <4>3. a = Fetched(Append(h, f.name), {f.from})
                BY <3>1, <4>1, <4>2
            <4>4. PICK w : w = [op |-> "fetch", file |-> f, here |-> h]
                OBVIOUS
            <4>5. w \in W /\ w.op = "fetch" /\ w.file = f /\ w.here = h
                BY <2>6, <3>2, <3>3, <4>4
            <4>6. Serves(cmd, w, a)
                BY <4>3, <4>5 DEF Serves
            <4>7. QED
                BY <4>5, <4>6
        <3>4. CASE f.dir # t
            <4>1. PICK d, q : d = f.dir /\ q = SubSeq(d, 1, Len(t) + 1)
                OBVIOUS
            <4>2. d \in Segments /\ IsPrefix(t, d) /\ t # d /\ d \in tree.folders
                BY <3>2, <3>4, <4>1
            <4>3. /\ q \in Segments \ {<<>>} /\ q \in Prefixes(d) /\ Front(q) = t
                  /\ IsPrefix(q, d)
                BY <2>5, <4>1, <4>2, Through
            <4>4. q \in tree.folders
                BY <1>1, <4>2, <4>3 DEF RemoteType
            <4>5. h \o Below(t, d) = Append(h, Last(q)) \o Below(q, d)
                <5>1. /\ t \in Segments /\ d \in Segments /\ q \in Segments \ {<<>>}
                      /\ Front(q) = t /\ IsPrefix(t, d) /\ IsPrefix(q, d) /\ h \in Segments
                    BY <2>5, <4>2, <4>3
                <5>2. QED
                    BY <5>1, BelowThrough
            <4>6. PICK w : w = [op |-> "dir", dir |-> q, here |-> Append(h, Last(q))]
                OBVIOUS
            <4>7. w \in W /\ w.op = "dir" /\ w.dir = q /\ w.here = Append(h, Last(q))
                BY <2>7, <3>2, <3>4, <4>3, <4>4, <4>6
            <4>8. f \in Under(w.dir, cmd.recursive)
                BY <3>2, <3>4, <4>1, <4>3, <4>7 DEF Under
            <4>9. a = Fetched(w.here \o Below(w.dir, f.dir) \o <<f.name>>, {f.from})
                BY <3>1, <4>1, <4>5, <4>7
            <4>10. Serves(cmd, w, a)
                BY <4>7, <4>8, <4>9 DEF Serves
            <4>11. QED
                BY <4>7, <4>10
        <3>5. QED
            BY <3>3, <3>4
    <2>10. \A w \in W : Aligned(cmd, w)' /\ \A a : Serves(cmd, w, a) => Serves(cmd, w, a)'
        <3>1. ~IsUpload(cmd)
            BY DEF IsUpload
        <3>2. QED
            BY <1>1, <2>3, <2>8, <3>1, SameMeaning
    <2>11. \A a : Settled(a) => Settled(a)'
        BY <2>3, SettledStays
    <2>12. QED
        BY <2>2, <2>9, <2>10, <2>11 DEF Served
<1>4. QED
    BY <1>2, <1>3, DownloadDirIs

\* Whatever the item, a step serves what it was for.
LEMMA StepServed ==
    ASSUME TypeInv, Step, NEW cmd, cmd = job.cmd, NEW item, item = Head(job.todo),
           Aligned(cmd, item)
    PROVE  Served(cmd, item)
<1>1. job # None /\ job.todo # <<>> /\ ReadsAs(cmd) /\ item \in WorkOf(cmd)
    <2>1. job # None /\ job.todo # <<>>
        BY DEF Step
    <2>2. ReadsAs(cmd) /\ job.todo \in Seq(WorkOf(cmd))
        BY <2>1 DEF TypeInv, JobType, Command
    <2>3. QED
        BY <2>1, <2>2
<1>2. \/ item.op = "word" /\ upload_one(item) /\ UNCHANGED local
      \/ item.op = "walk" /\ upload_walk_entry(item) /\ UNCHANGED local
      \/ item.op = "bundle" /\ upload_bundle(item) /\ UNCHANGED local
      \/ item.op = "get" /\ download_one(item) /\ UNCHANGED <<tree, past>>
      \/ item.op = "glob" /\ expand_remote_glob(item) /\ UNCHANGED <<tree, past, local>>
      \/ item.op = "dir" /\ download_dir(item) /\ UNCHANGED <<tree, past>>
      \/ /\ item.op = "fetch" /\ fetch(item, item.file, item.here, FALSE)
         /\ UNCHANGED <<tree, past>>
    BY DEF Step
<1>3. CASE item.op = "word" /\ upload_one(item) /\ UNCHANGED local
    <2>1. cmd.verb = "Upload" /\ item.tok \in WordToken
        BY <1>1, <1>3, WorkIs
    <2>2. PICK asks : asks = AskedOfWord(cmd, item.tok.path)
        OBVIOUS
    <2>3. UploadDone(item, asks)
        BY <1>1, <1>3, <2>1, <2>2, UploadOneIs
    <2>4. \A a : Serves(cmd, item, a) => a \in asks
        BY <1>3, <2>2 DEF Serves
    <2>5. QED
        BY <1>1, <1>3, <2>3, <2>4, UploadServed
<1>4. CASE item.op = "walk" /\ upload_walk_entry(item) /\ UNCHANGED local
    <2>1. cmd.verb = "SaveAll" /\ item.file \in LocalBelow(PathOf(cmd.here))
        BY <1>1, <1>4, WorkIs
    <2>2. PICK asks : asks = {Place(PathOf(cmd.there) \o Front(Below(PathOf(cmd.here),
                                                                      item.file.path)),
                                    item.file.from)}
        OBVIOUS
    <2>3. UploadDone(item, asks)
        BY <1>1, <1>4, <2>1, <2>2, UploadWalkIs
    <2>4. \A a : Serves(cmd, item, a) => a \in asks
        BY <1>4, <2>2 DEF Serves
    <2>5. QED
        BY <1>1, <1>4, <2>3, <2>4, UploadServed
<1>5. CASE item.op = "bundle" /\ upload_bundle(item) /\ UNCHANGED local
    <2>1. /\ cmd.verb = "SaveAll"
          /\ item.files \in SUBSET LocalBelow(PathOf(cmd.here)) /\ IsFiniteSet(item.files)
        BY <1>1, <1>5, WorkIs
    <2>2. PICK asks : asks = {Place(PathOf(cmd.there),
                                    {Below(PathOf(cmd.here), f.path) : f \in item.files})}
        OBVIOUS
    <2>3. UploadDone(item, asks)
        BY <1>1, <1>5, <2>1, <2>2, UploadBundleIs
    <2>4. \A a : Serves(cmd, item, a) => a \in asks
        BY <1>5, <2>2 DEF Serves
    <2>5. QED
        BY <1>1, <1>5, <2>3, <2>4, UploadServed
<1>6. CASE item.op = "get" /\ download_one(item) /\ UNCHANGED <<tree, past>>
    <2>1. cmd.verb = "Download" /\ item.tok \in WordToken
        BY <1>1, <1>6, WorkIs
    <2>2. QED
        BY <1>1, <1>6, <2>1, WordServed
<1>7. CASE item.op = "glob" /\ expand_remote_glob(item) /\ UNCHANGED <<tree, past, local>>
    <2>1. cmd.verb = "Download" /\ item.dir \in Segments
        BY <1>1, <1>7, WorkIs
    <2>2. QED
        BY <1>1, <1>7, <2>1, GlobServed
<1>8. CASE item.op = "dir" /\ download_dir(item) /\ UNCHANGED <<tree, past>>
    <2>1. cmd.verb = "DownloadAll" /\ item.dir \in Segments /\ item.here \in Segments
        BY <1>1, <1>8, WorkIs
    <2>2. QED
        BY <1>1, <1>8, <2>1, FolderServed
<1>9. CASE /\ item.op = "fetch" /\ fetch(item, item.file, item.here, FALSE)
           /\ UNCHANGED <<tree, past>>
    <2>1. cmd.verb = "DownloadAll" /\ item.file \in Fetchable /\ item.here \in Segments
        BY <1>1, <1>9, WorkIs
    <2>2. QED
        BY <1>1, <1>9, <2>1, FileServed
<1>10. QED
    BY <1>2, <1>3, <1>4, <1>5, <1>6, <1>7, <1>8, <1>9

\* What there is to do accounts for everything asked for.
Accounts(cmd, todo) ==
    /\ \A item \in ToSet(todo) : Aligned(cmd, item)
    /\ \A a \in Asked(cmd) : Settled(a) \/ \E item \in ToSet(todo) : Serves(cmd, item, a)

LEMMA OneItem ==
    ASSUME NEW x
    PROVE  ToSet(<<x>>) = {x}
BY DEF ToSet

LEMMA FrontAndLast ==
    ASSUME NEW p \in Segments \ {<<>>}
    PROVE  Append(Front(p), Last(p)) = p
<1>1. Len(p) \in Nat \ {0}
    BY DEF Segments
<1>2. Front(p) = SubSeq(p, 1, Len(p) - 1) /\ Last(p) = p[Len(p)]
    BY DEF Front, Last
<1>3. QED
    BY <1>1, <1>2 DEF Segments

LEMMA UploadPlan ==
    ASSUME NEW cmd, Command(cmd), cmd.verb = "Upload", NEW plan \in Plan(cmd)
    PROVE  Accounts(cmd, plan.todo)
<1>1. cmd.files \in Seq(WordToken)
    BY DEF Command, ReadsAs
<1>2. plan.todo = [i \in DOMAIN cmd.files |-> [op |-> "word", tok |-> cmd.files[i]]]
    BY DEF Plan
<1>3. PICK todo : todo = plan.todo
    OBVIOUS
<1>4. DOMAIN todo = DOMAIN cmd.files
      /\ \A i \in DOMAIN todo : todo[i].op = "word" /\ todo[i].tok = cmd.files[i]
    BY <1>2, <1>3
<1>5. \A item \in ToSet(todo) : Aligned(cmd, item)
    BY <1>4 DEF ToSet, Aligned
<1>6. ASSUME NEW a \in Asked(cmd)
      PROVE  \E item \in ToSet(todo) : Serves(cmd, item, a)
    <2>1. PICK tok \in ToSet(cmd.files) : a \in AskedOfWord(cmd, tok.path)
        BY <1>6 DEF Asked
    <2>2. PICK i \in DOMAIN cmd.files : tok = cmd.files[i]
        BY DEF ToSet
    <2>3. todo[i] \in ToSet(todo) /\ todo[i].op = "word" /\ todo[i].tok = tok
        BY <1>4, <2>2 DEF ToSet
    <2>4. Serves(cmd, todo[i], a)
        BY <2>1, <2>3 DEF Serves
    <2>5. QED
        BY <2>3, <2>4
<1>7. QED
    BY <1>3, <1>5, <1>6 DEF Accounts

LEMMA SavePlan ==
    ASSUME LocalType(local), NEW cmd, Command(cmd), cmd.verb = "SaveAll", NEW plan \in Plan(cmd),
           plan.exit = None
    PROVE  Accounts(cmd, plan.todo)
<1> DEFINE found == walk_local(PathOf(cmd.here), cmd.recursive)
<1>1. IsFiniteSet(found)
    BY WalkedAre
<1>2. None # "usage"
    BY TransfersAssumption
<1>3. plan.todo = IF cmd.x /\ found # {} THEN <<[op |-> "bundle", files |-> found]>>
                  ELSE Items("walk", found)
    BY <1>2 DEF Plan
<1>4. Asked(cmd) =
          IF cmd.x /\ found # {}
          THEN {Place(PathOf(cmd.there), {Below(PathOf(cmd.here), f.path) : f \in found})}
          ELSE {Place(PathOf(cmd.there) \o Front(Below(PathOf(cmd.here), f.path)), f.from) :
                   f \in found}
    BY DEF Asked
<1> HIDE DEF found
<1>5. CASE cmd.x /\ found # {}
    <2>1. PICK b : b = [op |-> "bundle", files |-> found]
        OBVIOUS
    <2>2. b.op = "bundle" /\ b.files = found
        BY <2>1
    <2>3. ToSet(plan.todo) = {b}
        BY <1>3, <1>5, <2>1, OneItem
    <2>4. Aligned(cmd, b)
        BY <2>2 DEF Aligned
    <2>5. \A a \in Asked(cmd) : Serves(cmd, b, a)
        BY <1>4, <1>5, <2>2 DEF Serves
    <2>6. QED
        BY <2>3, <2>4, <2>5 DEF Accounts
<1>6. CASE ~(cmd.x /\ found # {})
    <2> DEFINE T == {[op |-> "walk", file |-> f] : f \in found}
    <2>1. ToSet(plan.todo) = T
        <3> DEFINE g == [f \in found |-> [op |-> "walk", file |-> f]]
        <3>1. IsFiniteSet({g[f] : f \in found})
            <4>1. g = [f \in found |-> g[f]]
                OBVIOUS
            <4> HIDE DEF g
            <4>2. QED
                BY <1>1, <4>1, ImageFinite
        <3>2. {g[f] : f \in found} = T
            OBVIOUS
        <3>3. plan.todo = SetToSeq(T)
            BY <1>3, <1>6 DEF Items
        <3> HIDE DEF g, T
        <3>4. QED
            BY <3>1, <3>2, <3>3, ListedSet
    <2>2. ASSUME NEW w \in T
          PROVE  Aligned(cmd, w)
        <3>1. w.op = "walk"
            OBVIOUS
        <3>2. QED
            BY <3>1 DEF Aligned
    <2>3. ASSUME NEW a \in Asked(cmd)
          PROVE  \E w \in T : Serves(cmd, w, a)
        <3>1. PICK f \in found :
                  a = Place(PathOf(cmd.there) \o Front(Below(PathOf(cmd.here), f.path)), f.from)
            BY <1>4, <1>6, <2>3
        <3>2. PICK w : w = [op |-> "walk", file |-> f]
            OBVIOUS
        <3>3. w \in T /\ w.op = "walk" /\ w.file = f
            BY <3>2
        <3>4. Serves(cmd, w, a)
            BY <3>1, <3>3 DEF Serves
        <3>5. QED
            BY <3>3, <3>4
    <2> HIDE DEF T
    <2>4. QED
        BY <2>1, <2>2, <2>3 DEF Accounts
<1>7. QED
    BY <1>5, <1>6

LEMMA GetPlan ==
    ASSUME RemoteType(tree), NEW cmd, Command(cmd), cmd.verb = "Download", NEW plan \in Plan(cmd)
    PROVE  Accounts(cmd, plan.todo)
<1>1. cmd.files \in Seq(WordToken)
    BY DEF Command, ReadsAs
<1> DEFINE of(i) == IF cmd.files[i].path # <<>> /\ Last(cmd.files[i].path) = Star
                    THEN [op |-> "glob", dir |-> Front(cmd.files[i].path)]
                    ELSE [op |-> "get", tok |-> cmd.files[i]]
<1>2. PICK todo : todo = plan.todo /\ todo = [i \in DOMAIN cmd.files |-> of(i)]
    BY DEF Plan
<1>3. ASSUME NEW i \in DOMAIN cmd.files, NEW p, p = cmd.files[i].path
      PROVE  /\ p \in Segments /\ cmd.files[i] \in ToSet(cmd.files)
             /\ todo[i] \in ToSet(todo)
             /\ \/ /\ p # <<>> /\ Last(p) = Star
                   /\ todo[i].op = "glob" /\ todo[i].dir = Front(p)
                \/ /\ p = <<>> \/ Last(p) # Star
                   /\ todo[i].op = "get" /\ todo[i].tok = cmd.files[i]
    <2>1. cmd.files[i] \in WordToken /\ cmd.files[i] \in ToSet(cmd.files)
        BY <1>1 DEF ToSet
    <2>2. p \in Segments
        BY <1>3, <2>1 DEF WordToken, Segments
    <2>3. todo[i] = of(i) /\ todo[i] \in ToSet(todo)
        BY <1>2 DEF ToSet
    <2>4. QED
        BY <1>3, <2>1, <2>2, <2>3
<1> HIDE DEF of
<1>4. ASSUME NEW tok \in ToSet(cmd.files), NEW f \in Named(tok.path), Visible(Append(f.dir, f.name))
      PROVE  f \in Wanted(cmd)
    BY <1>4 DEF Wanted
<1>5. ASSUME NEW item \in ToSet(todo)
      PROVE  Aligned(cmd, item)
    <2>1. PICK i \in DOMAIN cmd.files : item = todo[i]
        BY <1>2 DEF ToSet
    <2>2. PICK p : p = cmd.files[i].path
        OBVIOUS
    <2>3. CASE p # <<>> /\ Last(p) = Star /\ item.op = "glob" /\ item.dir = Front(p)
        <3>1. ASSUME NEW f \in tree.files, f.dir = item.dir, Visible(Append(f.dir, f.name))
              PROVE  f \in Wanted(cmd)
            <4>1. f \in Named(p)
                BY <2>3, <3>1 DEF Named
            <4>2. QED
                BY <1>3, <1>4, <2>2, <3>1, <4>1
        <3>2. QED
            BY <2>3, <3>1 DEF Aligned
    <2>4. CASE item.op = "get" /\ item.tok = cmd.files[i]
        <3>1. ASSUME NEW f \in FoundAt(p), Visible(p)
              PROVE  f \in Wanted(cmd)
            <4>1. p # <<>> /\ f \in tree.files /\ f.dir = Front(p) /\ f.name = Last(p)
                BY DEF FoundAt
            <4>2. p \in Segments
                BY <1>3, <2>2
            <4>3. Append(f.dir, f.name) = p
                BY <4>1, <4>2, FrontAndLast
            <4>4. f \in Named(p)
                BY <4>1 DEF Named
            <4>5. QED
                BY <1>3, <1>4, <2>2, <3>1, <4>3, <4>4
        <3>2. QED
            BY <2>2, <2>4, <3>1 DEF Aligned
    <2>5. QED
        BY <1>3, <2>1, <2>2, <2>3, <2>4
<1>6. ASSUME NEW f \in Wanted(cmd), NEW a, a = FetchedFor(cmd, f)
      PROVE  \E item \in ToSet(todo) : Serves(cmd, item, a)
    <2>1. PICK tok \in ToSet(cmd.files) : f \in Named(tok.path) /\ Visible(Append(f.dir, f.name))
        BY <1>6 DEF Wanted
    <2>2. PICK i \in DOMAIN cmd.files : tok = cmd.files[i]
        BY DEF ToSet
    <2>3. PICK p : p = tok.path
        OBVIOUS
    <2>4. p \in Segments /\ p # <<>> /\ f \in tree.files /\ f.dir = Front(p)
          /\ Last(p) \in {f.name, Star}
        BY <1>3, <2>1, <2>2, <2>3 DEF Named
    <2>5. todo[i] \in ToSet(todo)
        BY <1>3
    <2>6. CASE Last(p) = Star /\ todo[i].op = "glob" /\ todo[i].dir = Front(p)
        <3>1. Serves(cmd, todo[i], a)
            BY <1>6, <2>1, <2>4, <2>6 DEF Serves
        <3>2. QED
            BY <2>5, <3>1
    <2>7. CASE Last(p) # Star /\ todo[i].op = "get" /\ todo[i].tok = tok
        <3>1. f \in FoundAt(p)
            BY <2>4, <2>7 DEF FoundAt
        <3>2. Append(f.dir, f.name) = p
            BY <2>4, <2>7, FrontAndLast
        <3>3. Serves(cmd, todo[i], a)
            BY <1>6, <2>1, <2>3, <2>7, <3>1, <3>2 DEF Serves
        <3>4. QED
            BY <2>5, <3>3
    <2>8. QED
        BY <1>3, <2>2, <2>3, <2>4, <2>6, <2>7
<1>7. ASSUME NEW tok \in ToSet(cmd.files), Visible(tok.path), Named(tok.path) = {}
      PROVE  \E item \in ToSet(todo) : Serves(cmd, item, Nowhere)
    <2>1. PICK i \in DOMAIN cmd.files : tok = cmd.files[i]
        BY DEF ToSet
    <2>2. PICK p, a : p = tok.path /\ a = Nowhere
        OBVIOUS
    <2>3. todo[i] \in ToSet(todo)
        BY <1>3
    <2>4. CASE p # <<>> /\ Last(p) = Star /\ todo[i].op = "glob" /\ todo[i].dir = Front(p)
        <3>1. \A f \in tree.files : f.dir # todo[i].dir
            BY <1>7, <2>2, <2>4 DEF Named
        <3>2. Serves(cmd, todo[i], a)
            BY <2>2, <2>4, <3>1 DEF Serves
        <3>3. QED
            BY <2>2, <2>3, <3>2
    <2>5. CASE todo[i].op = "get" /\ todo[i].tok = tok
        <3>1. FoundAt(p) = {}
            BY <1>7, <2>2 DEF Named, FoundAt
        <3>2. Serves(cmd, todo[i], a)
            BY <1>7, <2>2, <2>5, <3>1 DEF Serves
        <3>3. QED
            BY <2>2, <2>3, <3>2
    <2>6. QED
        BY <1>3, <2>1, <2>2, <2>4, <2>5
<1>8. ASSUME NEW a \in Asked(cmd)
      PROVE  \E item \in ToSet(todo) : Serves(cmd, item, a)
    <2>1. \/ \E f \in Wanted(cmd) : a = FetchedFor(cmd, f)
          \/ \E tok \in ToSet(cmd.files) : /\ a = Nowhere
                                           /\ Visible(tok.path) /\ Named(tok.path) = {}
        BY <1>8 DEF Asked, FetchedFor
    <2>2. QED
        BY <1>6, <1>7, <2>1
<1>9. QED
    BY <1>2, <1>5, <1>8 DEF Accounts

LEMMA FolderPlan ==
    ASSUME NEW cmd, Command(cmd), cmd.verb = "DownloadAll", NEW plan \in Plan(cmd),
           plan.exit = None
    PROVE  Accounts(cmd, plan.todo)
<1>1. PICK there, here : there = PathOf(cmd.there) /\ here = PathOf(cmd.here)
    OBVIOUS
<1>2. there \in Segments /\ here \in Segments
    BY <1>1, PathOfWord DEF Command, ReadsAs
<1>3. PICK w : w = [op |-> "dir", dir |-> there, here |-> here]
    OBVIOUS
<1>4. w.op = "dir" /\ w.dir = there /\ w.here = here
    BY <1>3
<1>5. None # "not_implemented"
    BY TransfersAssumption
<1>6. plan.todo = <<w>>
    BY <1>1, <1>3, <1>5 DEF Plan
<1>7. ToSet(plan.todo) = {w}
    BY <1>6, OneItem
<1>8. Aligned(cmd, w)
    <2>1. IsPrefix(there, there)
        BY <1>2 DEF IsPrefix, Segments
    <2>2. here \o Below(there, there) = here
        BY <1>2, BelowItself
    <2>3. QED
        BY <1>1, <1>4, <2>1, <2>2 DEF Aligned
<1>9. ASSUME NEW a \in Asked(cmd)
      PROVE  Serves(cmd, w, a)
    <2>1. PICK f \in Under(there, cmd.recursive) :
              a = Fetched(here \o Below(there, f.dir) \o <<f.name>>, {f.from})
        BY <1>1 DEF Asked
    <2>2. QED
        BY <1>4, <2>1 DEF Serves
<1>10. QED
    BY <1>7, <1>8, <1>9 DEF Accounts

LEMMA PlanAccounts ==
    ASSUME TypeInv, NEW cmd, Command(cmd), NEW plan \in Plan(cmd), plan.exit = None
    PROVE  Accounts(cmd, plan.todo)
BY UploadPlan, SavePlan, GetPlan, FolderPlan DEF TypeInv, Command, ReadsAs

LEMMA PlanEnds ==
    ASSUME NEW cmd, NEW plan \in Plan(cmd)
    PROVE  plan.exit \in {None, "usage", "not_implemented"}
BY DEF Plan

\* What a job was asked for is there, or served by what is left to do, unless
\* something failed.
Accounted ==
    job # None /\ ~disturbed =>
        /\ job.exit \in {None, "usage", "not_implemented"}
        /\ job.exit = None =>
               /\ job.asked = Asked(job.cmd)
               /\ \A item \in ToSet(job.todo) : Aligned(job.cmd, item)
               /\ \/ Fails(job.done)
                  \/ \A a \in job.asked : \/ Settled(a)
                                          \/ \E item \in ToSet(job.todo) : Serves(job.cmd, item, a)

HonestInv ==
    /\ TypeInv
    /\ job # None => last = None
    /\ Accounted
    /\ ExitIsHonest

LEMMA TodoIsWork ==
    ASSUME TypeInv, job # None
    PROVE  \A item \in ToSet(job.todo) : item \in WorkOf(job.cmd)
<1>1. PICK S, s : S = WorkOf(job.cmd) /\ s = job.todo
    OBVIOUS
<1>2. s \in Seq(S)
    BY <1>1 DEF TypeInv, JobType
<1>3. \A item \in ToSet(s) : item \in S
    BY <1>2 DEF ToSet
<1>4. QED
    BY <1>1, <1>3

LEMMA NothingChanged ==
    ASSUME HonestInv, UNCHANGED <<tree, local, job, last, disturbed>>
    PROVE  Accounted' /\ ExitIsHonest' /\ (job # None => last = None)'
<1>1. \A a : Settled(a)' = Settled(a)
    BY DEF Settled
<1>2. ExitIsHonest'
    BY <1>1 DEF HonestInv, ExitIsHonest
<1>3. (job # None => last = None)'
    BY DEF HonestInv
<1>4. ASSUME job # None, ~disturbed
      PROVE  Accounted'
    <2>1. PICK cmd : cmd = job.cmd
        OBVIOUS
    <2>2. ReadsAs(cmd) /\ job'.cmd = cmd
        BY <1>4, <2>1 DEF HonestInv, TypeInv, JobType, Command
    <2>3. \A item \in ToSet(job.todo) : item \in WorkOf(cmd)
        BY <1>4, <2>1, TodoIsWork DEF HonestInv
    <2>4. /\ Asked(cmd)' = Asked(cmd)
          /\ \A item \in WorkOf(cmd) : /\ Aligned(cmd, item)' = Aligned(cmd, item)
                                       /\ \A a : Serves(cmd, item, a)' = Serves(cmd, item, a)
        BY <2>2, SameMeaning
    <2>5. /\ job.exit \in {None, "usage", "not_implemented"}
          /\ job.exit = None =>
                 /\ job.asked = Asked(cmd)
                 /\ \A item \in ToSet(job.todo) : Aligned(cmd, item)
                 /\ \/ Fails(job.done)
                    \/ \A a \in job.asked : \/ Settled(a)
                                            \/ \E item \in ToSet(job.todo) : Serves(cmd, item, a)
        BY <1>4, <2>1 DEF HonestInv, Accounted
    <2>6. QED
        BY <1>1, <2>1, <2>2, <2>3, <2>4, <2>5 DEF Accounted, Fails
<1>5. QED
    BY <1>2, <1>3, <1>4 DEF Accounted

LEMMA StartAccounts ==
    ASSUME TypeInv, NEW argv \in Argv, Start(argv)
    PROVE  /\ Accounted' /\ ExitIsHonest' /\ (job # None => last = None)'
<1>1. PICK cmd : cmd = Invocation(argv, NoEnv)
    OBVIOUS
<1>2. /\ job = None
      /\ \/ job' = None /\ \E e \in Refusal(cmd) \cup {"usage"} : Ends(cmd, e, {}, {})
         \/ /\ ~IsError(cmd)
            /\ \E plan \in Plan(cmd) :
                  job' = [cmd |-> cmd, todo |-> plan.todo, exit |-> plan.exit,
                          done |-> {}, asked |-> Asked(cmd)]
            /\ last' = None
      /\ UNCHANGED <<tree, local>>
    BY <1>1 DEF Start
<1>3. CASE job' = None /\ \E e \in Refusal(cmd) \cup {"usage"} : Ends(cmd, e, {}, {})
    <2>1. PICK e \in Refusal(cmd) \cup {"usage"} : Ends(cmd, e, {}, {})
        BY <1>3
    <2>2. e # EXIT_OK
        BY DEF Refusal, EXIT_OK
    <2>3. last' = None \/ (last'.done = {} /\ last'.exit = e)
        BY <2>1 DEF Ends
    <2>4. QED
        BY <1>3, <2>2, <2>3 DEF Accounted, ExitIsHonest
<1>4. CASE /\ ~IsError(cmd)
           /\ \E plan \in Plan(cmd) :
                  job' = [cmd |-> cmd, todo |-> plan.todo, exit |-> plan.exit,
                          done |-> {}, asked |-> Asked(cmd)]
           /\ last' = None
    <2>1. Command(cmd) /\ ReadsAs(cmd)
        BY <1>1, <1>4, TransfersAssumption DEF Command
    <2>2. PICK plan \in Plan(cmd) :
              job' = [cmd |-> cmd, todo |-> plan.todo, exit |-> plan.exit,
                      done |-> {}, asked |-> Asked(cmd)]
        BY <1>4
    <2>3. /\ job'.cmd = cmd /\ job'.todo = plan.todo /\ job'.exit = plan.exit
          /\ job'.done = {} /\ job'.asked = Asked(cmd)
        BY <2>2
    <2>4. plan.exit \in {None, "usage", "not_implemented"}
        BY PlanEnds
    <2>5. Asked(cmd)' = Asked(cmd)
        BY <1>2, <2>1, SameMeaning
    <2>6. ASSUME plan.exit = None
          PROVE  /\ \A item \in ToSet(plan.todo) : Aligned(cmd, item)'
                 /\ \A a \in Asked(cmd) : \/ Settled(a)'
                                          \/ \E item \in ToSet(plan.todo) : Serves(cmd, item, a)'
        <3>1. Accounts(cmd, plan.todo)
            BY <2>1, <2>6, PlanAccounts
        <3>2. \A item \in ToSet(plan.todo) : item \in WorkOf(cmd)
            <4>1. PICK S, s : S = WorkOf(cmd) /\ s = plan.todo
                OBVIOUS
            <4>2. s \in Seq(S)
                BY <2>1, <4>1, PlanIs DEF TypeInv
            <4>3. \A item \in ToSet(s) : item \in S
                BY <4>2 DEF ToSet
            <4>4. QED
                BY <4>1, <4>3
        <3>3. \A item \in WorkOf(cmd) : /\ Aligned(cmd, item)' = Aligned(cmd, item)
                                        /\ \A a : Serves(cmd, item, a)' = Serves(cmd, item, a)
            BY <1>2, <2>1, SameMeaning
        <3>4. \A a : Settled(a)' = Settled(a)
            BY <1>2 DEF Settled
        <3>5. QED
            BY <3>1, <3>2, <3>3, <3>4 DEF Accounts
    <2>7. Accounted'
        BY <2>3, <2>4, <2>5, <2>6 DEF Accounted
    <2>8. QED
        BY <1>4, <2>7 DEF ExitIsHonest
<1>5. QED
    BY <1>2, <1>3, <1>4

LEMMA StepAccounts ==
    ASSUME HonestInv, Step
    PROVE  /\ Accounted' /\ ExitIsHonest' /\ (job # None => last = None)'
<1>1. /\ job # None /\ TypeInv /\ last' = last /\ last = None /\ disturbed' = disturbed
      /\ job'.cmd = job.cmd /\ job'.exit = job.exit /\ job'.asked = job.asked
    BY StepIs DEF HonestInv, Goes
<1>2. ExitIsHonest' /\ (job # None => last = None)'
    BY <1>1 DEF ExitIsHonest
<1> SUFFICES ASSUME job' # None, ~disturbed
             PROVE  Accounted'
    BY <1>1, <1>2 DEF Accounted
<1>3. PICK cmd, item, asked : cmd = job.cmd /\ item = Head(job.todo) /\ asked = job.asked
    OBVIOUS
<1>4. job.exit \in {None, "usage", "not_implemented"}
    BY <1>1 DEF HonestInv, Accounted
<1>5. ASSUME job.exit = None
      PROVE  /\ asked = Asked(cmd)'
             /\ \A w \in ToSet(job'.todo) : Aligned(cmd, w)'
             /\ \/ Fails(job'.done)
                \/ \A a \in asked : \/ Settled(a)'
                                    \/ \E w \in ToSet(job'.todo) : Serves(cmd, w, a)'
    <2>1. /\ asked = Asked(cmd)
          /\ \A w \in ToSet(job.todo) : Aligned(cmd, w)
          /\ \/ Fails(job.done)
             \/ \A a \in asked : Settled(a) \/ \E w \in ToSet(job.todo) : Serves(cmd, w, a)
        BY <1>1, <1>3, <1>5 DEF HonestInv, Accounted
    <2>2. ReadsAs(cmd) /\ job.todo \in Seq(WorkOf(cmd)) /\ job.todo # <<>>
        BY <1>1, <1>3 DEF TypeInv, JobType, Command, Step
    <2>3. ToSet(job.todo) = {item} \cup ToSet(Tail(job.todo))
        <3>1. PICK S, s : S = WorkOf(cmd) /\ s = job.todo
            OBVIOUS
        <3>2. s \in Seq(S) /\ s # <<>>
            BY <2>2, <3>1
        <3>3. ToSet(s) = {Head(s)} \cup ToSet(Tail(s))
            BY <3>2, HeadAndTail
        <3>4. QED
            BY <1>3, <3>1, <3>3
    <2>4. Served(cmd, item)
        BY <1>1, <1>3, <2>1, <2>3, StepServed
    <2>5. PICK W : /\ ToSet(job'.todo) = W \cup ToSet(Tail(job.todo))
                   /\ job.done \subseteq job'.done
                   /\ \A w \in W : Aligned(cmd, w)'
                   /\ \/ Fails(job'.done)
                      \/ /\ \A a : Serves(cmd, item, a) =>
                                       Settled(a)' \/ \E w \in W : Serves(cmd, w, a)'
                         /\ \A a \in Asked(cmd) : Settled(a) => Settled(a)'
        BY <2>4 DEF Served
    <2>6. /\ IsUpload(cmd) => local' = local
          /\ ~IsUpload(cmd) => tree' = tree
        <3>1. item \in WorkOf(cmd)
            BY <1>3, <2>2
        <3>2. \/ item.op \in {"word", "walk", "bundle"} /\ UNCHANGED local
              \/ item.op \in {"get", "glob", "dir", "fetch"} /\ UNCHANGED tree
            BY <1>3 DEF Step
        <3>3. QED
            BY <2>2, <3>1, <3>2, WorkIs DEF IsUpload
    <2>7. /\ Asked(cmd)' = Asked(cmd)
          /\ \A w \in WorkOf(cmd) : /\ Aligned(cmd, w)' = Aligned(cmd, w)
                                    /\ \A a : Serves(cmd, w, a)' = Serves(cmd, w, a)
        BY <2>2, <2>6, SameMeaning
    <2>8. \A w \in ToSet(Tail(job.todo)) : w \in WorkOf(cmd)
        BY <1>1, <1>3, <2>3, TodoIsWork
    <2>9. \A w \in ToSet(job'.todo) : Aligned(cmd, w)'
        BY <2>1, <2>3, <2>5, <2>7, <2>8
    <2>10. CASE Fails(job'.done) \/ Fails(job.done)
        BY <2>1, <2>5, <2>7, <2>9, <2>10 DEF Fails
    <2>11. CASE ~Fails(job'.done) /\ ~Fails(job.done)
        <3>1. ASSUME NEW a \in asked
              PROVE  Settled(a)' \/ \E w \in ToSet(job'.todo) : Serves(cmd, w, a)'
            <4>1. CASE Settled(a)
                BY <2>1, <2>5, <2>11, <4>1
            <4>2. CASE Serves(cmd, item, a)
                BY <2>5, <2>11, <4>2
            <4>3. CASE \E w \in ToSet(Tail(job.todo)) : Serves(cmd, w, a)
                BY <2>5, <2>7, <2>8, <4>3
            <4>4. QED
                BY <2>1, <2>3, <2>11, <4>1, <4>2, <4>3
        <3>2. QED
            BY <2>1, <2>7, <2>9, <3>1
    <2>12. QED
        BY <2>10, <2>11
<1>6. QED
    BY <1>1, <1>3, <1>4, <1>5 DEF Accounted

LEMMA FinishHonest ==
    ASSUME HonestInv, Finish
    PROVE  /\ Accounted' /\ ExitIsHonest' /\ (job # None => last = None)'
<1>1. /\ job # None /\ job.todo = <<>> /\ job' = None /\ tree' = tree /\ local' = local
      /\ Ends(job.cmd, IF job.exit # None THEN job.exit ELSE exit_code(job.done),
              job.done, job.asked)
    BY DEF Finish
<1>2. PICK exit : exit = IF job.exit # None THEN job.exit ELSE exit_code(job.done)
    OBVIOUS
<1>3. \/ last' = None
      \/ /\ ~disturbed
         /\ last'.exit = exit /\ last'.done = job.done /\ last'.asked = job.asked
    BY <1>1, <1>2 DEF Ends
<1>4. ASSUME ~disturbed
      PROVE  /\ exit = EXIT_OK => \A a \in job.asked : Settled(a)
             /\ exit = "provider" => Fails(job.done)
    <2>1. CASE job.exit # None
        BY <1>1, <1>2, <1>4, <2>1 DEF HonestInv, Accounted, EXIT_OK
    <2>2. CASE job.exit = None
        <3>1. exit = exit_code(job.done)
            BY <1>2, <2>2
        <3>2. ToSet(job.todo) = {}
            BY <1>1 DEF ToSet
        <3>3. Fails(job.done) \/ \A a \in job.asked : Settled(a)
            BY <1>1, <1>4, <2>2, <3>2 DEF HonestInv, Accounted
        <3>4. QED
            BY <3>1, <3>3 DEF exit_code, Fails, EXIT_OK
    <2>3. QED
        BY <2>1, <2>2
<1>5. \A a : Settled(a)' = Settled(a)
    BY <1>1 DEF Settled
<1>6. ExitIsHonest'
    BY <1>3, <1>4, <1>5 DEF ExitIsHonest, Fails
<1>7. QED
    BY <1>1, <1>6 DEF Accounted

LEMMA NextHonest ==
    ASSUME HonestInv, [Next]_vars
    PROVE  HonestInv'
<1>1. TypeInv'
    BY NextType DEF HonestInv
<1>2. CASE (Idle /\ Complete) \/ (Idle /\ Session) \/ (Tick /\ UNCHANGED jobVars)
           \/ UNCHANGED vars
    <2>1. UNCHANGED <<tree, local, job, last, disturbed>>
        BY <1>2, CompleteIs DEF Idle, Session, Tick, jobVars, vars, listingVars
    <2>2. QED
        BY <1>1, <2>1, NothingChanged DEF HonestInv
<1>3. CASE Other
    <2>1. last' = None /\ job' = job /\ disturbed' = (job # None)
        BY <1>3 DEF Other
    <2>2. QED
        BY <1>1, <2>1 DEF HonestInv, Accounted, ExitIsHonest
<1>4. CASE \E argv \in Argv : Start(argv)
    BY <1>1, <1>4, StartAccounts DEF HonestInv
<1>5. CASE Step
    BY <1>1, <1>5, StepAccounts DEF HonestInv
<1>6. CASE Finish
    BY <1>1, <1>6, FinishHonest DEF HonestInv
<1>7. CASE Kill
    <2>1. job' = None /\ last' = last /\ last = None
        BY <1>7 DEF Kill, HonestInv
    <2>2. QED
        BY <1>1, <2>1 DEF HonestInv, Accounted, ExitIsHonest
<1>8. QED
    BY <1>2, <1>3, <1>4, <1>5, <1>6, <1>7 DEF Next

\* A command that says ok has put everything it was asked for where it was to go, and
\* one that reports the provider after it did something has a failure on record.
THEOREM ExitCodesAreHonest == Spec => []ExitIsHonest
<1>1. Init => HonestInv
    <2>1. Init => Accounted /\ ExitIsHonest /\ job = None
        BY DEF Init, InitJob, Accounted, ExitIsHonest
    <2>2. QED
        BY <2>1, InitType DEF HonestInv
<1>2. HonestInv /\ [Next]_vars => HonestInv'
    BY NextHonest
<1>3. HonestInv => ExitIsHonest
    BY DEF HonestInv
<1>4. QED
    BY <1>1, <1>2, <1>3, PTL DEF Spec
===============================================================================
