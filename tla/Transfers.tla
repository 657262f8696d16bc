------------------------------ MODULE Transfers ------------------------------
(***************************************************************************)
(* Uploads and downloads from the command line to the exit code: the       *)
(* session a command needs and what it tells the agent afterwards          *)
(* (src/src/commands/mod.rs), the files it takes (walk.rs, upload.rs,      *)
(* download.rs) and how a batch ends (batch.rs), beside the TABs, sessions *)
(* and other devices of RemoteListing.                                     *)
(*                                                                         *)
(* The agent serves one connection at a time and a transfer keeps its own  *)
(* open to the end, so there is one job at a time and no TAB is served and *)
(* no session changes meanwhile.  How one upload finds a free name against *)
(* other writers is RemoteUpload; here it is one step.  What a transfer    *)
(* stages next to its source is gone again within the step.                *)
(***************************************************************************)
EXTENDS RemoteListing

CONSTANTS
    Argv,           \* the command lines given
    Local0,         \* the local files at first: [path, kind, big, from]
    Hidden,         \* names that begin with a dot
    Star,           \* the name that is a glob pattern
    RENAME_TRIES,   \* RENAME_MAX_TRIES
    MAX_JOBS,       \* bound: command lines run
    MayFail         \* whether a request or a file operation may fail

LocalFile == [path : Seq(FileName) \ {<<>>}, kind : {"file", "dir", "link"},
              big : BOOLEAN, from : SUBSET Seq(FileName)]
WordToken == [is : {"word"}, path : Seq(FileName), slash : BOOLEAN]

PathOf(tok) == IF tok = None THEN <<>> ELSE tok.path

IsUpload(cmd) == cmd.verb \in {"Upload", "SaveAll"}
Dest(cmd)     == IF cmd.verb = "Upload" THEN PathOf(cmd.dest) ELSE PathOf(cmd.there)

\* Of a command line: it can be read or not, and if so names files and folders.
ReadsAs(cmd) ==
    /\ cmd.verb \in {"Upload", "SaveAll", "Download", "DownloadAll"}
    /\ cmd.x \in BOOLEAN
    /\ cmd.verb \in {"Upload", "Download"} =>
           cmd.files \in Seq(WordToken) /\ cmd.dest \in WordToken \cup {None}
    /\ cmd.verb \in {"SaveAll", "DownloadAll"} =>
           /\ cmd.recursive \in BOOLEAN
           /\ cmd.here \in WordToken \cup {None}
           /\ cmd.there \in WordToken \cup {None}

ASSUME TransfersAssumption ==
    /\ RENAME_TRIES \in Nat
    /\ "cwd" \in Stem
    /\ None \notin {"usage", "not_implemented"}
    /\ Local0 \subseteq LocalFile /\ IsFiniteSet(Local0)
    /\ \A f \in Local0 : IsFiniteSet(f.from)
    /\ \A argv \in Argv :
          LET cmd == Invocation(argv, NoEnv) IN
          ~IsError(cmd) => ReadsAs(cmd) /\ (IsUpload(cmd) => Dest(cmd) \in Path)

VARIABLES
    local,      \* the local files
    job,        \* the job in progress: what is left to do and what came of the rest
    last,       \* ghost: the last job that ended, until another device interferes
    jobs,       \* ghost: command lines run so far
    disturbed   \* ghost: another device changed something during the job

jobVars == <<local, job, last, jobs, disturbed>>
vars    == <<listingVars, jobVars>>

EXIT_OK == "ok"

-------------------------------------------------------------------------------
(***************************************************************************)
(* Local files.  A path is a sequence of names; contents are told apart by *)
(* the local files they were made of.                                      *)
(***************************************************************************)

IsKind(p, kind) == \E f \in local : f.path = p /\ f.kind = kind
FileAt(p)       == CHOOSE f \in local : f.path = p

IsFolderHere(p) == p = <<>> \/ IsKind(p, "dir")

\* walk_local: the regular files below a folder, no hidden name on the way;
\* links are not followed, so nothing lies below one.
walk_local(dir, recursive) ==
    {f \in local :
        /\ f.kind = "file" /\ Len(f.path) > Len(dir)
        /\ SubSeq(f.path, 1, Len(dir)) = dir
        /\ recursive \/ Len(f.path) = Len(dir) + 1
        /\ \A i \in (Len(dir) + 1)..Len(f.path) : f.path[i] \notin Hidden}

Below(dir, p) == SubSeq(p, Len(dir) + 1, Len(p))

\* split_user_path: a name that begins with a dot hides what lies below.
Visible(path) == \A i \in DOMAIN path : path[i] \notin Hidden

LocalFolder(path) == [path |-> path, kind |-> "dir", big |-> FALSE, from |-> {}]

\* Written over whatever file is there.
Written(files, path, from) ==
    {f \in files : f.path # path} \cup
        {[path |-> path, kind |-> "file", big |-> FALSE, from |-> from]}


-------------------------------------------------------------------------------
(***************************************************************************)
(* One upload: folders first, then a free name for the leaf.               *)
(***************************************************************************)

Taken(dir, leaf) ==
    \/ \E f \in tree.files : f.dir = dir /\ f.name = leaf
    \/ Append(dir, leaf) \in tree.folders

Renamed(leaf, n) == [leaf EXCEPT !.copy = @ + n]

\* fault: the remote file of that name is replaced
FreeLeaf_overwrite(dir, leaf) == leaf

\* CollisionPolicy::Rename, None when the tries run out.
FreeLeaf(dir, leaf) ==
    LET free == {n \in 0..RENAME_TRIES : ~Taken(dir, Renamed(leaf, n))}
    IN  IF free = {} THEN None
        ELSE Renamed(leaf, CHOOSE n \in free : \A m \in free : n <= m)

Stored(t, dir, leaf, from) ==
    [folders |-> t.folders \cup Prefixes(dir),
     files |-> {f \in t.files : ~(f.dir = dir /\ f.name = leaf)}
                   \cup {[dir |-> dir, name |-> leaf, from |-> from]}]

Did(item, outcome) == job' = [job EXCEPT !.todo = Tail(@), !.done = @ \cup {outcome}]

Failed(item)  == [of |-> item, is |-> "fail"]
Skipped(item) == [of |-> item, is |-> "skip"]
Up(item, dir, leaf, from) ==
    [of |-> item, is |-> "up", dir |-> dir, name |-> leaf, from |-> from]
Down(item, path, from) == [of |-> item, is |-> "down", path |-> path, from |-> from]

\* perform_upload: stored and recorded, or recorded as failed after some of the
\* folders were made, or even stored with the reply lost.
perform_upload(item, dir, leaf, from) ==
    LET as == FreeLeaf(dir, leaf) IN
    \/ /\ as # None
       /\ Becomes(Stored(tree, dir, as, from))
       /\ Did(item, Up(item, dir, as, from))
    \/ /\ MayFail \/ as = None
       /\ \/ \E p \in Prefixes(dir) :
                 Becomes([tree EXCEPT !.folders = @ \cup Prefixes(p)])
          \/ as # None /\ Becomes(Stored(tree, dir, as, from))
       /\ Did(item, Failed(item))

\* upload_one: names and kinds of files that are not sent are skipped, what is
\* not there or has no name fails; x packs all but small files.
upload_one(item) ==
    LET p    == item.tok.path
        leaf == Last(p)
        f    == FileAt(p)
        pack == job.cmd.x /\ f.big
        there == \E g \in local : g.path = p
    IN  CASE p # <<>> /\ leaf \in Hidden ->
                Did(item, Skipped(item)) /\ UNCHANGED <<tree, past>>
          [] p = <<>> \/ (leaf \notin Hidden /\ ~there) ->
                Did(item, Failed(item)) /\ UNCHANGED <<tree, past>>
          [] p # <<>> /\ leaf \notin Hidden /\ there /\ f.kind # "file" ->
                Did(item, Skipped(item)) /\ UNCHANGED <<tree, past>>
          [] OTHER ->
                \/ perform_upload(item, PathOf(job.cmd.dest),
                       IF pack THEN Packed(leaf, ".zst") ELSE leaf, f.from)
                \/ /\ pack /\ MayFail       \* read, compressed or staged in vain
                   /\ Did(item, Failed(item))
                   /\ UNCHANGED <<tree, past>>

\* upload_walk_entry: the path below the folder is kept below the destination.
upload_walk_entry(item) ==
    LET rel == Below(PathOf(job.cmd.here), item.file.path) IN
    perform_upload(item, PathOf(job.cmd.there) \o Front(rel), Last(rel),
                   item.file.from)

\* run_save_all_bundle, with the archive made: its paths are relative.
upload_bundle(item) ==
    LET here == PathOf(job.cmd.here)
        name == IF here = <<>> THEN Name("cwd") ELSE Last(here)
    IN  perform_upload(item, PathOf(job.cmd.there), Packed(name, ".tar.zst"),
                       {Below(here, f.path) : f \in item.files})

-------------------------------------------------------------------------------
(***************************************************************************)
(* Downloads.                                                              *)
(***************************************************************************)

\* decompress_alongside: next to what was fetched and over a file of that name,
\* maybe cut short; a bundle only where nothing has its name, maybe in part.  No
\* failure of it is counted in the summary.
Unpacked(files, dir, f) ==
    LET at == Append(dir, Packed(f.name, ""))
        there == {g \in files : g.path = at}
    IN  CASE f.name.ext = ".zst" /\ (\A g \in there : g.kind # "dir") ->
                {files, Written(files, at, f.from), Written(files, at, {})}
          [] f.name.ext = ".tar.zst" /\ there = {} ->
                {files} \cup {files
                    \cup {LocalFolder(at \o q) :
                             q \in {<<>>} \cup UNION {Prefixes(Front(p)) : p \in S}}
                    \cup {[path |-> at \o p, kind |-> "file", big |-> FALSE, from |-> {p}] :
                             p \in S} : S \in SUBSET f.from}
          [] OTHER                -> {files}

\* download: written in place, possibly cut short when it fails; a folder of that
\* name stays.
fetch(item, f, dir, unpack) ==
    LET at    == Append(dir, f.name)
        fails == ~IsFolderHere(dir) \/ IsKind(at, "dir")
    IN
    \/ /\ ~fails
       /\ local' \in IF unpack THEN Unpacked(Written(local, at, f.from), dir, f)
                     ELSE {Written(local, at, f.from)}
       /\ Did(item, Down(item, at, f.from))
    \/ /\ MayFail \/ fails
       /\ local' \in {local} \cup (IF fails THEN {} ELSE {Written(local, at, {})})
       /\ Did(item, Failed(item))

\* download_one: the remote path is looked up as it was typed.
download_one(item) ==
    LET p == item.tok.path
        found == {f \in tree.files : p # <<>> /\ f.dir = Front(p) /\ f.name = Last(p)}
    IN  CASE ~Visible(p) ->
                Did(item, Skipped(item)) /\ UNCHANGED local
          [] Visible(p) /\ found = {} ->
                Did(item, Failed(item)) /\ UNCHANGED local
          [] OTHER ->
                \E f \in found : fetch(item, f, PathOf(job.cmd.dest), job.cmd.x)

\* expand_remote_glob: the files of one folder, none of its folders; the names
\* go back through download_one.
Matches(dir) ==
    {[op |-> "get", tok |-> Word(Append(dir, f.name))] :
        f \in {f \in tree.files : f.dir = dir}}

expand_remote_glob(item) ==
    \/ /\ item.dir \in tree.folders /\ Matches(item.dir) # {}
       /\ job' = [job EXCEPT !.todo = SetToSeq(Matches(item.dir)) \o Tail(@)]
    \/ /\ MayFail \/ item.dir \notin tree.folders \/ Matches(item.dir) = {}
       /\ Did(item, Failed(item))

\* download_dir: lists, makes the local folder, then each entry in turn; a folder
\* is gone into or left out.
download_dir(item) ==
    LET t    == item.dir
        here == item.here
        ofFile(f) == [op |-> "fetch", file |-> f, here |-> here]
        ofDir(q)  == [op |-> "dir", dir |-> q, here |-> Append(here, Last(q))]
        work == SetToSeq({ofFile(f) : f \in {f \in tree.files : f.dir = t}})
                    \o SetToSeq({ofDir(q) : q \in {q \in tree.folders :
                          job.cmd.recursive /\ q # <<>> /\ Front(q) = t}})
    IN  \/ /\ t \in tree.folders
           /\ \A f \in local : f.path = here => f.kind = "dir"
           /\ local' = local \cup (IF IsFolderHere(here) THEN {} ELSE {LocalFolder(here)})
           /\ job' = [job EXCEPT !.todo = work \o Tail(@)]
        \/ /\ MayFail \/ t \notin tree.folders
              \/ \E f \in local : f.path = here /\ f.kind # "dir"
           /\ Did(item, Failed(item))
           /\ UNCHANGED local

-------------------------------------------------------------------------------
(***************************************************************************)
(* A command from its line to its exit code.                               *)
(***************************************************************************)

Items(op, S) == SetToSeq({[op |-> op, file |-> f] : f \in S})

\* What the command goes through, or the exit code it ends with at once.
Plan(cmd) ==
    LET found == walk_local(PathOf(cmd.here), cmd.recursive)
        Work(seq) == [todo |-> seq, exit |-> None]
        Exit(e)   == [todo |-> <<>>, exit |-> e]
    IN  CASE cmd.verb = "Upload" ->
                {Work([i \in DOMAIN cmd.files |-> [op |-> "word", tok |-> cmd.files[i]]])}
          [] cmd.verb = "SaveAll" ->
                (IF ~IsFolderHere(PathOf(cmd.here)) THEN {}
                 ELSE IF cmd.x /\ found # {}
                 THEN {Work(<<[op |-> "bundle", files |-> found]>>)}
                 ELSE {Work(Items("walk", found))})
                \cup (IF MayFail \/ ~IsFolderHere(PathOf(cmd.here))
                       THEN {Exit("usage")} ELSE {})
          [] cmd.verb = "Download" ->
                {Work([i \in DOMAIN cmd.files |->
                    LET p == cmd.files[i].path IN
                    IF p # <<>> /\ Last(p) = Star THEN [op |-> "glob", dir |-> Front(p)]
                    ELSE [op |-> "get", tok |-> cmd.files[i]]])}
          [] OTHER ->
                IF cmd.x THEN {Exit("not_implemented")}
                ELSE {Work(<<[op |-> "dir", dir |-> PathOf(cmd.there),
                              here |-> PathOf(cmd.here)]>>)}

\* Ghost: what has to be somewhere when the command ends well.  A word that names
\* nothing asks for something that is nowhere.
Place(dir, from)  == [there |-> TRUE, dir |-> dir, from |-> {from}]
Fetched(at, from) == [there |-> FALSE, dir |-> at, from |-> from]
Nowhere           == Place(<<>>, {<<>>})

\* A file a word names, and the rest of what it asks for.
AskedOfWord(cmd, p) ==
    LET there == \E f \in local : f.path = p IN
    CASE p = <<>>                              -> {Nowhere}
      [] p # <<>> /\ Last(p) \in Hidden        -> {}
      [] p # <<>> /\ Last(p) \notin Hidden /\ ~there -> {Nowhere}
      [] OTHER -> IF FileAt(p).kind = "file" THEN {Place(PathOf(cmd.dest), FileAt(p).from)}
                  ELSE {}

\* The remote files a word names, of which those with a dot are skipped.
Named(p) ==
    {f \in tree.files : p # <<>> /\ f.dir = Front(p) /\ Last(p) \in {f.name, Star}}

Wanted(cmd) ==
    {f \in UNION {Named(tok.path) : tok \in ToSet(cmd.files)} : Visible(Append(f.dir, f.name))}

\* Two words of one last name end in one local file, and a packed one next to it
\* may be unpacked over it or cut it short.
Rivals(cmd, n) ==
    LET packed == {f \in Wanted(cmd) :
                      cmd.x /\ f.name.ext = ".zst" /\ Packed(f.name, "") = n}
    IN  {f.from : f \in {f \in Wanted(cmd) : f.name = n} \cup packed}
            \cup (IF packed = {} THEN {} ELSE {{}})

\* The remote files at or below a folder.
Under(q, recursive) ==
    {f \in tree.files : IsPrefix(q, f.dir) /\ (recursive \/ f.dir = q)}

Asked(cmd) ==
    LET here  == PathOf(cmd.here)
        there == PathOf(cmd.there)
        found == walk_local(here, cmd.recursive)
    IN  CASE cmd.verb = "Upload" ->
                UNION {AskedOfWord(cmd, tok.path) : tok \in ToSet(cmd.files)}
          [] cmd.verb = "SaveAll" ->
                IF cmd.x /\ found # {}
                THEN {Place(there, {Below(here, f.path) : f \in found})}
                ELSE {Place(there \o Front(Below(here, f.path)), f.from) : f \in found}
          [] cmd.verb = "Download" ->
                {Fetched(Append(PathOf(cmd.dest), f.name), Rivals(cmd, f.name)) :
                    f \in Wanted(cmd)}
                \cup {Nowhere : tok \in {tok \in ToSet(cmd.files) :
                                            Visible(tok.path) /\ Named(tok.path) = {}}}
          [] OTHER ->
                {Fetched(here \o Below(there, f.dir) \o <<f.name>>, {f.from}) :
                    f \in Under(there, cmd.recursive)}

Settled(a) ==
    IF a.there THEN \E f \in tree.files : f.dir = a.dir /\ f.from \in a.from
    ELSE \E f \in local : f.path = a.dir /\ f.from \in a.from

Ends(cmd, exit, done, asked) ==
    last' = IF disturbed THEN None
            ELSE [cmd |-> cmd, exit |-> exit, done |-> done, asked |-> asked]

InitJob ==
    /\ local = Local0
    /\ job = None
    /\ last = None
    /\ jobs = 0
    /\ disturbed = FALSE

Init == InitListing /\ InitJob

Scriptable(cmd) == cmd.flags.output # "text"

\* with_remote: what stands between a command and the provider.
Refusal(cmd) ==
    CASE agent = "absent" \/ agent = "locked" ->
            {IF Scriptable(cmd) THEN "locked" ELSE "unreachable"}
      [] agent = "old" -> {"unreachable"}      \* stopped, and that is all
      [] OTHER -> IF MayFail THEN {"unreachable", "provider"} ELSE {}

Start(argv) ==
    LET cmd == Invocation(argv, NoEnv) IN
    /\ job = None /\ jobs < MAX_JOBS
    /\ jobs' = jobs + 1
    /\ shown' = None
    /\ \/ /\ IsError(cmd)
          /\ Ends(cmd, "usage", {}, {})
          /\ UNCHANGED <<agent, cache, job>>
       \/ /\ ~IsError(cmd)
          /\ \E e \in Refusal(cmd) : Ends(cmd, e, {}, {})
          /\ agent' = IF agent = "old" THEN "absent" ELSE agent
          /\ UNCHANGED <<cache, job>>
       \/ /\ ~IsError(cmd) /\ agent = "unlocked"
          /\ \E plan \in Plan(cmd) :
                job' = [cmd |-> cmd, todo |-> plan.todo, exit |-> plan.exit,
                        done |-> {}, asked |-> Asked(cmd)]
          /\ last' = None
          /\ UNCHANGED <<agent, cache>>
    /\ UNCHANGED <<tree, past, changes, local, disturbed>>

\* The next piece of work.
Step ==
    /\ job # None /\ job.todo # <<>>
    /\ LET item == Head(job.todo) IN
       \/ /\ item.op \in {"word", "walk", "bundle"}
          /\ CASE item.op = "word"   -> upload_one(item)
               [] item.op = "walk"   -> upload_walk_entry(item)
               [] item.op = "bundle" -> upload_bundle(item)
          /\ UNCHANGED local
       \/ /\ item.op = "get"   /\ download_one(item)
          /\ UNCHANGED <<tree, past>>
       \/ /\ item.op = "glob"  /\ expand_remote_glob(item)
          /\ UNCHANGED <<tree, past, local>>
       \/ /\ item.op = "dir"   /\ download_dir(item)
          /\ UNCHANGED <<tree, past>>
       \/ /\ item.op = "fetch" /\ fetch(item, item.file, item.here, FALSE)
          /\ UNCHANGED <<tree, past>>
    /\ UNCHANGED <<agent, cache, shown, changes, last, jobs, disturbed>>

\* fault: the first success makes the batch one
exit_code_first_success(done) ==
    IF \E o \in done : o.is \in {"up", "down"} THEN EXIT_OK ELSE "provider"

\* BatchSummary::exit_code: what was skipped does not count.
exit_code(done) == IF \E o \in done : o.is = "fail" THEN "provider" ELSE EXIT_OK

\* After an upload that ended well the agent drops the destination and what leads
\* to it.
Invalidated(c, cmd, exit) ==
    IF exit = EXIT_OK /\ IsUpload(cmd) THEN invalidate_prefix_to_root(c, Dest(cmd))
    ELSE c

\* A token or a folder id the provider client found out is pushed to the agent
\* first, which clears its caches.
Finish ==
    /\ job # None /\ job.todo = <<>>
    /\ LET exit == IF job.exit # None THEN job.exit ELSE exit_code(job.done) IN
       /\ Ends(job.cmd, exit, job.done, job.asked)
       /\ \E c \in {cache, EmptyCache} : cache' = Invalidated(c, job.cmd, exit)
    /\ job' = None
    /\ disturbed' = FALSE
    /\ UNCHANGED <<agent, tree, shown, past, changes, local, jobs>>

\* The command is interrupted: its connection is closed, nothing else happens.
Kill ==
    /\ MayFail /\ job # None
    /\ job' = None
    /\ disturbed' = FALSE
    /\ UNCHANGED <<listingVars, local, last, jobs>>

Idle == job = None /\ UNCHANGED jobVars

Other ==
    /\ \E f \in Files0 : Elsewhere(f)
    /\ disturbed' = (job # None)
    /\ last' = None
    /\ UNCHANGED <<local, job, jobs>>

Next ==
    \/ Idle /\ Complete
    \/ Idle /\ Session
    \/ Tick /\ UNCHANGED jobVars
    \/ Other
    \/ \E argv \in Argv : Start(argv)
    \/ Step
    \/ Finish
    \/ Kill

Spec == Init /\ [][Next]_vars

-------------------------------------------------------------------------------
\* What the command says of itself at the end is true: ok means that everything
\* asked for is where it was to go, a provider error that something failed.
ExitIsHonest ==
    last # None =>
        /\ last.exit = EXIT_OK => \A a \in last.asked : Settled(a)
        /\ last.exit = "provider" /\ last.done # {} =>
               \E o \in last.done : o.is = "fail"

\* Every upload that was reported has a remote file of its own with the contents
\* of its source, whatever else the batch sent under the same name.
EachHasItsCopy ==
    ~disturbed =>
        \A o \in (IF job # None THEN job.done ELSE IF last # None THEN last.done ELSE {}) :
            o.is = "up" =>
                \E f \in tree.files : f.dir = o.dir /\ f.name = o.name /\ f.from = o.from

\* The listings kept of the folders in P show what was uploaded.
Shown(o, P) ==
    \A p \in P \cap Prefixes(o.dir) : \A kind \in Kind :
        LET e == IF p = o.dir THEN [name |-> o.name, dir |-> FALSE]
                 ELSE [name |-> o.dir[Len(p) + 1], dir |-> TRUE]
        IN  Live(cache, <<p, kind>>) /\ ~cache[<<p, kind>>].truncated =>
                OfKind(kind, {e}) \subseteq cache[<<p, kind>>].entries

\* After an upload that ended well, the listings of its destination and of the
\* folders that lead there show every file it sent.
OwnUploadsShown ==
    last # None /\ last.exit = EXIT_OK =>
        \A o \in last.done : o.is = "up" => Shown(o, Prefixes(Dest(last.cmd)))
===============================================================================
