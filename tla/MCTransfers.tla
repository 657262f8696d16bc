----------------------------- MODULE MCTransfers -----------------------------
(***************************************************************************)
(* Transfers for TLC: a remote folder with a file, the same one packed and *)
(* a folder with a file and a dotfile, three local files, a command line   *)
(* of every form, and the reading of command lines and what completion     *)
(* offers checked over all short ones.                                     *)
(***************************************************************************)
EXTENDS Transfers

a == Name("a")
b == Name("b")
d == Name("d")
h == Name(".h")
star == Name("*")
az   == Packed(a, ".zst")

TheStems   == {"a", "b", "d", ".h", "*", "cwd", "cloud", "other", "packed", "dotted"}
TheFolders == {d}
TheHidden  == {h}
NamesInOrder == <<h, a, az, b, d>>

TheFile(dir, name, from) == [dir |-> dir, name |-> name, from |-> {<<Name(from)>>}]
TheFiles0 == {TheFile(<<>>, a, "cloud"), TheFile(<<d>>, b, "other"), TheFile(<<d>>, h, "dotted"),
              TheFile(<<>>, az, "packed")}

TheLocalFile(p, kind, big) == [path |-> p, kind |-> kind, big |-> big, from |-> {p}]
TheLocal0 == {TheLocalFile(<<a>>, "file", TRUE), TheLocalFile(<<h>>, "file", FALSE),
              TheLocalFile(<<d>>, "dir", FALSE), TheLocalFile(<<d, a>>, "file", FALSE)}

wa == Word(<<a>>)
here == Word(<<>>)

TheArgv == {
    <<wa>>,                                                   \* zz a
    <<Verb("s", <<>>), Word(<<d, a>>), wa, Slashed(<<d>>)>>,  \* zz s d/a a d/
    <<Verb("s", <<"x">>), wa, Word(<<h>>), Word(<<d>>)>>,     \* zz sx a .h d
    <<Verb("s", <<"a">>), here, Word(<<d, d>>)>>,             \* zz sa . d/d
    <<Verb("s", <<"a", "r">>), here>>,                        \* zz sar .
    <<Verb("s", <<"a", "x", "r">>), here, Word(<<d>>)>>,      \* zz saxr . d
    <<Flag("--json", None), Verb("d", <<>>), Word(<<b>>), wa>>,
    <<Verb("d", <<"x">>), Word(<<d, star>>), Word(<<az>>), wa>>,
    <<Verb("d", <<"a", "r">>), Word(<<d>>)>>,                 \* zz dar d
    <<Verb("d", <<"a", "x">>)>>,                              \* zz dax
    <<Verb("s", <<"r">>), wa>>}                               \* zz sr a

Cursor(words, dir, typed) == [words |-> words, cur |-> [dir |-> dir, typed |-> typed]]
TheCursors == {
    Cursor(<<Verb("d", <<>>)>>, <<>>, None),                  \* zz d <TAB>
    Cursor(<<Verb("d", <<>>)>>, <<d>>, {a, az}),              \* zz d d/a<TAB>
    Cursor(<<Verb("s", <<"a">>), here>>, <<>>, None)}         \* zz sa . <TAB>
DescendCursors == {Cursor(<<Verb("d", <<>>)>>, <<d>>, None)}  \* zz d d/<TAB>

-------------------------------------------------------------------------------
(***************************************************************************)
(* The reading of command lines, over every line of up to three arguments. *)
(***************************************************************************)

Plain  == {wa, Slashed(<<d>>), Verb("s", <<>>), Verb("d", <<"x">>), Verb("s", <<"a">>),
           Atom("q"), Atom("z"), Choice("local"), Email("e"), Empty}
Line(S) == UNION {[1..n -> S] : n \in 0..3}
Json   == Flag("--json", None)

\* A flag is the same wherever it stands, and leaves the other arguments alone;
\* after "--" it is an argument like any other.
ASSUME FlagsGoAnywhere ==
    \A s \in Line(Plain) : \A i \in 1..(Len(s) + 1) :
        LET before == extract_flags(InsertAt(s, i, Json))
            after  == extract_flags(<<End>> \o InsertAt(s, i, Json))
        IN  /\ before.error = None /\ before.rest = s /\ before.flags.output = "json"
            /\ after.rest = InsertAt(s, i, Json) /\ after.flags = NoFlags

\* Whatever is accepted uses every argument once: none is lost between the
\* sources and the destination.
ASSUME EveryWordOnce ==
    \A s \in Line(Plain) :
        LET c == parse_args(s)
            end == IF c.dest = None THEN <<>> ELSE <<c.dest>>
        IN  c.verb \in {"Upload", "Download"} =>
                c.files \o end \in {s, Tail(s)} /\ c.files # <<>>

\* The modifier letters are a set: their order does not matter.
ASSUME LettersAreASet ==
    \A s \in Line(Plain), p \in {<<"a", "r", "x">>, <<"a", "x">>, <<"a", "r">>} :
        \A l \in {"s", "d"} :
            parse_args(<<Verb(l, p)>> \o s) = parse_args(<<Verb(l, Reverse(p))>> \o s)

\* json and quiet, local and remote exclude each other in either order, and the
\* command line wins over the environment.
ASSUME FlagsExclude ==
    LET Both(f, g) == extract_flags(<<Flag(f, None), wa, Flag(g, None)>>).error IN
    /\ \A x \in {<<"--json", "--quiet">>, <<"--local", "--remote">>} :
          Both(x[1], x[2]) = "Conflict" /\ Both(x[2], x[1]) = "Conflict"
    /\ LET env == [NoEnv EXCEPT !.ZZ_OUTPUT = "json", !.ZZ_CONTAINER = "remote"]
           g == parse_global(<<Flag("--quiet", None), Flag("--local", None)>>, env)
       IN  g.flags.output = "quiet" /\ g.flags.container = "local"

-------------------------------------------------------------------------------
(***************************************************************************)
(* Completion against the parser: what a TAB offers after a verb, and what *)
(* zz makes of the line once it is taken.                                  *)
(***************************************************************************)

Listed == {[name |-> n, dir |-> FALSE] : n \in {a, az, b}} \cup
          {[name |-> n, dir |-> TRUE] : n \in {d, h}}
Typed  == [dir : {<<>>, <<d>>}, typed : {None, {a, az}}]

\* Folders are offered with a slash at the end.
TokenOf(k) == IF k.dir THEN Slashed(Append(k.at, k.name)) ELSE Word(Append(k.at, k.name))

Composites == {Verb(l, m) : l \in {"s", "d"},
                            m \in {<<>>, <<"x">>, <<"a">>, <<"a", "r">>, <<"a", "r", "x">>}}

\* The words of a command that are local paths, and those that are remote.
LocalWords(c) ==
    CASE c.verb = "Upload"   -> ToSet(c.files)
      [] c.verb = "Download" -> {c.dest}
      [] OTHER               -> {c.here}
RemoteWords(c) ==
    CASE c.verb = "Upload"   -> {c.dest}
      [] c.verb = "Download" -> ToSet(c.files)
      [] OTHER               -> {c.there}

\* Whatever stands before it, a candidate taken from the local files is read as
\* a local path and one from the remote folder as a remote one, if the line is
\* accepted at all.  (A folder offered beside files is a step on the way to one.)
ASSUME OfferedWhereRead ==
    \A v \in Composites, cur \in Typed :
    \A after \in {w \in Line({wa, Slashed(<<d>>)}) : Len(w) < 3} :
        LET words == <<v>> \o after
            offer == Context("ready", words)
            Read(k) == parse_args(words \o <<TokenOf(k)>>)
            OnTheWay(k, side) == k.dir /\ "file" \in side
        IN  /\ \A k \in LocalCandidates(offer, cur, Listed) :
                  \/ OnTheWay(k, offer.local) \/ IsError(Read(k))
                  \/ TokenOf(k) \in LocalWords(Read(k))
            /\ \A k \in RemoteCandidates(offer, cur, Listed) :
                  \/ OnTheWay(k, offer.remote) \/ IsError(Read(k))
                  \/ TokenOf(k) \in RemoteWords(Read(k))

\* What is cut off at the limit is counted in the footer.
ASSUME FooterCounts ==
    \A cur \in Typed, entries \in SUBSET Listed, folders \in BOOLEAN :
        Cardinality(Candidates(cur, entries, folders)) + Footer(cur, entries, folders)
            = Cardinality({e \in entries : e.dir = folders /\ Fits(cur, e.name)})

\* The verbs as they are offered and as they are read.
Spelled ==
    ("s" :> <<Verb("s", <<>>)>>) @@ ("d" :> <<Verb("d", <<>>)>>) @@
    ("sa" :> <<Verb("s", <<"a">>)>>) @@ ("sx" :> <<Verb("s", <<"x">>)>>) @@
    ("dx" :> <<Verb("d", <<"x">>)>>) @@ ("sarx" :> <<Verb("s", <<"a", "r", "x">>)>>) @@
    ("darx" :> <<Verb("d", <<"a", "r", "x">>)>>) @@
    ("z local" :> <<Atom("z"), Choice("local")>>) @@
    ("z remote" :> <<Atom("z"), Choice("remote")>>) @@
    [n \in {"q", "w", "z", "c", "f"} |-> <<Atom(n)>>]

\* No verb is offered that the parser does not know: at most words are missing.
ASSUME VerbsAreKnown ==
    \A state \in {"fresh", "down", "locked", "ready", "dual"} :
        \A verb \in Verbs(state, <<>>) \ {"--help"} :
            LET c == parse_args(Spelled[verb])
            IN  IsError(c) => c.error = "MissingArgument"
===============================================================================
