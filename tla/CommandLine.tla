---------------------------- MODULE CommandLine ----------------------------
(***************************************************************************)
(* How zz reads its command line: the global flags and environment         *)
(* (src/src/runtime.rs), then the verb and its words (src/src/cli/         *)
(* parser.rs), in the order of main.rs.                                    *)
(*                                                                         *)
(* An argument is a token: a word (a path, which ends in a slash or not),  *)
(* a composite verb (s or d and its modifier letters), an atom (q, w, z,   *)
(* ...), a flag with the value written after its "=", the bare "--" or the *)
(* empty string.  What the characters of a token spell is the token.       *)
(***************************************************************************)
EXTENDS Naturals, Sequences, FiniteSets, SequencesExt

CONSTANT None

Word(p)        == [is |-> "word", path |-> p, slash |-> FALSE]
Slashed(p)     == [is |-> "word", path |-> p, slash |-> TRUE]
Verb(l, mods)  == [is |-> "verb", letter |-> l, mods |-> mods]
Atom(n)        == [is |-> "atom", name |-> n]
Choice(n)      == [is |-> "choice", name |-> n]   \* the word "local" or "remote"
Email(n)       == [is |-> "email", name |-> n]
Flag(n, value) == [is |-> "flag", name |-> n, value |-> value]
End            == [is |-> "end"]
Empty          == [is |-> "empty"]

-------------------------------------------------------------------------------
(***************************************************************************)
(* Global flags.                                                           *)
(***************************************************************************)

NoFlags == [output |-> "text", passphrase_file |-> None, alias |-> None,
            container |-> None, yes |-> FALSE]

\* The flags that take a value, and the field each one sets.
Valued == [f \in {"--passphrase-file", "--alias"} |->
              IF f = "--alias" THEN "alias" ELSE "passphrase_file"]

\* The flags that take none: field, value, and the values they exclude.
Switch ==
    ("--json"   :> [field |-> "output",    value |-> "json",   excludes |-> {"quiet"}]) @@
    ("--quiet"  :> [field |-> "output",    value |-> "quiet",  excludes |-> {"json"}]) @@
    ("--local"  :> [field |-> "container", value |-> "local",  excludes |-> {"remote"}]) @@
    ("--remote" :> [field |-> "container", value |-> "remote", excludes |-> {"local"}]) @@
    ("--yes"    :> [field |-> "yes",       value |-> TRUE,     excludes |-> {}])

Refuse(acc, error) == [acc EXCEPT !.error = error]

\* take_value: the value may be any argument, a flag or "--" included.
Store(acc, flag, value) ==
    IF value = Empty THEN Refuse(acc, "EmptyValue")
    ELSE [acc EXCEPT !.flags[Valued[flag]] = value, !.wants = None]

Set(acc, tok) ==
    LET s == Switch[tok.name] IN
    CASE tok.value \notin {None, Empty}        -> Refuse(acc, "UnknownFlag")
      [] \E v \in s.excludes :
            v = acc.flags[s.field]             -> Refuse(acc, "Conflict")
      [] OTHER -> [acc EXCEPT !.flags[s.field] = s.value]

Scan(acc, tok) ==
    CASE acc.error # None    -> acc
      [] acc.wants # None    -> Store(acc, acc.wants, tok)
      [] acc.verbatim        -> [acc EXCEPT !.rest = Append(@, tok)]
      [] tok.is = "end"      -> [acc EXCEPT !.verbatim = TRUE]
      [] tok.is # "flag"     -> [acc EXCEPT !.rest = Append(@, tok)]
      [] tok.name \in DOMAIN Switch -> Set(acc, tok)
      [] tok.name \in DOMAIN Valued ->
            IF tok.value = None THEN [acc EXCEPT !.wants = tok.name]
            ELSE Store(acc, tok.name, tok.value)
      [] OTHER               -> Refuse(acc, "UnknownFlag")

extract_flags(argv) ==
    LET end == FoldLeft(Scan, [flags |-> NoFlags, rest |-> <<>>, wants |-> None,
                               verbatim |-> FALSE, error |-> None], argv)
    IN  IF end.error = None /\ end.wants # None
        THEN Refuse(end, "MissingValue") ELSE end

NoEnv == [ZZ_OUTPUT |-> None, ZZ_PASSPHRASE_FILE |-> None, ZZ_ALIAS |-> None,
          ZZ_CONTAINER |-> None]

\* Flag before environment before default; an empty path or alias counts as
\* unset, an empty ZZ_OUTPUT or ZZ_CONTAINER as wrong.
merge_env(flags, env) ==
    LET output == flags.output = "text" /\ env.ZZ_OUTPUT # None
        box    == flags.container = None /\ env.ZZ_CONTAINER # None
        Chosen(flag, value) == IF flag = None /\ value # Empty THEN value ELSE flag
    IN  IF \/ output /\ env.ZZ_OUTPUT \notin {"text", "json"}
           \/ box /\ env.ZZ_CONTAINER \notin {"local", "remote"}
        THEN [error |-> "BadEnvValue", flags |-> flags]
        ELSE [error |-> None,
              flags |-> [flags EXCEPT
                  !.output = IF output THEN env.ZZ_OUTPUT ELSE @,
                  !.passphrase_file = Chosen(@, env.ZZ_PASSPHRASE_FILE),
                  !.alias = Chosen(@, env.ZZ_ALIAS),
                  !.container = IF box THEN env.ZZ_CONTAINER ELSE @]]

\* A flag given on the command line that equals the default is not explicit.
parse_global(argv, env) ==
    LET e == extract_flags(argv)
        m == merge_env(e.flags, env)
    IN  IF e.error # None THEN [error |-> e.error, flags |-> NoFlags, rest |-> <<>>]
        ELSE [error |-> m.error, flags |-> m.flags, rest |-> e.rest]

-------------------------------------------------------------------------------
(***************************************************************************)
(* The verb and its words.                                                 *)
(***************************************************************************)

Error(e)   == [verb |-> "error", error |-> e]
IsError(c) == c.verb = "error"

\* The letters are read in order: the first e or repeated letter decides.
parse_modifiers(mods) ==
    LET bad    == {i \in DOMAIN mods :
                      mods[i] = "e" \/ \E j \in 1..(i - 1) : mods[j] = mods[i]}
        first  == CHOOSE i \in bad : \A j \in bad : i <= j
    IN  CASE bad = {}          -> "fine"
          [] bad # {} /\ mods[first] = "e" -> "EncryptNotInV1"
          [] OTHER             -> "DuplicateModifier"

\* The last word is the destination when it ends in a slash.
EndsInSlash(tok) == tok.is = "word" /\ tok.slash

split_trailing_dir_dest(words) ==
    LET last == words[Len(words)] IN
    CASE words = <<>>                            -> Error("MissingArgument")
      [] words # <<>> /\ ~EndsInSlash(last)      ->
            [verb |-> "split", files |-> words, dest |-> None]
      [] Len(words) = 1                          -> Error("MissingArgument")
      [] OTHER -> [verb |-> "split", files |-> Front(words), dest |-> last]

\* sa takes one or two words, da up to two: a local folder and a remote one.
FolderWords(words, least) ==
    CASE Len(words) < least -> Error("MissingArgument")
      [] Len(words) > 2     -> Error("UnexpectedArgument")
      [] OTHER -> [verb |-> "folders",
                   here  |-> IF words = <<>> THEN None ELSE words[1],
                   there |-> IF Len(words) = 2 THEN words[2] ELSE None]

Composite(letter, mods, words) ==
    LET m         == parse_modifiers(mods)
        whole     == "a" \in ToSet(mods)
        recursive == "r" \in ToSet(mods)
        packed    == "x" \in ToSet(mods)
        up        == letter = "s"
        all       == FolderWords(words, IF up THEN 1 ELSE 0)
        few       == split_trailing_dir_dest(words)
    IN  CASE m # "fine"          -> Error(m)
          [] m = "fine" /\ whole ->
                IF IsError(all) THEN all
                ELSE [verb |-> IF up THEN "SaveAll" ELSE "DownloadAll", x |-> packed,
                      recursive |-> recursive, here |-> all.here, there |-> all.there]
          [] m = "fine" /\ ~whole /\ recursive -> Error("UnknownModifier")
          [] OTHER ->
                IF IsError(few) THEN few
                ELSE [verb |-> IF up THEN "Upload" ELSE "Download", x |-> packed,
                      files |-> few.files, dest |-> few.dest]

Alone(verb, words) ==
    IF words = <<>> THEN [verb |-> verb] ELSE Error("UnexpectedArgument")

Unlock(words) ==
    CASE words = <<>>        -> [verb |-> "ContainerUnlock", which |-> None]
      [] Len(words) > 1      -> Error("UnexpectedArgument")
      [] OTHER ->
            LET w == words[1] IN
            CASE w = Empty              -> Error("UnexpectedArgument")
              [] w = Choice("local")    -> [verb |-> "ContainerUnlock", which |-> "local"]
              [] w = Choice("remote")   -> [verb |-> "ContainerUnlock", which |-> "remote"]
              [] w.is = "email"         -> [verb |-> "RemoteUnlock", email |-> w]
              [] OTHER                  -> [verb |-> "RemoteUnlock", alias |-> w]

AtomVerb == [q |-> "Lock", w |-> "Wipe", kalvasflam |-> "Wipe", c |-> "OpenTui",
             f |-> "Doctor"]

parse_args(args) ==
    IF args = <<>> THEN Error("NoArgs")
    ELSE LET head  == args[1]
             words == Tail(args)
         IN  CASE head.is = "verb" -> Composite(head.letter, head.mods, words)
               [] head.is = "atom" ->
                     IF head.name = "z" THEN Unlock(words)
                     ELSE Alone(AtomVerb[head.name], words)
               [] OTHER ->          \* no verb: every word is a source
                     [verb |-> "Upload", x |-> FALSE, files |-> args, dest |-> None]

\* Answered before the flags and the verb are looked at, as the first argument
\* only.
Tools == {"--help", "-h", "--version", "-V", "--completions",
          "--setup-completions", "--check-completions", "__complete"}

\* main: what an invocation is, or the usage error it ends with.
Invocation(argv, env) ==
    LET g == parse_global(argv, env)
        c == parse_args(g.rest)
    IN  CASE argv # <<>> /\ argv[1].is = "flag" /\ argv[1].name \in Tools ->
                [verb |-> "tool", flags |-> NoFlags]
          [] g.error # None     -> Error(g.error)
          [] IsError(c)         -> c
          [] OTHER              -> [flags |-> g.flags] @@ c
===============================================================================
