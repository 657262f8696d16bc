------------------------------ MODULE MCUnlock ------------------------------
(***************************************************************************)
(* Unlock for TLC: containers at and below the policy, with one profile or *)
(* two and an entry of a newer build, damaged and legacy ones, an account  *)
(* with none, one or two blobs, and command lines of every form.           *)
(***************************************************************************)
EXTENDS Unlock

CONSTANTS a, b, ghost, pass, wrong, s1, s2

TheTags   == {"google_drive", "nextcloud"}
ThePolicy == [memory |-> 2, iterations |-> 1, parallelism |-> 1]
Weak      == [memory |-> 1, iterations |-> 2, parallelism |-> 1]
Absurd    == [memory |-> 4, iterations |-> 1, parallelism |-> 1]

Drive   == [tag |-> "google_drive", body |-> "t1"]
Newer   == [tag |-> "s3", body |-> "bucket"]
One     == [schema |-> 2, profiles |-> <<[alias |-> a, providers |-> <<Drive>>]>>]
Two     == [schema |-> 2, profiles |-> <<[alias |-> a, providers |-> <<Drive>>],
                                         [alias |-> b, providers |-> <<Newer>>]>>]
Nothing == [schema |-> 2, profiles |-> <<>>]

Sealed(set, cfg) ==
    [header |-> "v1", cfg |-> cfg, salt |-> s1, key |-> derive_key(pass, s1, cfg),
     payload |-> [is |-> "set", set |-> set]]
Legacy == [Sealed(One, ThePolicy) EXCEPT !.payload = [is |-> "profile"]]

TheContainers == {Sealed(Two, Weak), Sealed(One, ThePolicy)}

TheAccounts == {<<>>, "x" :> Sealed(One, Absurd),
                ("x" :> Sealed(Nothing, ThePolicy)) @@ ("y" :> Sealed(Two, Weak))
                @@ ("z" :> Legacy)}

File(content) == [kind |-> "file", shared |-> FALSE, foreign |-> FALSE,
                  content |-> content]
ThePassFiles == (Word("good") :> File(pass)) @@ (Word("stale") :> File(wrong)) @@
                (Word("open") :> [File(pass) EXCEPT !.shared = TRUE]) @@
                (Word("link") :> [File(pass) EXCEPT !.kind = "symlink"]) @@
                (Word("nul") :> File("nul")) @@ (Word("gone") :> None)

Shell   == NoEnv @@ [ZZ_SERVER_URL |-> TRUE, ZZ_DROP_CONFIRM_WIPE |-> FALSE]
z       == Atom("z")
json    == Flag("--json", None)
From(f) == Flag("--passphrase-file", Word(f))
As(n)   == Flag("--alias", n)
mail    == Email("me@example.org")

AtTerminal(argv)   == [argv |-> argv, env |-> Shell, tty |-> TRUE]
Scripted(argv) == [argv |-> argv, env |-> Shell, tty |-> FALSE]

TheCommands ==
    {AtTerminal(<<z>>), AtTerminal(<<z, Choice("remote")>>), AtTerminal(<<z, mail>>),
     AtTerminal(<<z, Word("work")>>), AtTerminal(<<Atom("q")>>), AtTerminal(<<Atom("w")>>),
     AtTerminal(<<z, Choice("local"), From("good")>>),
     [AtTerminal(<<json, z, Choice("local")>>) EXCEPT !.env.ZZ_PASSPHRASE_FILE = Word("good")],
     AtTerminal(<<json, z>>), AtTerminal(<<json, z, Choice("remote")>>),
     AtTerminal(<<json, Atom("w")>>), AtTerminal(<<z, Empty>>),
     [AtTerminal(<<z, mail>>) EXCEPT !.env.ZZ_SERVER_URL = FALSE]}
    \cup
    {Scripted(<<json, z, From(f)>>) : f \in {"good", "stale", "open", "link", "nul", "gone"}}
    \cup
    {Scripted(<<Flag("--quiet", None), z, Choice("local"), From("good"), As(n)>>) :
        n \in {b, ghost}}
    \cup
    {Scripted(<<json, z>>), Scripted(<<z>>), Scripted(<<z, mail>>),
     Scripted(<<Flag("--local", None), z, From("good")>>),
     Scripted(<<Flag("--yes", None), Atom("w")>>), Scripted(<<Atom("w")>>),
     [Scripted(<<json, Atom("w")>>) EXCEPT !.env.ZZ_DROP_CONFIRM_WIPE = TRUE]}
=============================================================================
