----------------------------- MODULE Completion -----------------------------
(***************************************************************************)
(* What a TAB offers (src/src/sacs/complete.rs, state.rs): the state of    *)
(* the client side, the context of the cursor word, the folder the agent   *)
(* is asked for and the candidates made from its answer.                   *)
(*                                                                         *)
(* The cursor word is [dir, typed]: the segments before its last slash and *)
(* what was typed after it, None or the set of names that begin that way.  *)
(* An entry of a listing is [name, dir]: a name and whether it is a folder.*)
(***************************************************************************)
EXTENDS CommandLine

CONSTANTS
    CANDIDATE_LIMIT,    \* LOCAL_CANDIDATE_LIMIT, REMOTE_CANDIDATE_LIMIT: 50
    NameOrder           \* all names, in the order candidates are sorted in

\* classify: a container, a socket and the answer to Status.
classify(local, remote, socket, unlocked) ==
    CASE ~local /\ ~remote            -> "fresh"
      [] (local \/ remote) /\ ~socket -> "down"
      [] (local \/ remote) /\ socket /\ unlocked # TRUE -> "locked"
      [] OTHER -> IF local /\ remote THEN "dual" ELSE "ready"

Ready(state) == state \in {"ready", "dual"}

-------------------------------------------------------------------------------
(***************************************************************************)
(* The context: which local entries are offered, which remote ones, and    *)
(* what the agent is asked for them.                                       *)
(***************************************************************************)

Offer(local, remote) ==
    [local |-> local, remote |-> remote,
     asks |-> CASE remote = {}      -> None
                [] remote = {"dir"} -> "Directory"
                [] OTHER            -> "Both"]

AfterS(mods, after) ==
    CASE "a" \in ToSet(mods) /\ after = <<>> -> Offer({"dir"}, {})
      [] "a" \in ToSet(mods) /\ after # <<>> -> Offer({}, {"dir"})
      [] "a" \notin ToSet(mods) /\ after = <<>> -> Offer({"file", "dir"}, {})
      [] OTHER                               -> Offer({"file", "dir"}, {"dir"})

\* With a source chosen the folders still come in the answer to Both, and only
\* the files are offered.
AfterD(mods, after) ==
    CASE "a" \in ToSet(mods) /\ after = <<>> -> Offer({"dir"}, {})
      [] "a" \in ToSet(mods) /\ after # <<>> -> Offer({}, {"dir"})
      [] "a" \notin ToSet(mods) /\ after = <<>> -> Offer({}, {"file", "dir"})
      [] OTHER                               -> Offer({"dir"}, {"file"})

Nothing == Offer({}, {})

Context(state, words) ==
    CASE ~Ready(state)                         -> Nothing
      [] Ready(state) /\ words = <<>>          -> Offer({"file", "dir"}, {})
      [] OTHER ->
            LET head  == words[1]
                after == Tail(words)
            IN  CASE head.is = "verb" ->
                       IF head.letter = "s" THEN AfterS(head.mods, after)
                       ELSE AfterD(head.mods, after)
                  [] head.is = "atom" -> Nothing
                  [] OTHER            -> Offer({"file"}, {"dir"})

\* The verbs offered, by state: setup and unlock come first until the session
\* is open, z takes local and, with two containers, remote.
Verbs(state, words) ==
    CASE words # <<>> /\ words[1] = Atom("z") /\ Ready(state) ->
            IF Len(words) > 1 THEN {}
            ELSE {"local"} \cup (IF state = "dual" THEN {"remote"} ELSE {})
      [] words # <<>> /\ Ready(state)  -> {}
      [] state = "fresh"               -> {"c", "--help"}
      [] state \in {"down", "locked"}  -> {"z", "c", "q", "w", "f"}
      [] OTHER -> {"s", "d", "sa", "sx", "dx", "sarx", "darx", "q", "c", "f", "z"}
                  \cup (IF state = "dual" THEN {"z local", "z remote"} ELSE {})

-------------------------------------------------------------------------------
(***************************************************************************)
(* The folder the agent is asked for, and the candidates.                  *)
(***************************************************************************)

\* parent_for_remote_prefix: trailing slashes go first, then everything after
\* the last slash.
parent_for_remote_prefix(cur) ==
    CASE cur.dir = <<>>                        -> <<>>
      [] cur.dir # <<>> /\ cur.typed # None    -> cur.dir
      [] OTHER                                 -> Front(cur.dir)

\* cur_last_segment against the names of the answer.
Fits(cur, name) == cur.typed = None \/ name \in cur.typed

\* The first names of S in the order of the candidates.
Rank(name)     == CHOOSE i \in DOMAIN NameOrder : NameOrder[i] = name
FirstOf(S)     == {e \in S : Cardinality({f \in S : Rank(f.name) < Rank(e.name)})
                                 < CANDIDATE_LIMIT}

\* remote_join: the candidate keeps what stands before the last slash.
Candidates(cur, entries, folders) ==
    {[at |-> cur.dir, name |-> e.name, dir |-> folders] :
        e \in FirstOf({e \in entries : e.dir = folders /\ Fits(cur, e.name)})}

\* rank_remote_files and rank_remote_dirs.
RemoteCandidates(offer, cur, entries) ==
    (IF "file" \in offer.remote THEN Candidates(cur, entries, FALSE) ELSE {})
        \cup (IF "dir" \in offer.remote THEN Candidates(cur, entries, TRUE) ELSE {})

\* collect_local: the entries are those of the very folder the word names.
LocalCandidates(offer, cur, entries) ==
    (IF "file" \in offer.local THEN Candidates(cur, entries, FALSE) ELSE {})
        \cup (IF "dir" \in offer.local THEN Candidates(cur, entries, TRUE) ELSE {})

\* The footer counts what the limit cut off, of the answer it was given.
Footer(cur, entries, folders) ==
    LET n == Cardinality({e \in entries : e.dir = folders /\ Fits(cur, e.name)})
    IN  IF n > CANDIDATE_LIMIT THEN n - CANDIDATE_LIMIT ELSE 0
===============================================================================
