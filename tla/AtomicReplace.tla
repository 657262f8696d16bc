---------------------------- MODULE AtomicReplace ----------------------------
(***************************************************************************)
(* How the container file is replaced: write profiles-local.zz.tmp, set    *)
(* its mode, rename it over profiles-local.zz.  The agent (persist in      *)
(* src/agent/state.rs), the key rotation of zz z                           *)
(* (core/src/profile/rotation.rs) and the TUI (tui/src/cli.rs) all do it,  *)
(* under the same temporary name and without a lock.                       *)
(*                                                                         *)
(* Names refer to inodes, so that what is written through an open file     *)
(* lands wherever that file has been renamed to.  Content is who wrote it. *)
(***************************************************************************)
EXTENDS Naturals, FiniteSets

CONSTANTS
    Writer,   \* runs of the replacement
    Rotation, \* those of the key rotation, which removes the file it cannot rename
    Inode,    \* inodes the file system may give out
    MayDie,   \* processes may die, and steps may end in an I/O error
    Nothing,
    Empty,    \* the content of a file that was truncated
    Torn      \* partial or mixed content

ASSUME ReplaceAssumption ==
    /\ Rotation \subseteq Writer
    /\ MayDie \in BOOLEAN
    /\ Nothing \notin Writer \union Inode
    /\ Torn \notin Writer \union {Nothing, Empty}
    /\ Empty \notin Writer \union {Nothing}

VARIABLES
    container, \* the inode profiles-local.zz names
    tmp,       \* the inode profiles-local.zz.tmp names
    data,      \* the content of each inode; Nothing when it was there before
    used,      \* inodes given out so far
    fd,        \* the inode each writer has open
    stage,     \* where each writer is
    overlap,   \* history: of those in progress, one started in the middle of another
    last       \* history: the last writer to succeed; Torn if it did so in an overlap

replaceVars == <<container, tmp, data, used, fd, stage, overlap, last>>

InProgress(w) == stage[w] \in {"write", "chmod", "rename"}

ReplaceTypeOK ==
    /\ container \in used
    /\ tmp \in used \union {Nothing}
    /\ used \subseteq Inode
    /\ data \in [Inode -> Writer \union {Nothing, Empty, Torn}]
    /\ fd \in [Writer -> used \union {Nothing}]
    /\ stage \in [Writer -> {"open", "write", "chmod", "rename", "ok", "error"}]
    /\ overlap \in BOOLEAN
    /\ last \in Writer \union {Nothing, Torn}

ReplaceInit ==
    /\ container \in Inode
    /\ used = {container}
    /\ tmp = Nothing
    /\ data = [i \in Inode |-> Nothing]
    /\ fd = [w \in Writer |-> Nothing]
    /\ stage = [w \in Writer |-> "open"]
    /\ overlap = FALSE
    /\ last = Nothing

Goes(w, here, next) == stage[w] = here /\ stage' = [stage EXCEPT ![w] = next]

\* fault: the container itself is opened for writing
OpenInPlace(w) ==
    /\ Goes(w, "open", "write")
    /\ fd' = [fd EXCEPT ![w] = container]
    /\ data' = [data EXCEPT ![container] = Empty]
    /\ overlap' = \E v \in Writer : InProgress(v)
    /\ UNCHANGED <<container, tmp, used, last>>

\* fs::write opens the temporary file with create and truncate ...
OpenTmp(w) ==
    /\ Goes(w, "open", "write")
    /\ \/ tmp # Nothing /\ UNCHANGED <<tmp, used>>
       \/ tmp = Nothing /\ \E i \in Inode \ used : tmp' = i /\ used' = used \union {i}
    /\ fd' = [fd EXCEPT ![w] = tmp']
    /\ data' = [data EXCEPT ![tmp'] = Empty]
    /\ overlap' = \E v \in Writer : InProgress(v)
    /\ UNCHANGED <<container, last>>

\* ... and writes at its own offset: over a longer content of somebody else a
\* part of that is left.
Write(w) ==
    /\ Goes(w, "write", "chmod")
    /\ \E content \in IF data[fd[w]] = Empty THEN {w} ELSE {w, Torn} :
            data' = [data EXCEPT ![fd[w]] = content]
    /\ UNCHANGED <<container, tmp, used, fd, overlap, last>>

\* set_permissions goes by name, and fails when the name is gone.
Chmod(w) ==
    /\ Goes(w, "chmod", IF tmp # Nothing THEN "rename" ELSE "error")
    /\ UNCHANGED <<container, tmp, data, used, fd, overlap, last>>

\* rename replaces the container by whatever the temporary name refers to.
Rename(w) ==
    /\ \/ /\ tmp # Nothing
          /\ Goes(w, "rename", "ok")
          /\ container' = tmp
          /\ last' = IF overlap THEN Torn ELSE w
       \/ /\ tmp = Nothing
          /\ Goes(w, "rename", "error")
          /\ UNCHANGED <<container, last>>
    /\ tmp' = Nothing
    /\ UNCHANGED <<data, used, fd, overlap>>

\* A write may end half way.  Only the rotation cleans up, and only when its
\* rename failed.
Fail(w) ==
    /\ MayDie
    /\ InProgress(w)
    /\ stage' = [stage EXCEPT ![w] = "error"]
    /\ \/ UNCHANGED data
       \/ stage[w] = "write" /\ data' = [data EXCEPT ![fd[w]] = Torn]
    /\ \/ UNCHANGED tmp
       \/ w \in Rotation /\ stage[w] = "rename" /\ tmp' = Nothing
    /\ UNCHANGED <<container, used, fd, overlap, last>>

ReplaceNext == \E w \in Writer : OpenTmp(w) \/ Write(w) \/ Chmod(w) \/ Rename(w) \/ Fail(w)

ReplaceSpec == ReplaceInit /\ [][ReplaceNext]_replaceVars

-------------------------------------------------------------------------------
\* What somebody who reads the container may rely on.
File == INSTANCE ReplacedFile WITH
    content <- IF last = Torn THEN Torn ELSE data[container],
    underway <- {w \in Writer : InProgress(w)},
    met <- overlap,
    outcome <- [w \in Writer |-> IF stage[w] \in {"ok", "error"} THEN stage[w] ELSE Nothing]

\* The container becomes what a replacement wrote, whole, at the instant that
\* replacement succeeds, and stays as it is through everything that dies, fails
\* or is left under the temporary name; this is lost only when a replacement
\* succeeds that has met another, and regained by the next one that meets none.
ReplacesAtOnce == File!Spec
===============================================================================
