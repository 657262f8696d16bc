----------------------------- MODULE RemoteUpload -----------------------------
(***************************************************************************)
(* upload_to of the four provider clients: several uploads, of one machine *)
(* or of several, put a file of the same name into the same remote folder. *)
(* Every HTTP request is a step.  Testing whether a name is taken and      *)
(* writing it are two requests; what the service does with the second one  *)
(* decides what the test was worth.                                        *)
(*                                                                         *)
(* Sources: core/src/providers/{nextcloud/mod,google_drive/rest,           *)
(* onedrive/rest,dropbox/rest}.rs, nextcloud/collision.rs, and the policy  *)
(* the commands pass (src/commands/upload.rs).  Contents are the uploads   *)
(* they come from, so no two are equal.                                    *)
(***************************************************************************)
EXTENDS Naturals, FiniteSets

CONSTANTS
    Uploader,         \* uploads, each of one file
    Chosen,           \* collision policies profiles are set to
    Old,              \* a file that may be there from the start
    RENAME_MAX_TRIES, \* renamings tried before giving up
    MAX_CLOCK,        \* bound: seconds that pass
    MayFail,          \* requests may fail, replies may get lost, files be too large
    None

ASSUME UploadAssumption ==
    /\ RENAME_MAX_TRIES \in Nat
    /\ MAX_CLOCK \in Nat
    /\ Old \notin Uploader
    /\ None \notin Uploader \union {Old}
    /\ None \notin {"rename", "overwrite", "fail", "ok", "conflict", "failed"}
    /\ Chosen \subseteq {"rename", "overwrite", "fail"}
    /\ MayFail \in BOOLEAN

Provider == {"nextcloud", "google_drive", "onedrive", "dropbox"}

\* rename_with_suffix: the name itself, then the time of day in front of the
\* extension, then the time of day and a number.
Name == [n : 0 .. RENAME_MAX_TRIES, at : 0 .. MAX_CLOCK]
Leaf == [n |-> 0, at |-> 0]

FolderId == 1 .. Cardinality(Uploader) + 1
File == [folder : FolderId, name : Name, content : Uploader \union {Old},
         id : Uploader \union {Old}]

VARIABLES
    provider,  \* the service all of them use: fixed from the start
    folders,   \* the folders of the wanted name
    files,     \* the files in them
    clock,     \* SystemTime::now in seconds
    pc,        \* the next request of each upload
    by,        \* "zz" or "client": a command, or another user of the client library
    chosen,    \* the policy of the profile
    policy,    \* the policy upload_to was called with
    parent,    \* the folder it found or created
    candidate, \* the name it tries
    target,    \* the id of the file it replaces (Google Drive)
    outcome,   \* what it reported
    seen       \* history: the files there when it started

started == <<by, chosen, policy, seen>>
vars == <<provider, folders, files, clock, pc, started, parent, candidate, target, outcome>>

TypeOK ==
    /\ provider \in Provider
    /\ folders \subseteq FolderId
    /\ files \subseteq File
    /\ \A f \in files : f.folder \in folders
    /\ \A f, g \in files : f.id = g.id => f = g
    /\ clock \in 0 .. MAX_CLOCK
    /\ pc \in [Uploader -> {"idle", "folder", "create", "read", "check", "put", "done"}]
    /\ by \in [Uploader -> {"zz", "client", None}]
    /\ chosen \in [Uploader -> Chosen \union {None}]
    /\ policy \in [Uploader -> {"rename", "overwrite", "fail", None}]
    /\ parent \in [Uploader -> FolderId \union {None}]
    /\ \A u \in Uploader : pc[u] \in {"read", "check", "put"} => parent[u] \in folders
    /\ candidate \in [Uploader -> Name]
    /\ target \in [Uploader -> Uploader \union {Old, None}]
    /\ outcome \in [Uploader -> {"ok", "conflict", "failed", None}]
    /\ \A u \in Uploader : pc[u] = "done" <=> outcome[u] # None
    /\ seen \in [Uploader -> SUBSET File]

Init ==
    /\ provider \in Provider
    /\ folders \in {{}, {1}}
    /\ files \in {{}, {[folder |-> 1, name |-> Leaf, content |-> Old, id |-> Old]}}
    /\ files # {} => folders # {}
    /\ clock = 0
    /\ pc = [u \in Uploader |-> "idle"]
    /\ by = [u \in Uploader |-> None]
    /\ chosen = [u \in Uploader |-> None]
    /\ policy = [u \in Uploader |-> None]
    /\ parent = [u \in Uploader |-> None]
    /\ candidate = [u \in Uploader |-> Leaf]
    /\ target = [u \in Uploader |-> None]
    /\ outcome = [u \in Uploader |-> None]
    /\ seen = [u \in Uploader |-> {}]

-------------------------------------------------------------------------------
At(u, here) == pc[u] = here

Go(u, next) ==
    /\ pc' = [pc EXCEPT ![u] = next]
    /\ UNCHANGED outcome

\* fault: the upload goes on after an error
ReportAndGoOn(u, o) ==
    /\ outcome' = [outcome EXCEPT ![u] = o]
    /\ UNCHANGED pc

Report(u, o) ==
    /\ pc' = [pc EXCEPT ![u] = "done"]
    /\ outcome' = [outcome EXCEPT ![u] = o]

\* Commands pass DEFAULT_POLICY, whatever the profile says.
collision_policy_for(caller, p) == IF caller = "zz" THEN "rename" ELSE p

Start(u, caller, p) ==
    /\ At(u, "idle")
    /\ by' = [by EXCEPT ![u] = caller]
    /\ chosen' = [chosen EXCEPT ![u] = p]
    /\ policy' = [policy EXCEPT ![u] = collision_policy_for(caller, p)]
    /\ seen' = [seen EXCEPT ![u] = files]
    /\ Go(u, "folder")
    /\ UNCHANGED <<provider, folders, files, clock, parent, candidate, target>>

\* MKCOL, or create_folder_v2: one request; that the folder is there already is
\* as good as creating it.
EnsureFolder(u) ==
    /\ provider \in {"nextcloud", "dropbox"}
    /\ At(u, "folder")
    /\ folders' = {1}
    /\ parent' = [parent EXCEPT ![u] = 1]
    /\ Go(u, "read")
    /\ UNCHANGED <<provider, files, clock, started, candidate, target>>

\* find_or_create_folder_under, first request: any folder of that name will do.
FindFolder(u) ==
    /\ provider \in {"google_drive", "onedrive"}
    /\ At(u, "folder")
    /\ \/ /\ folders = {}
          /\ Go(u, "create")
          /\ UNCHANGED parent
       \/ \E id \in folders :
            /\ parent' = [parent EXCEPT ![u] = id]
            /\ Go(u, "read")
    /\ UNCHANGED <<provider, folders, files, clock, started, candidate, target>>

\* ... second request.  Google Drive creates one more folder of that name;
\* OneDrive, told to fail on a conflict, refuses.
CreateFolder(u) ==
    /\ At(u, "create")
    /\ \/ /\ provider = "google_drive" \/ folders = {}
          /\ parent' = [parent EXCEPT ![u] = Cardinality(folders) + 1]
          /\ folders' = folders \union {parent'[u]}
          /\ Go(u, "read")
       \/ /\ provider = "onedrive" /\ folders # {}
          /\ Report(u, "conflict")
          /\ UNCHANGED <<parent, folders>>
    /\ UNCHANGED <<provider, files, clock, started, candidate, target>>

\* fault: every service is expected to protect what is there
ReadAndPut(u) ==
    /\ At(u, "read")
    /\ Go(u, "put")
    /\ UNCHANGED <<provider, folders, files, clock, started, parent, candidate, target>>

\* The file is read as a whole; OneDrive and Dropbox take it up to a limit.
\* Overwriting needs no look at the folder, except for the id on Google Drive.
ReadLocal(u) ==
    /\ At(u, "read")
    /\ IF policy[u] = "overwrite" /\ provider # "google_drive"
       THEN Go(u, "put") ELSE Go(u, "check")
    /\ UNCHANGED <<provider, folders, files, clock, started, parent, candidate, target>>

Found(u) == {f \in files : f.folder = parent[u] /\ f.name = candidate[u]}

\* fault: the suffix is lost
suffix_ignored(n) == Leaf

rename_with_suffix(n) == [n |-> n, at |-> clock]

\* HEAD, find_in_folder or get_metadata.
Check(u) ==
    /\ At(u, "check")
    /\ \/ /\ Found(u) = {}
          /\ Go(u, "put")
          /\ UNCHANGED <<candidate, target>>
       \/ /\ policy[u] = "overwrite"
          /\ \E f \in Found(u) : target' = [target EXCEPT ![u] = f.id]
          /\ Go(u, "put")
          /\ UNCHANGED candidate
       \/ /\ Found(u) # {}
          /\ policy[u] = "rename" /\ candidate[u].n < RENAME_MAX_TRIES
          /\ candidate' = [candidate EXCEPT ![u] = rename_with_suffix(@.n + 1)]
          /\ UNCHANGED <<pc, outcome, target>>
       \/ /\ Found(u) # {}
          /\ \/ policy[u] = "fail"
             \/ policy[u] = "rename" /\ candidate[u].n = RENAME_MAX_TRIES
          /\ Report(u, "conflict")
          /\ UNCHANGED <<candidate, target>>
    /\ UNCHANGED <<provider, folders, files, clock, started, parent>>

\* What becomes of the files of that name: the mode of the writing request.
Replaced(u) ==
    CASE provider = "nextcloud" -> Found(u)
      [] provider = "google_drive" -> {f \in files : f.id = target[u]}
      [] OTHER -> IF policy[u] = "overwrite" THEN Found(u) ELSE {}

\* OneDrive is told conflictBehavior=fail, Dropbox mode=add.
Refused(u) ==
    provider \in {"onedrive", "dropbox"} /\ policy[u] # "overwrite" /\ Found(u) # {}

\* PUT, POST, PATCH or upload.  The reply may get lost after the request was
\* carried out.
Put(u) ==
    /\ At(u, "put")
    /\ ~Refused(u)
    /\ files' = (files \ Replaced(u)) \union
            {[folder |-> parent[u], name |-> candidate[u], content |-> u,
              id |-> IF target[u] = None THEN u ELSE target[u]]}
    /\ \/ Report(u, "ok")
       \/ MayFail /\ Report(u, "failed")
    /\ UNCHANGED <<provider, folders, clock, started, parent, candidate, target>>

\* fault: a refused request counts as done
PutRefusedUnnoticed(u) ==
    /\ At(u, "put")
    /\ Refused(u)
    /\ Report(u, "ok")
    /\ UNCHANGED <<provider, folders, files, clock, started, parent, candidate, target>>

PutRefused(u) ==
    /\ At(u, "put")
    /\ Refused(u)
    /\ Report(u, "conflict")
    /\ UNCHANGED <<provider, folders, files, clock, started, parent, candidate, target>>

\* No connection, an error of the service, an unreadable or too large file.
GiveUp(u) ==
    /\ MayFail
    /\ pc[u] \notin {"idle", "done"}
    /\ Report(u, "failed")
    /\ UNCHANGED <<provider, folders, files, clock, started, parent, candidate, target>>

Tick ==
    /\ clock < MAX_CLOCK
    /\ clock' = clock + 1
    /\ UNCHANGED <<provider, folders, files, pc, started, parent, candidate, target, outcome>>

Request(u) ==
    \/ EnsureFolder(u) \/ FindFolder(u) \/ CreateFolder(u) \/ ReadLocal(u)
    \/ Check(u) \/ Put(u) \/ PutRefused(u)

Next ==
    \/ \E u \in Uploader :
        \/ \E caller \in {"zz", "client"}, p \in Chosen : Start(u, caller, p)
        \/ Request(u)
        \/ GiveUp(u)
    \/ Tick

Spec == Init /\ [][Next]_vars

\* Every request has a timeout.
FairSpec == Spec /\ \A u \in Uploader : WF_vars(Request(u))

-------------------------------------------------------------------------------
Plain(F) == {[folder |-> f.folder, name |-> f.name, content |-> f.content] : f \in F}

Service ==
    CASE provider = "nextcloud" -> "replacing"
      [] provider = "google_drive" -> "repeating"
      [] OTHER -> "exclusive"

Directory == INSTANCE RemoteDirectory WITH
    service <- Service,
    stored <- Plain(files),
    seen <- [u \in Uploader |-> Plain(seen[u])]

\* Whatever the requests of several uploads interleave to, each takes effect at
\* once or not at all, and none of them replaces what was there when it began
\* unless it was told to overwrite.
UploadsAreAtomic == Directory!Spec

\* What is reported as uploaded is stored under the reported name, unless an
\* upload that was told to overwrite has replaced it, or, on Nextcloud, one that
\* looked at the name before it was written.
ReportedIsStored ==
    \A u \in Uploader : outcome[u] = "ok" =>
        \E f \in files :
            /\ f.folder = parent[u] /\ f.name = candidate[u]
            /\ \/ f.content = u
               \/ f.content \in Uploader /\ policy[f.content] = "overwrite"
               \/ provider = "nextcloud"

\* However many names are taken, an upload ends.
EveryUploadEnds == \A u \in Uploader : At(u, "folder") ~> At(u, "done")
===============================================================================
