-------------------------- MODULE RemoteUpload_proofs --------------------------
(***************************************************************************)
(* Uploads are atomic for any number of them, any names tried and any      *)
(* service: RemoteUpload implements RemoteDirectory.                       *)
(*                                                                         *)
(* What makes it true: names that were taken stay taken, so that a name    *)
(* found free was free when the upload began; and the id of a file stays   *)
(* with its name, so that replacing by id replaces under the same name.    *)
(***************************************************************************)
EXTENDS RemoteUpload, TLAPS

Taken(folder, name) == \E f \in files : f.folder = folder /\ f.name = name

\* Where an upload is goes with what it was told and what it reported.
PhaseInv ==
    /\ provider \in Provider
    /\ pc \in [Uploader -> {"idle", "folder", "create", "read", "check", "put", "done"}]
    /\ policy \in [Uploader -> {"rename", "overwrite", "fail", None}]
    /\ outcome \in [Uploader -> {"ok", "conflict", "failed", None}]
    /\ DOMAIN parent = Uploader /\ DOMAIN candidate = Uploader
    /\ DOMAIN target = Uploader /\ DOMAIN seen = Uploader
    /\ \A u \in Uploader : pc[u] = "idle" <=> policy[u] = None
    /\ \A u \in Uploader : pc[u] = "done" <=> outcome[u] # None
    /\ \A u \in Uploader :
        pc[u] = "check" /\ policy[u] = "overwrite" => provider = "google_drive"

\* Every upload stores one file, and not before it is done.
ContentInv ==
    /\ \A f, g \in files : f.content = g.content => f = g
    /\ \A f \in files, u \in Uploader : f.content = u => pc[u] = "done"

\* The id of a file is the upload that created it.
IdInv ==
    /\ \A f, g \in files : f.id = g.id => f = g
    /\ \A f \in files : f.id \in Uploader \union {Old}
    /\ \A f \in files, u \in Uploader : f.id = u => pc[u] = "done"

\* A file chosen by its id is still there, under the name it was chosen for.
TargetInv ==
    \A u \in Uploader : target[u] # None =>
        /\ provider = "google_drive" /\ policy[u] = "overwrite"
        /\ pc[u] \in {"put", "done"}
        /\ \E f \in files : f.id = target[u]
        /\ \A f \in files : f.id = target[u] =>
                f.folder = parent[u] /\ f.name = candidate[u]

\* Names that were taken when an upload began are taken ever after, and a name
\* it found free is none of them.
NameInv ==
    /\ \A u \in Uploader : \A f \in seen[u] : Taken(f.folder, f.name)
    /\ \A u \in Uploader : candidate[u] # Leaf =>
        policy[u] = "rename" /\ \E f \in files : f.name = Leaf
    /\ \A u \in Uploader : pc[u] = "put" /\ policy[u] # "overwrite" =>
        \A f \in seen[u] : ~(f.folder = parent[u] /\ f.name = candidate[u])

Inv == PhaseInv /\ ContentInv /\ IdInv /\ TargetInv /\ NameInv

-------------------------------------------------------------------------------
LEMMA InitInv == Init => Inv
<1> SUFFICES ASSUME Init PROVE Inv
    OBVIOUS
<1>1. PhaseInv
    BY UploadAssumption DEF Init, PhaseInv
<1>2. ContentInv /\ IdInv
    BY UploadAssumption DEF Init, ContentInv, IdInv
<1>3. TargetInv /\ NameInv
    BY DEF Init, TargetInv, NameInv
<1>4. QED
    BY <1>1, <1>2, <1>3 DEF Inv

\* One upload goes on to its next request, or reports, without storing anything.
LEMMA MoveInv ==
    ASSUME Inv, NEW u \in Uploader,
           NEW next \in {"create", "read", "check", "put", "done"},
           pc[u] \notin {"idle", "done"}, pc[u] = "put" => next = "done",
           pc' = [pc EXCEPT ![u] = next],
           outcome' \in [Uploader -> {"ok", "conflict", "failed", None}],
           next = "done" <=> outcome'[u] # None,
           \A v \in Uploader : v # u => outcome'[v] = outcome[v] /\ parent'[v] = parent[v],
           DOMAIN parent' = Uploader,
           parent'[u] = parent[u] \/ pc[u] \in {"folder", "create"},
           next = "check" /\ policy[u] = "overwrite" => provider = "google_drive",
           next = "put" /\ policy[u] # "overwrite" => ~Taken(parent'[u], candidate[u]),
           UNCHANGED <<provider, files, policy, seen, candidate, target>>
    PROVE  Inv'
<1>1. PhaseInv'
    BY DEF Inv, PhaseInv
<1>2. \A v \in Uploader : pc[v] = "done" => pc'[v] = "done"
    BY DEF Inv, PhaseInv
<1>3. ContentInv' /\ IdInv'
    BY <1>2 DEF Inv, ContentInv, IdInv
<1>4. TargetInv'
    <2>1. ASSUME NEW v \in Uploader, target[v] # None
          PROVE  pc'[v] \in {"put", "done"} /\ parent'[v] = parent[v]
        BY <2>1 DEF Inv, PhaseInv, TargetInv
    <2>2. QED
        BY <2>1 DEF Inv, TargetInv
<1>5. NameInv'
    <2>1. ASSUME NEW v \in Uploader, pc'[v] = "put", policy[v] # "overwrite", NEW f \in seen[v]
          PROVE  ~(f.folder = parent'[v] /\ f.name = candidate[v])
        <3>1. CASE v = u
            <4>1. next = "put" /\ Taken(f.folder, f.name)
                BY <2>1, <3>1 DEF Inv, PhaseInv, NameInv
            <4>2. QED
                BY <2>1, <3>1, <4>1
        <3>2. CASE v # u
            BY <2>1, <3>2 DEF Inv, PhaseInv, NameInv
        <3>3. QED
            BY <3>1, <3>2
    <2>2. QED
        BY <2>1 DEF Inv, NameInv, Taken
<1>6. QED
    BY <1>1, <1>3, <1>4, <1>5 DEF Inv

LEMMA StartInv ==
    ASSUME Inv, NEW u \in Uploader, NEW caller, NEW p \in Chosen, Start(u, caller, p)
    PROVE  Inv'
<1>1. /\ pc[u] = "idle" /\ pc' = [pc EXCEPT ![u] = "folder"]
      /\ policy' = [policy EXCEPT ![u] = collision_policy_for(caller, p)]
      /\ seen' = [seen EXCEPT ![u] = files]
      /\ UNCHANGED <<provider, files, outcome, parent, candidate, target>>
    BY DEF Start, At, Go
<1>2. collision_policy_for(caller, p) \in {"rename", "overwrite", "fail"}
    BY UploadAssumption DEF collision_policy_for
<1>3. PhaseInv'
    BY <1>1, <1>2, UploadAssumption DEF Inv, PhaseInv
<1>4. \A v \in Uploader : pc[v] = "done" => pc'[v] = "done"
    BY <1>1 DEF Inv, PhaseInv
<1>5. ContentInv' /\ IdInv'
    BY <1>1, <1>4 DEF Inv, ContentInv, IdInv
<1>6. policy[u] = None /\ target[u] = None /\ candidate[u] = Leaf
    BY <1>1, UploadAssumption DEF Inv, PhaseInv, TargetInv, NameInv
<1>7. TargetInv'
    BY <1>1, <1>6 DEF Inv, PhaseInv, TargetInv
<1>8. NameInv'
    <2>1. \A v \in Uploader : v # u => pc'[v] = pc[v] /\ policy'[v] = policy[v] /\ seen'[v] = seen[v]
        BY <1>1 DEF Inv, PhaseInv
    <2>2. pc'[u] = "folder" /\ seen'[u] = files
        BY <1>1 DEF Inv, PhaseInv
    <2>3. \A f \in files : Taken(f.folder, f.name)
        BY DEF Taken
    <2>4. QED
        BY <1>1, <1>6, <2>1, <2>2, <2>3 DEF Inv, NameInv, Taken
<1>9. QED
    BY <1>3, <1>5, <1>7, <1>8 DEF Inv

\* Requests about the folder, reading the file, and every report that stores nothing.
LEMMA PreparingInv ==
    ASSUME Inv, NEW u \in Uploader,
           EnsureFolder(u) \/ FindFolder(u) \/ CreateFolder(u) \/ ReadLocal(u)
               \/ PutRefused(u) \/ GiveUp(u)
    PROVE  Inv'
<1>1. PhaseInv
    BY DEF Inv
<1>2. ASSUME EnsureFolder(u)
      PROVE  Inv'
    <2>1. /\ pc[u] = "folder" /\ pc' = [pc EXCEPT ![u] = "read"]
          /\ parent' = [parent EXCEPT ![u] = 1]
          /\ UNCHANGED <<provider, files, policy, seen, candidate, target, outcome>>
        BY <1>2 DEF EnsureFolder, At, Go, started
    <2>2. QED
        BY <1>1, <2>1, MoveInv DEF PhaseInv
<1>3. FindFolder(u) => Inv'
    BY MoveInv DEF FindFolder, At, Go, Inv, PhaseInv, started
<1>4. CreateFolder(u) => Inv'
    BY MoveInv, UploadAssumption DEF CreateFolder, At, Go, Report, Inv, PhaseInv, started
<1>5. ReadLocal(u) => Inv'
    BY MoveInv DEF ReadLocal, At, Go, Inv, PhaseInv, started
<1>6. ASSUME PutRefused(u) \/ GiveUp(u)
      PROVE  Inv'
    <2>1. PICK o \in {"conflict", "failed"} : Report(u, o)
        BY <1>6 DEF PutRefused, GiveUp
    <2>2. /\ pc[u] \notin {"idle", "done"}
          /\ UNCHANGED <<provider, files, policy, seen, parent, candidate, target>>
        BY <1>6 DEF PutRefused, GiveUp, At, started
    <2>3. pc' = [pc EXCEPT ![u] = "done"] /\ outcome' = [outcome EXCEPT ![u] = o] /\ o # None
        BY <2>1, UploadAssumption DEF Report
    <2>4. QED
        BY <1>1, <2>2, <2>3, MoveInv DEF PhaseInv
<1>7. QED
    BY <1>2, <1>3, <1>4, <1>5, <1>6

\* Looking at a name: it is free, it is to be replaced, or another one is tried.
LEMMA CheckInv ==
    ASSUME Inv, NEW u \in Uploader, Check(u)
    PROVE  Inv'
<1>1. /\ PhaseInv
      /\ pc[u] = "check" /\ outcome[u] = None
      /\ UNCHANGED <<provider, files, policy, seen, parent>>
    BY DEF Inv, PhaseInv, Check, At, started
<1>2. CASE Found(u) = {} /\ Go(u, "put") /\ UNCHANGED <<candidate, target>>
    <2>1. ~Taken(parent[u], candidate[u])
        BY <1>2 DEF Found, Taken
    <2>2. QED
        BY <1>1, <1>2, <2>1, MoveInv DEF PhaseInv, Go
<1>3. CASE /\ policy[u] = "overwrite"
           /\ \E f \in Found(u) : target' = [target EXCEPT ![u] = f.id]
           /\ Go(u, "put")
           /\ UNCHANGED candidate
    <2>1. PICK f \in files : /\ f.folder = parent[u] /\ f.name = candidate[u]
                             /\ target' = [target EXCEPT ![u] = f.id]
        BY <1>3 DEF Found
    <2>2. pc' = [pc EXCEPT ![u] = "put"] /\ UNCHANGED outcome
        BY <1>3 DEF Go
    <2>3. PhaseInv'
        BY <1>1, <1>3, <2>1, <2>2 DEF PhaseInv
    <2>4. ContentInv' /\ IdInv'
        BY <1>1, <2>2 DEF Inv, PhaseInv, ContentInv, IdInv
    <2>5. \A g \in files : g.id = f.id => g.folder = parent[u] /\ g.name = candidate[u]
        BY <2>1 DEF Inv, IdInv
    <2>6. TargetInv'
        <3>1. ASSUME NEW v \in Uploader, v # u
              PROVE  target'[v] = target[v] /\ pc'[v] = pc[v]
            BY <1>1, <2>1, <2>2, <3>1 DEF PhaseInv
        <3>2. provider = "google_drive" /\ target'[u] = f.id /\ pc'[u] = "put"
            BY <1>1, <1>3, <2>1, <2>2 DEF PhaseInv
        <3>3. QED
            BY <1>1, <1>3, <2>1, <2>5, <3>1, <3>2 DEF Inv, TargetInv
    <2>7. NameInv'
        BY <1>1, <1>3, <2>2 DEF Inv, PhaseInv, NameInv, Taken
    <2>8. QED
        BY <2>3, <2>4, <2>6, <2>7 DEF Inv
<1>4. CASE /\ Found(u) # {}
           /\ policy[u] = "rename"
           /\ candidate' = [candidate EXCEPT ![u] = rename_with_suffix(@.n + 1)]
           /\ UNCHANGED <<pc, outcome, target>>
    <2>1. \E f \in files : f.name = Leaf
        BY <1>4 DEF Found, Inv, NameInv
    <2>2. target[u] = None
        BY <1>4 DEF Inv, TargetInv
    <2>3. PhaseInv' /\ ContentInv' /\ IdInv'
        BY <1>1, <1>4 DEF Inv, PhaseInv, ContentInv, IdInv
    <2>4. \A v \in Uploader : v # u => candidate'[v] = candidate[v]
        BY <1>1, <1>4 DEF PhaseInv
    <2>5. TargetInv'
        BY <1>1, <1>4, <2>2, <2>4 DEF Inv, TargetInv
    <2>6. NameInv'
        BY <1>1, <1>4, <2>1, <2>4 DEF Inv, NameInv, Taken
    <2>7. QED
        BY <2>3, <2>5, <2>6 DEF Inv
<1>5. CASE Report(u, "conflict") /\ UNCHANGED <<candidate, target>>
    BY <1>1, <1>5, UploadAssumption, MoveInv DEF PhaseInv, Report
<1>6. QED
    BY <1>2, <1>3, <1>4, <1>5 DEF Check

-------------------------------------------------------------------------------
\* What the writing request takes away: files of the name it writes, and only
\* if it was told to overwrite, or on Nextcloud.
LEMMA ReplacedFiles ==
    ASSUME Inv, NEW u \in Uploader, pc[u] = "put", ~Refused(u)
    PROVE  /\ Replaced(u) \subseteq Found(u)
           /\ provider # "google_drive" => Replaced(u) = Found(u)
           /\ provider \notin {"nextcloud"} /\ Replaced(u) # {} => policy[u] = "overwrite"
           /\ provider = "google_drive" => Replaced(u) = {f \in files : f.id = target[u]}
<1>1. CASE provider = "nextcloud"
    BY <1>1 DEF Replaced
<1>2. CASE provider = "google_drive"
    <2>1. Replaced(u) = {f \in files : f.id = target[u]}
        BY <1>2 DEF Replaced
    <2>2. CASE target[u] = None
        BY <1>2, <2>1, <2>2, UploadAssumption DEF Inv, IdInv
    <2>3. CASE target[u] # None
        BY <1>2, <2>1, <2>3 DEF Inv, TargetInv, Found
    <2>4. QED
        BY <2>2, <2>3
<1>3. CASE provider \in {"onedrive", "dropbox"}
    <2>1. Replaced(u) = IF policy[u] = "overwrite" THEN Found(u) ELSE {}
        BY <1>3 DEF Replaced
    <2>2. QED
        BY <1>3, <2>1 DEF Refused
<1>4. QED
    BY <1>1, <1>2, <1>3 DEF Inv, PhaseInv, Provider

NewFile(u) == [folder |-> parent[u], name |-> candidate[u], content |-> u,
               id |-> IF target[u] = None THEN u ELSE target[u]]

LEMMA PutStep ==
    ASSUME Inv, NEW u \in Uploader, Put(u)
    PROVE  /\ pc[u] = "put" /\ ~Refused(u) /\ outcome[u] = None
           /\ files' = (files \ Replaced(u)) \union {NewFile(u)}
           /\ pc' = [pc EXCEPT ![u] = "done"]
           /\ \E o \in {"ok", "failed"} : outcome' = [outcome EXCEPT ![u] = o]
           /\ UNCHANGED <<provider, policy, seen, parent, candidate, target>>
BY DEF Put, At, NewFile, Report, started, Inv, PhaseInv

LEMMA PutInv ==
    ASSUME Inv, NEW u \in Uploader, Put(u)
    PROVE  Inv'
<1>1. /\ pc[u] = "put" /\ ~Refused(u) /\ outcome[u] = None
      /\ files' = (files \ Replaced(u)) \union {NewFile(u)}
      /\ pc' = [pc EXCEPT ![u] = "done"]
      /\ UNCHANGED <<provider, policy, seen, parent, candidate, target>>
    BY PutStep
<1>2. PICK o \in {"ok", "failed"} : outcome' = [outcome EXCEPT ![u] = o]
    BY PutStep
<1>3. PhaseInv'
    BY <1>1, <1>2, UploadAssumption DEF Inv, PhaseInv
<1>4. pc'[u] = "done" /\ \A v \in Uploader : v # u => pc'[v] = pc[v]
    BY <1>1 DEF Inv, PhaseInv
<1>5. /\ NewFile(u).folder = parent[u] /\ NewFile(u).name = candidate[u]
      /\ NewFile(u).content = u
      /\ NewFile(u).id = IF target[u] = None THEN u ELSE target[u]
    BY DEF NewFile
<1>6. Replaced(u) \subseteq Found(u)
    BY <1>1, ReplacedFiles
<1>7. ContentInv'
    <2>1. \A f \in files : f.content # u
        BY <1>1 DEF Inv, ContentInv
    <2>2. \A f, g \in files' : f.content = g.content => f = g
        BY <1>1, <1>5, <2>1 DEF Inv, ContentInv
    <2>3. \A f \in files', v \in Uploader : f.content = v => pc'[v] = "done"
        BY <1>1, <1>4, <1>5 DEF Inv, ContentInv
    <2>4. QED
        BY <2>2, <2>3 DEF ContentInv
<1>8. ASSUME target[u] = None
      PROVE  IdInv' /\ TargetInv'
    <2>1. NewFile(u).id = u /\ \A f \in files : f.id # u
        BY <1>1, <1>5, <1>8 DEF Inv, IdInv
    <2>2. IdInv'
        <3>1. \A f \in files' : f = NewFile(u) \/ f \in files
            BY <1>1
        <3>2. \A f, g \in files' : f.id = g.id => f = g
            BY <2>1, <3>1 DEF Inv, IdInv
        <3>3. \A f \in files' : f.id \in Uploader \union {Old}
            BY <2>1, <3>1 DEF Inv, IdInv
        <3>4. \A f \in files', v \in Uploader : f.id = v => pc'[v] = "done"
            BY <1>4, <2>1, <3>1 DEF Inv, IdInv
        <3>5. QED
            BY <3>2, <3>3, <3>4 DEF IdInv
    <2>3. TargetInv'
        <3>1. SUFFICES ASSUME NEW v \in Uploader, target[v] # None
              PROVE  /\ provider = "google_drive" /\ policy[v] = "overwrite"
                     /\ pc'[v] \in {"put", "done"}
                     /\ \E f \in files' : f.id = target[v]
                     /\ \A f \in files' : f.id = target[v] =>
                            f.folder = parent[v] /\ f.name = candidate[v]
            BY <1>1 DEF TargetInv
        <3>2. /\ provider = "google_drive" /\ policy[v] = "overwrite"
              /\ pc[v] \in {"put", "done"}
              /\ \E f \in files : f.id = target[v]
              /\ \A f \in files : f.id = target[v] =>
                            f.folder = parent[v] /\ f.name = candidate[v]
            BY <3>1 DEF Inv, TargetInv
        <3>3. pc'[v] \in {"put", "done"} /\ target[v] # u
            BY <1>4, <2>1, <3>2
        <3>4. Replaced(u) = {}
            BY <1>1, <1>8, <3>2, ReplacedFiles, UploadAssumption DEF Inv, IdInv
        <3>5. QED
            BY <1>1, <2>1, <3>2, <3>3, <3>4
    <2>4. QED
        BY <2>2, <2>3
<1>9. ASSUME target[u] # None
      PROVE  IdInv' /\ TargetInv'
    <2>1. /\ NewFile(u).id = target[u]
          /\ Replaced(u) = {f \in files : f.id = target[u]}
          /\ \E f \in files : f.id = target[u]
        BY <1>1, <1>5, <1>9, ReplacedFiles DEF Inv, TargetInv
    <2>2. IdInv'
        <3>1. \A f \in files' : f = NewFile(u) \/ (f \in files /\ f.id # target[u])
            BY <1>1, <2>1
        <3>2. \A f, g \in files' : f.id = g.id => f = g
            BY <2>1, <3>1 DEF Inv, IdInv
        <3>3. PICK g \in files : g.id = target[u]
            BY <2>1
        <3>4. \A f \in files' : f.id \in Uploader \union {Old}
            BY <2>1, <3>1, <3>3 DEF Inv, IdInv
        <3>5. \A f \in files', v \in Uploader : f.id = v => pc'[v] = "done"
            BY <1>4, <2>1, <3>1, <3>3 DEF Inv, IdInv
        <3>6. QED
            BY <3>2, <3>4, <3>5 DEF IdInv
    <2>3. TargetInv'
        <3>1. SUFFICES ASSUME NEW v \in Uploader, target[v] # None
              PROVE  /\ provider = "google_drive" /\ policy[v] = "overwrite"
                     /\ pc'[v] \in {"put", "done"}
                     /\ \E f \in files' : f.id = target[v]
                     /\ \A f \in files' : f.id = target[v] =>
                            f.folder = parent[v] /\ f.name = candidate[v]
            BY <1>1 DEF TargetInv
        <3>2. /\ provider = "google_drive" /\ policy[v] = "overwrite"
              /\ pc[v] \in {"put", "done"}
              /\ \E f \in files : f.id = target[v]
              /\ \A f \in files : f.id = target[v] =>
                            f.folder = parent[v] /\ f.name = candidate[v]
            BY <3>1 DEF Inv, TargetInv
        <3>3. pc'[v] \in {"put", "done"}
            BY <1>4, <3>2
        <3>4. CASE target[v] = target[u]
            <4>1. parent[v] = parent[u] /\ candidate[v] = candidate[u]
                BY <1>9, <2>1, <3>2, <3>4 DEF Inv, TargetInv
            <4>2. QED
                BY <1>1, <1>5, <2>1, <3>2, <3>3, <3>4, <4>1
        <3>5. CASE target[v] # target[u]
            BY <1>1, <2>1, <3>2, <3>3, <3>5
        <3>6. QED
            BY <3>4, <3>5
    <2>4. QED
        BY <2>2, <2>3
<1>10. NameInv'
    <2>1. ASSUME NEW folder, NEW name, Taken(folder, name)
          PROVE  Taken(folder, name)'
        <3>1. PICK f \in files : f.folder = folder /\ f.name = name
            BY <2>1 DEF Taken
        <3>2. CASE f \in Replaced(u)
            BY <1>1, <1>5, <1>6, <3>1, <3>2 DEF Found, Taken
        <3>3. CASE f \notin Replaced(u)
            BY <1>1, <3>1, <3>3 DEF Taken
        <3>4. QED
            BY <3>2, <3>3
    <2>2. (\E f \in files : f.name = Leaf) => \E f \in files' : f.name = Leaf
        BY <2>1 DEF Taken
    <2>3. \A v \in Uploader : pc'[v] = "put" => pc[v] = "put"
        BY <1>4
    <2>4. QED
        BY <1>1, <2>1, <2>2, <2>3 DEF Inv, NameInv
<1>11. QED
    BY <1>3, <1>7, <1>8, <1>9, <1>10 DEF Inv

LEMMA TickInv ==
    ASSUME Inv, UNCHANGED <<provider, files, pc, started, parent, candidate, target, outcome>>
    PROVE  Inv'
BY DEF started, Inv, PhaseInv, ContentInv, IdInv, TargetInv, NameInv, Taken

LEMMA NextInv == Inv /\ [Next]_vars => Inv'
<1> SUFFICES ASSUME Inv, [Next]_vars PROVE Inv'
    OBVIOUS
<1>1. CASE UNCHANGED vars \/ Tick
    BY <1>1, TickInv DEF vars, Tick
<1>2. ASSUME NEW u \in Uploader, Request(u) \/ GiveUp(u)
      PROVE  Inv'
    BY <1>2, PreparingInv, CheckInv, PutInv DEF Request
<1>3. QED
    BY <1>1, <1>2, StartInv DEF Next

THEOREM Invariance == Spec => []Inv
BY InitInv, NextInv, PTL DEF Spec

-------------------------------------------------------------------------------
(* The steps of RemoteUpload as steps of RemoteDirectory.                  *)

Starts == [v \in Uploader |-> Plain(seen[v])]

\* Uploads stored one file each, so nothing is confused when ids are dropped.
LEMMA PlainFaithful ==
    ASSUME Inv, NEW F \in SUBSET files, NEW f \in files
    PROVE  [folder |-> f.folder, name |-> f.name, content |-> f.content] \in Plain(F)
                <=> f \in F
BY DEF Plain, Inv, ContentInv

LEMMA StutterStep ==
    ASSUME UNCHANGED <<provider, files, policy, seen, outcome>>
    PROVE  UNCHANGED Directory!vars
BY DEF Directory!vars, Service, Plain

LEMMA BeginStep ==
    ASSUME Inv, NEW u \in Uploader, NEW caller, NEW p \in Chosen, Start(u, caller, p)
    PROVE  Directory!Begin(u)
<1>1. /\ pc[u] = "idle"
      /\ policy' = [policy EXCEPT ![u] = collision_policy_for(caller, p)]
      /\ seen' = [seen EXCEPT ![u] = files]
      /\ UNCHANGED <<provider, files, outcome>>
    BY DEF Start, At, Go
<1>2. collision_policy_for(caller, p) \in {"rename", "overwrite", "fail"}
    BY UploadAssumption DEF collision_policy_for
<1>3. policy[u] = None
    BY <1>1 DEF Inv, PhaseInv
<1>4. Starts' = [Starts EXCEPT ![u] = Plain(files)]
    BY <1>1 DEF Starts, Inv, PhaseInv
<1>5. UNCHANGED <<Service, Plain(files)>>
    BY <1>1 DEF Service, Plain
<1>6. QED
    BY <1>1, <1>2, <1>3, <1>4, <1>5 DEF Directory!Begin, Starts

\* A report that stores nothing.
LEMMA RefuseStep ==
    ASSUME Inv, NEW u \in Uploader, NEW o, Report(u, o),
           UNCHANGED <<provider, files, policy, seen>>,
           pc[u] \notin {"idle", "done"},
           \/ o = "failed"
           \/ /\ o = "conflict"
              /\ policy[u] # "overwrite" \/ provider = "onedrive"
              /\ (\E f \in files : f.name = Leaf) \/ provider \in {"onedrive", "dropbox"}
    PROVE  Directory!Refuse(u, outcome'[u])
<1>1. policy[u] # None /\ outcome[u] = None
    BY DEF Inv, PhaseInv
<1>2. outcome' = [outcome EXCEPT ![u] = o] /\ outcome'[u] = o
    BY DEF Report, Inv, PhaseInv
<1>3. UNCHANGED <<Service, Plain(files), Starts>>
    BY DEF Service, Plain, Starts
<1>4. provider \in {"onedrive", "dropbox"} => Service = "exclusive"
    BY DEF Service
<1>5. (\E f \in files : f.name = Leaf) => \E f \in Plain(files) : f.name = Leaf
    <2>1. ASSUME NEW f \in files, f.name = Leaf
          PROVE  \E g \in Plain(files) : g.name = Leaf
        <3>1. [folder |-> f.folder, name |-> f.name, content |-> f.content] \in Plain(files)
            BY DEF Plain
        <3>2. QED
            BY <2>1, <3>1
    <2>2. QED
        BY <2>1
<1>6. QED
    BY <1>1, <1>2, <1>3, <1>4, <1>5 DEF Directory!Refuse, Starts

LEMMA PutStores ==
    ASSUME Inv, NEW u \in Uploader, Put(u)
    PROVE  \E f \in Plain(files)' : Directory!Store(u, f.folder, f.name, outcome'[u])
<1> DEFINE new == [folder |-> parent[u], name |-> candidate[u], content |-> u]
           gone == Plain(Replaced(u))
<1>1. /\ pc[u] = "put" /\ ~Refused(u) /\ outcome[u] = None
      /\ files' = (files \ Replaced(u)) \union {NewFile(u)}
      /\ UNCHANGED <<provider, policy, seen, parent, candidate, target>>
    BY PutStep
<1>2. PICK o \in {"ok", "failed"} : outcome' = [outcome EXCEPT ![u] = o]
    BY PutStep
<1>3. outcome'[u] = o /\ policy[u] # None
    BY <1>1, <1>2 DEF Inv, PhaseInv
<1>4. candidate[u] # Leaf => policy[u] = "rename"
    BY DEF Inv, NameInv
<1>5. /\ Replaced(u) \subseteq Found(u)
      /\ provider # "google_drive" => Replaced(u) = Found(u)
      /\ provider # "nextcloud" /\ Replaced(u) # {} => policy[u] = "overwrite"
    BY <1>1, ReplacedFiles
<1>6. Directory!At(parent[u], candidate[u]) = Plain(Found(u))
    BY DEF Directory!At, Plain, Found
<1>7. gone \in SUBSET Directory!At(parent[u], candidate[u])
    BY <1>5, <1>6 DEF Plain
<1>8. \A f \in gone : Directory!MayReplace(u, f)
    <2>1. SUFFICES ASSUME policy[u] # "overwrite", NEW f \in gone
                   PROVE  Service = "replacing" /\ f \notin Plain(seen[u])
        BY DEF Directory!MayReplace
    <2>2. Replaced(u) # {} /\ f.folder = parent[u] /\ f.name = candidate[u]
        BY <1>5 DEF Plain, Found
    <2>3. provider = "nextcloud"
        BY <1>5, <2>1, <2>2
    <2>4. \A g \in seen[u] : ~(g.folder = parent[u] /\ g.name = candidate[u])
        BY <1>1, <2>1 DEF Inv, NameInv
    <2>5. QED
        BY <2>2, <2>3, <2>4 DEF Service, Plain
<1>9. Directory!NameFree(parent[u], candidate[u], gone)
    <2>1. CASE provider = "google_drive"
        BY <2>1 DEF Service, Directory!NameFree
    <2>2. CASE provider # "google_drive"
        BY <1>5, <1>6, <2>2 DEF Directory!NameFree
    <2>3. QED
        BY <2>1, <2>2
<1>10. Plain(files)' = (Plain(files) \ gone) \union {new}
    <2>1. Replaced(u) \subseteq files
        BY <1>5 DEF Found
    <2>2. Plain(files \ Replaced(u)) = Plain(files) \ gone
        BY <2>1, PlainFaithful, SMTT(30) DEF Plain
    <2>3. Plain(files)' = Plain(files \ Replaced(u)) \union {new}
        <3>1. Plain(files)' = Plain(files')
            BY DEF Plain
        <3>2. Plain({NewFile(u)}) = {new}
            BY DEF Plain, NewFile
        <3>3. \A A, B : Plain(A \union B) = Plain(A) \union Plain(B)
            BY DEF Plain
        <3>4. QED
            BY <1>1, <3>1, <3>2, <3>3
    <2>4. QED
        BY <2>2, <2>3
<1>11. UNCHANGED <<Service, Starts, policy>>
    BY <1>1 DEF Service, Starts, Plain
<1>12. Directory!Store(u, parent[u], candidate[u], o)
    BY <1>1, <1>2, <1>3, <1>4, <1>7, <1>8, <1>9, <1>10, <1>11 DEF Directory!Store, Starts
<1>13. new \in Plain(files)' /\ new.folder = parent[u] /\ new.name = candidate[u]
    BY <1>10
<1>14. QED
    BY <1>3, <1>12, <1>13

LEMMA StepImplements ==
    ASSUME Inv, [Next]_vars
    PROVE  [Directory!Next]_(Directory!vars)
<1>1. CASE UNCHANGED vars \/ Tick
    BY <1>1, StutterStep DEF vars, Tick, started
<1>2. ASSUME NEW u \in Uploader, EnsureFolder(u) \/ FindFolder(u) \/ ReadLocal(u)
      PROVE  UNCHANGED Directory!vars
    BY <1>2, StutterStep DEF EnsureFolder, FindFolder, ReadLocal, Go, started
<1>3. ASSUME NEW u \in Uploader, CreateFolder(u)
      PROVE  UNCHANGED Directory!vars \/ Directory!Refuse(u, outcome'[u])
    <2>1. UNCHANGED <<provider, files, policy, seen>> /\ pc[u] = "create"
        BY <1>3 DEF CreateFolder, At, started
    <2>2. CASE Go(u, "read")
        BY <2>1, <2>2, StutterStep DEF Go
    <2>3. CASE provider = "onedrive" /\ Report(u, "conflict")
        BY <2>1, <2>3, RefuseStep
    <2>4. QED
        BY <1>3, <2>2, <2>3 DEF CreateFolder
<1>4. ASSUME NEW u \in Uploader, Check(u)
      PROVE  UNCHANGED Directory!vars \/ Directory!Refuse(u, outcome'[u])
    <2>1. UNCHANGED <<provider, files, policy, seen>> /\ pc[u] = "check"
        BY <1>4 DEF Check, At, started
    <2>2. CASE Go(u, "put") \/ UNCHANGED <<pc, outcome, target>>
        BY <2>1, <2>2, StutterStep DEF Go
    <2>3. CASE /\ Found(u) # {} /\ policy[u] \in {"fail", "rename"}
               /\ Report(u, "conflict")
        <3>1. \E f \in files : f.name = Leaf
            BY <2>3 DEF Found, Inv, NameInv
        <3>2. QED
            BY <2>1, <2>3, <3>1, RefuseStep
    <2>4. QED
        BY <1>4, <2>2, <2>3 DEF Check
<1>5. ASSUME NEW u \in Uploader, PutRefused(u)
      PROVE  Directory!Refuse(u, outcome'[u])
    BY <1>5, RefuseStep DEF PutRefused, Refused, At, started
<1>6. ASSUME NEW u \in Uploader, GiveUp(u)
      PROVE  Directory!Refuse(u, outcome'[u])
    BY <1>6, RefuseStep DEF GiveUp, started
<1>7. QED
    BY <1>1, <1>2, <1>3, <1>4, <1>5, <1>6, BeginStep, PutStores
    DEF Next, Request, Directory!Next

\* Whatever the requests of any number of uploads interleave to, each takes
\* effect at one instant or not at all, and replaces what was there before only
\* when it was told to.
THEOREM UploadsImplementDirectory == Spec => UploadsAreAtomic
<1>1. Init => Directory!Init
    BY DEF Init, Directory!Init, Service, Plain, Provider
<1>2. Inv /\ [Next]_vars => [Directory!Next]_(Directory!vars)
    BY StepImplements
<1>3. QED
    BY <1>1, <1>2, Invariance, PTL DEF Spec, UploadsAreAtomic, Directory!Spec

-------------------------------------------------------------------------------
(* What was reported stays stored.                                         *)

Reported(u) == outcome[u] = "ok"

\* The file f is what became of the upload u.
Fate(u, f) ==
    /\ f.folder = parent[u] /\ f.name = candidate[u]
    /\ \/ f.content = u
       \/ f.content \in Uploader /\ policy[f.content] = "overwrite"
       \/ provider = "nextcloud"

\* A step that stores nothing and reports no success changes nobody's fate.
LEMMA FateKept ==
    ASSUME Inv, Inv', ReportedIsStored, NEW w \in Uploader,
           UNCHANGED <<provider, files>>,
           pc[w] # "done",
           \A v \in Uploader : v # w =>
                /\ outcome'[v] = outcome[v] /\ policy'[v] = policy[v]
                /\ parent'[v] = parent[v] /\ candidate'[v] = candidate[v],
           outcome'[w] # "ok"
    PROVE  ReportedIsStored'
<1>1. SUFFICES ASSUME NEW u \in Uploader, outcome'[u] = "ok"
               PROVE  \E f \in files : Fate(u, f)'
    BY DEF ReportedIsStored, Fate
<1>2. u # w /\ Reported(u)
    BY <1>1 DEF Reported
<1>3. PICK f \in files : Fate(u, f)
    BY <1>2 DEF ReportedIsStored, Fate, Reported
<1>4. f.content # w
    BY DEF Inv, ContentInv
<1>5. QED
    BY <1>2, <1>3, <1>4 DEF Fate

LEMMA PutFate ==
    ASSUME Inv, ReportedIsStored, NEW w \in Uploader, Put(w)
    PROVE  ReportedIsStored'
<1>1. /\ pc[w] = "put" /\ ~Refused(w) /\ outcome[w] = None
      /\ files' = (files \ Replaced(w)) \union {NewFile(w)}
      /\ UNCHANGED <<provider, policy, parent, candidate>>
    BY PutStep
<1>2. \A v \in Uploader : v # w => outcome'[v] = outcome[v]
    BY PutStep DEF Inv, PhaseInv
<1>3. /\ NewFile(w) \in files' /\ NewFile(w).content = w
      /\ NewFile(w).folder = parent[w] /\ NewFile(w).name = candidate[w]
    BY <1>1 DEF NewFile
<1>4. SUFFICES ASSUME NEW u \in Uploader, outcome'[u] = "ok"
               PROVE  \E f \in files' : Fate(u, f)
    BY <1>1 DEF ReportedIsStored, Fate
<1>5. CASE u = w
    BY <1>3, <1>5 DEF Fate
<1>6. CASE u # w
    <2>1. PICK f \in files : Fate(u, f)
        BY <1>2, <1>4, <1>6 DEF ReportedIsStored, Fate
    <2>2. CASE f \in Replaced(w)
        <3>1. /\ f.folder = parent[w] /\ f.name = candidate[w]
              /\ provider = "nextcloud" \/ policy[w] = "overwrite"
            BY <1>1, <2>2, ReplacedFiles DEF Found
        <3>2. QED
            BY <1>3, <2>1, <3>1 DEF Fate
    <2>3. CASE f \notin Replaced(w)
        BY <1>1, <2>1, <2>3
    <2>4. QED
        BY <2>2, <2>3
<1>7. QED
    BY <1>5, <1>6

LEMMA StoredInv == Inv /\ ReportedIsStored /\ [Next]_vars => ReportedIsStored'
<1> SUFFICES ASSUME Inv, ReportedIsStored, [Next]_vars PROVE ReportedIsStored'
    OBVIOUS
<1>1. Inv'
    BY NextInv
<1>2. CASE UNCHANGED vars \/ Tick
    BY <1>2 DEF vars, Tick, started, ReportedIsStored
<1>3. ASSUME NEW w \in Uploader, NEW caller, NEW p \in Chosen, Start(w, caller, p)
      PROVE  ReportedIsStored'
    <2>1. /\ pc[w] # "done" /\ outcome[w] # "ok"
          /\ UNCHANGED <<provider, files, outcome, parent, candidate>>
        BY <1>3, UploadAssumption DEF Start, At, Go, Inv, PhaseInv
    <2>2. \A v \in Uploader : v # w => policy'[v] = policy[v]
        BY <1>3 DEF Start, Inv, PhaseInv
    <2>3. QED
        BY <1>1, <2>1, <2>2, FateKept
<1>4. ASSUME NEW w \in Uploader,
             EnsureFolder(w) \/ FindFolder(w) \/ CreateFolder(w) \/ ReadLocal(w)
                \/ Check(w) \/ PutRefused(w) \/ GiveUp(w)
      PROVE  ReportedIsStored'
    <2>1. /\ pc[w] # "done" /\ outcome[w] = None
          /\ UNCHANGED <<provider, files, policy>>
        BY <1>4 DEF EnsureFolder, FindFolder, CreateFolder, ReadLocal, Check, PutRefused,
                    GiveUp, At, started, Inv, PhaseInv
    <2>2. \A v \in Uploader : v # w => parent'[v] = parent[v] /\ candidate'[v] = candidate[v]
        BY <1>4 DEF EnsureFolder, FindFolder, CreateFolder, ReadLocal, Check, PutRefused,
                    GiveUp, Inv, PhaseInv
    <2>3. /\ outcome'[w] # "ok"
          /\ \A v \in Uploader : v # w => outcome'[v] = outcome[v]
        <3>1. UNCHANGED outcome \/ \E o \in {"conflict", "failed"} : Report(w, o)
            BY <1>4 DEF EnsureFolder, FindFolder, CreateFolder, ReadLocal, Check, PutRefused,
                        GiveUp, Go
        <3>2. QED
            BY <2>1, <3>1, UploadAssumption DEF Report, Inv, PhaseInv
    <2>4. QED
        BY <1>1, <2>1, <2>2, <2>3, FateKept
<1>5. QED
    BY <1>2, <1>3, <1>4, PutFate DEF Next, Request

\* What was reported as uploaded is stored under that name, or was replaced there
\* by an upload that was told to overwrite, or by any other on Nextcloud.
THEOREM ReportedStaysStored == Spec => []ReportedIsStored
<1>1. Init => ReportedIsStored
    BY UploadAssumption DEF Init, ReportedIsStored
<1>2. Inv /\ ReportedIsStored /\ [Next]_vars => ReportedIsStored'
    BY StoredInv
<1>3. QED
    BY <1>1, <1>2, Invariance, PTL DEF Spec
===============================================================================
