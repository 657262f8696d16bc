---------------------------- MODULE RemoteDirectory ----------------------------
(***************************************************************************)
(* What an upload promises, whatever requests it is made of: a store of    *)
(* named files in which every upload takes effect at one instant or not at *)
(* all.  How much the name protects depends on the service: some refuse to *)
(* create a name that is taken, one replaces whatever has it, one keeps    *)
(* several files of one name.  RemoteUpload implements this specification. *)
(***************************************************************************)
CONSTANTS
    Uploader, \* uploads, each of one file
    Leaf,     \* the name they ask for
    None

VARIABLES
    service, \* "exclusive", "replacing" or "repeating": what its names mean
    stored,  \* what is stored: a set of records with folder, name and content
    policy,  \* what each upload may do to a name that is taken, or None
    seen,    \* what was stored when the upload began
    outcome  \* what it reported

vars == <<service, stored, policy, seen, outcome>>

At(folder, name) == {f \in stored : f.folder = folder /\ f.name = name}

Init ==
    /\ service \in {"exclusive", "replacing", "repeating"}
    /\ policy = [u \in Uploader |-> None]
    /\ seen = [u \in Uploader |-> {}]
    /\ outcome = [u \in Uploader |-> None]

Begin(u) ==
    /\ policy[u] = None
    /\ \E p \in {"rename", "overwrite", "fail"} : policy' = [policy EXCEPT ![u] = p]
    /\ seen' = [seen EXCEPT ![u] = stored]
    /\ UNCHANGED <<service, stored, outcome>>

\* Only overwrite may replace what was there when the upload began.
MayReplace(u, f) ==
    \/ policy[u] = "overwrite"
    \/ service = "replacing" /\ f \notin seen[u]

\* Whether the name is free again after the files in gone have given way.
NameFree(folder, name, gone) ==
    service # "repeating" => At(folder, name) \subseteq gone

\* Only rename may end up under another name.  A reply that is lost leaves the
\* file stored and the upload reported as failed.
Store(u, folder, name, o) ==
    /\ policy[u] # None /\ outcome[u] = None
    /\ o \in {"ok", "failed"}
    /\ name # Leaf => policy[u] = "rename"
    /\ \E gone \in SUBSET At(folder, name) :
        /\ \A f \in gone : MayReplace(u, f)
        /\ NameFree(folder, name, gone)
        /\ stored' = (stored \ gone)
                \union {[folder |-> folder, name |-> name, content |-> u]}
    /\ outcome' = [outcome EXCEPT ![u] = o]
    /\ UNCHANGED <<service, policy, seen>>

\* A conflict is reported only when the name is taken, or when the service
\* refused to create the folder a second time.
Refuse(u, o) ==
    /\ policy[u] # None /\ outcome[u] = None
    /\ \/ o = "failed"
       \/ /\ o = "conflict"
          /\ policy[u] # "overwrite" \/ service = "exclusive"
          /\ (\E f \in stored : f.name = Leaf) \/ service = "exclusive"
    /\ outcome' = [outcome EXCEPT ![u] = o]
    /\ UNCHANGED <<service, stored, policy, seen>>

Next ==
    \E u \in Uploader :
        \/ Begin(u)
        \/ \E f \in stored' : Store(u, f.folder, f.name, outcome'[u])
        \/ Refuse(u, outcome'[u])

Spec == Init /\ [][Next]_vars
===============================================================================
