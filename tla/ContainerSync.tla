---------------------------- MODULE ContainerSync ----------------------------
(***************************************************************************)
(* One encrypted container, several processes with a copy of it: the agent *)
(* (RAM), transfers that refresh a token and push it back, zz z between    *)
(* reading the file and handing over what it read, the TUI that adds and   *)
(* deletes profiles, and a wipe.  No lock is shared: the agent's queue of  *)
(* connections is the only thing that orders them.                         *)
(*                                                                         *)
(* Sources: src/commands/z_unlock.rs, src/commands/mod.rs, w_wipe.rs,      *)
(* src/agent/state.rs, tui/src/cli.rs, tui/src/agent_kill.rs.  Writing the *)
(* file is one step here; AtomicReplace looks inside it.                   *)
(***************************************************************************)
EXTENDS Naturals, Sequences, Functions

CONSTANTS
    Alias,     \* names of inner profiles
    Transfer,  \* commands that move files with the active profile
    Unlocker,  \* runs of zz z
    Tui,       \* runs of the TUI
    Wiper,     \* runs of zz w or of the wipe of the TUI
    MayFail,   \* the agent's writes may fail, the TUI may die before it tells the agent
    MAX_TOKEN, \* bound: tokens the providers issue
    MAX_EDITS, \* bound: profiles one run of the TUI adds or deletes
    None

ASSUME SyncAssumption ==
    /\ MAX_TOKEN \in Nat /\ MAX_EDITS \in Nat
    /\ MayFail \in BOOLEAN
    /\ None \notin Transfer
    /\ (Transfer \union Unlocker) \intersect (Tui \union Wiper) = {}
    /\ Transfer \intersect Unlocker = {}
    /\ Tui \intersect Wiper = {}

Process == Transfer \union Unlocker \union Tui \union Wiper

\* What a container holds: the token of each profile, numbered as issued.
ProfileSet == UNION {[A -> 0 .. MAX_TOKEN] : A \in (SUBSET Alias) \ {{}}}

VARIABLES
    file,    \* the container file
    ram,     \* the set the agent holds, or None when locked
    queue,   \* requests waiting in the agent's socket, in order of connection
    serving, \* the transfer whose connection the agent is serving
    pc,      \* where each process is
    copy,    \* the set a process read or wrote last
    using,   \* the profile a transfer works with
    issued,  \* the last token issued
    edits,   \* profiles each TUI has added or deleted
    added,   \* history: profiles a TUI reported as added, not deleted since
    untold   \* history: the file may differ from RAM and nobody will say so

vars == <<file, ram, queue, serving, pc, copy, using, issued, edits, added, untold>>

TypeOK ==
    /\ file \in ProfileSet \union {None}
    /\ ram \in ProfileSet \union {None}
    /\ queue \in Seq([by : Process, op : {"GetProfile", "Exit"}]
            \union [by : Process, op : {"Unlock", "UpdateProfileSet"}, set : ProfileSet])
    /\ serving \in Transfer \union {None}
    /\ pc \in [Process -> {"idle", "prompt", "rotated", "waiting", "working", "open",
            "written", "remove", "done"}]
    /\ copy \in [Process -> ProfileSet \union {None}]
    /\ using \in [Transfer -> Alias \union {None}]
    /\ issued \in 0 .. MAX_TOKEN
    /\ edits \in [Tui -> 0 .. MAX_EDITS]
    /\ added \in SUBSET Alias
    /\ untold \in BOOLEAN

\* A container with some of the profiles; the agent holds it or is locked.
Init ==
    /\ file \in {s \in ProfileSet : \A a \in DOMAIN s : s[a] = 0}
    /\ ram \in {file, None}
    /\ queue = <<>>
    /\ serving = None
    /\ pc = [p \in Process |-> "idle"]
    /\ copy = [p \in Process |-> None]
    /\ using = [t \in Transfer |-> None]
    /\ issued = 0
    /\ edits = [u \in Tui |-> 0]
    /\ added = {}
    /\ untold = FALSE

-------------------------------------------------------------------------------
Step(p, here, next) == pc[p] = here /\ pc' = [pc EXCEPT ![p] = next]

Enqueue(request) == queue' = Append(queue, request)

\* A client that waits five seconds in vain goes away; its request stays.  The
\* wipe of the TUI does not wait at all.
GiveUp(p) ==
    /\ serving # None \/ p \in Wiper
    /\ Step(p, "waiting", IF p \in Wiper THEN "remove" ELSE "done")
    /\ UNCHANGED <<file, ram, queue, serving, copy, using, issued, edits, added, untold>>

\* with_remote: GetProfile on a connection kept until the transfer is over.
StartTransfer(t) ==
    /\ Step(t, "idle", "waiting")
    /\ Enqueue([by |-> t, op |-> "GetProfile"])
    /\ UNCHANGED <<file, ram, serving, copy, using, issued, edits, added, untold>>

FinishTransfer(t) ==
    /\ Step(t, "working", "done")
    /\ serving' = IF serving = t THEN None ELSE serving
    /\ UNCHANGED <<file, ram, queue, copy, using, issued, edits, added, untold>>

\* The agent holds a set with the alias the transfer pushes to.
Takes(t) == ram # None /\ using[t] \in DOMAIN ram

\* The provider refreshed the token during the transfer: pending_provider_update
\* is sent as UpdateProfile, and the agent writes all it has in RAM.
FinishWithNewToken(t) ==
    /\ issued < MAX_TOKEN
    /\ Step(t, "working", "done")
    /\ serving' = IF serving = t THEN None ELSE serving
    /\ issued' = issued + 1
    /\ ram' = IF Takes(t) THEN [ram EXCEPT ![using[t]] = issued + 1] ELSE ram
    /\ \/ /\ Takes(t)
          /\ file' = ram'
          /\ untold' = FALSE
       \/ /\ MayFail \/ ~Takes(t)
          /\ file' = file
          /\ untold' = TRUE
    /\ UNCHANGED <<queue, copy, using, edits, added>>

\* unlock_local reads the container before it asks for the passphrase.
ReadContainer(z) ==
    /\ file # None
    /\ Step(z, "idle", "prompt")
    /\ copy' = [copy EXCEPT ![z] = file]
    /\ UNCHANGED <<file, ram, queue, serving, using, issued, edits, added, untold>>

\* maybe_rotate_kek re-encrypts what was read.
Rotate(z) ==
    /\ Step(z, "prompt", "rotated")
    /\ file' = copy[z]
    /\ UNCHANGED <<ram, queue, serving, copy, using, issued, edits, added, untold>>

SendUnlock(z) ==
    /\ pc[z] \in {"prompt", "rotated"}
    /\ pc' = [pc EXCEPT ![z] = "waiting"]
    /\ Enqueue([by |-> z, op |-> "Unlock", set |-> copy[z]])
    /\ UNCHANGED <<file, ram, serving, copy, using, issued, edits, added, untold>>

\* A wrong passphrase, or the alias picker was left.
AbortUnlock(z) ==
    /\ pc[z] \in {"prompt", "rotated"}
    /\ pc' = [pc EXCEPT ![z] = "done"]
    /\ untold' = (untold \/ pc[z] = "rotated")
    /\ UNCHANGED <<file, ram, queue, serving, copy, using, issued, edits, added>>

\* The TUI decrypts the container once and then works on its copy.
OpenContainer(u) ==
    /\ file # None
    /\ Step(u, "idle", "open")
    /\ copy' = [copy EXCEPT ![u] = file]
    /\ UNCHANGED <<file, ram, queue, serving, using, issued, edits, added, untold>>

WriteCopy(u, s) ==
    /\ edits[u] < MAX_EDITS
    /\ Step(u, "open", "written")
    /\ edits' = [edits EXCEPT ![u] = @ + 1]
    /\ copy' = [copy EXCEPT ![u] = s]
    /\ file' = s
    /\ UNCHANGED <<ram, queue, serving, using, issued, untold>>

\* perform_add_inner_profile
AddProfile(u, a) ==
    /\ copy[u] # None
    /\ a \notin DOMAIN copy[u]
    /\ WriteCopy(u, [x \in DOMAIN copy[u] \union {a} |-> IF x = a THEN 0 ELSE copy[u][x]])
    /\ added' = added \union {a}

\* fault: the last profile may be deleted
DeleteAnyProfile(u, a) ==
    /\ copy[u] # None
    /\ a \in DOMAIN copy[u]
    /\ WriteCopy(u, Restrict(copy[u], DOMAIN copy[u] \ {a}))
    /\ added' = added \ {a}

\* perform_delete_inner_profile refuses to write an empty container.
DeleteProfile(u, a) ==
    /\ copy[u] # None
    /\ a \in DOMAIN copy[u]
    /\ DOMAIN copy[u] # {a}
    /\ WriteCopy(u, Restrict(copy[u], DOMAIN copy[u] \ {a}))
    /\ added' = added \ {a}

\* fault: the agent is not told
ForgetToPush(u) ==
    /\ Step(u, "written", "open")
    /\ UNCHANGED <<file, ram, queue, serving, copy, using, issued, edits, added, untold>>

\* try_update_profile_set waits two seconds for the answer and ignores it.
PushSet(u) ==
    /\ Step(u, "written", "open")
    /\ Enqueue([by |-> u, op |-> "UpdateProfileSet", set |-> copy[u]])
    /\ UNCHANGED <<file, ram, serving, copy, using, issued, edits, added, untold>>

\* The TUI is left, or dies before the agent was told.
QuitTui(u) ==
    /\ pc[u] = "open" \/ (MayFail /\ pc[u] = "written")
    /\ pc' = [pc EXCEPT ![u] = "done"]
    /\ untold' = (untold \/ pc[u] = "written")
    /\ UNCHANGED <<file, ram, queue, serving, copy, using, issued, edits, added>>

AskExit(w) ==
    /\ Step(w, "idle", "waiting")
    /\ Enqueue([by |-> w, op |-> "Exit"])
    /\ UNCHANGED <<file, ram, serving, copy, using, issued, edits, added, untold>>

RemoveContainer(w) ==
    /\ Step(w, "remove", "done")
    /\ file' = None
    /\ added' = {}
    /\ untold' = TRUE
    /\ UNCHANGED <<ram, queue, serving, copy, using, issued, edits>>

-------------------------------------------------------------------------------
(* The agent takes the next connection when the previous one is closed.    *)

\* fault: connections are served side by side
AnyTurn == TRUE

MyTurn == serving = None

Next1 == Head(queue)

Open(p) == pc[p] = "waiting"

Close(p) == pc' = IF Open(p) THEN [pc EXCEPT ![p] = "done"] ELSE pc

ServeGetProfile ==
    /\ queue # <<>> /\ MyTurn /\ Next1.op = "GetProfile"
    /\ queue' = Tail(queue)
    /\ LET t == Next1.by
       IN \/ /\ ram # None /\ Open(t)
             /\ \E a \in DOMAIN ram : using' = [using EXCEPT ![t] = a]
             /\ copy' = [copy EXCEPT ![t] = ram]
             /\ serving' = t
             /\ pc' = [pc EXCEPT ![t] = "working"]
          \/ /\ ram = None \/ ~Open(t)
             /\ Close(t)
             /\ UNCHANGED <<using, copy, serving>>
    /\ UNCHANGED <<file, ram, issued, edits, added, untold>>

ServeUnlock ==
    /\ queue # <<>> /\ MyTurn /\ Next1.op = "Unlock"
    /\ queue' = Tail(queue)
    /\ ram' = Next1.set
    /\ untold' = (file # Next1.set)
    /\ Close(Next1.by)
    /\ UNCHANGED <<file, serving, copy, using, issued, edits, added>>

ServeUpdateProfileSet ==
    /\ queue # <<>> /\ MyTurn /\ Next1.op = "UpdateProfileSet"
    /\ queue' = Tail(queue)
    /\ \/ /\ ram = None
          /\ UNCHANGED <<file, ram, untold>>
       \/ /\ ram # None
          /\ ram' = Next1.set
          /\ \/ file' = Next1.set /\ untold' = FALSE
             \/ MayFail /\ file' = file /\ untold' = TRUE
    /\ UNCHANGED <<serving, pc, copy, using, issued, edits, added>>

\* The process ends only if the reply finds somebody; what waits in its socket
\* is lost, and those who wait read an end of file.
ServeExit ==
    /\ queue # <<>> /\ MyTurn /\ Next1.op = "Exit"
    /\ \/ /\ Open(Next1.by)
          /\ ram' = None
          /\ queue' = <<>>
          /\ pc' = [p \in Process |->
                IF pc[p] # "waiting" THEN pc[p] ELSE IF p \in Wiper THEN "remove" ELSE "done"]
       \/ /\ ~Open(Next1.by)
          /\ queue' = Tail(queue)
          /\ UNCHANGED <<ram, pc>>
    /\ UNCHANGED <<file, serving, copy, using, issued, edits, added, untold>>

\* The accept loop looks at the TTL before every accept.
AutoLock ==
    /\ serving = None
    /\ ram # None
    /\ ram' = None
    /\ UNCHANGED <<file, queue, serving, pc, copy, using, issued, edits, added, untold>>

Next ==
    \/ \E t \in Transfer : StartTransfer(t) \/ FinishTransfer(t) \/ FinishWithNewToken(t)
    \/ \E z \in Unlocker : ReadContainer(z) \/ Rotate(z) \/ SendUnlock(z) \/ AbortUnlock(z)
    \/ \E u \in Tui :
        \/ OpenContainer(u) \/ PushSet(u) \/ QuitTui(u)
        \/ \E a \in Alias : AddProfile(u, a) \/ DeleteProfile(u, a)
    \/ \E w \in Wiper : AskExit(w) \/ RemoveContainer(w)
    \/ \E p \in Process : GiveUp(p)
    \/ ServeGetProfile \/ ServeUnlock \/ ServeUpdateProfileSet \/ ServeExit
    \/ AutoLock

Spec == Init /\ [][Next]_vars

-------------------------------------------------------------------------------
\* Nobody is about to tell the agent about a change of the file.
AllTold ==
    /\ serving = None
    /\ queue = <<>>
    /\ \A u \in Tui : pc[u] # "written"
    /\ \A z \in Unlocker : pc[z] # "rotated"

\* Pushes repair every interleaving of edits and transfers: once everyone has
\* told the agent, its RAM and the file agree, unless a write failed, a process
\* left before it told, or zz z handed over what was no longer in the file.
SyncedWhenTold == ram # None /\ AllTold /\ ~untold => file = ram

\* A token pushed by a transfer replaces the token that transfer worked with,
\* never one pushed by another meanwhile: the connection is kept from GetProfile
\* to UpdateProfile, and the agent serves nobody else in between.
TokenPushIsFresh ==
    [][\A t \in Transfer :
        pc[t] = "working" /\ ram' # ram /\ pc'[t] = "done" =>
            ram[using[t]] = copy[t][using[t]]]_vars

\* A profile the TUI reported as added is in the file once everyone has told the
\* agent, as the test append_then_token_refresh_preserves_appended_profile wants.
AddedProfileKept ==
    file # None /\ AllTold => added \subseteq DOMAIN file
===============================================================================
