------------------------------ MODULE AgentServer ------------------------------
(***************************************************************************)
(* The agent process around AgentState: the accept loop and                *)
(* handle_connection of src/agent/server.rs, and the processes connected   *)
(* to it (src/agent/client.rs, tui/src/agent_kill.rs).                     *)
(*                                                                         *)
(* The loop serves one connection at a time and blocks on it until the     *)
(* other end closes, an error ends it, or an Exit was answered.  What a    *)
(* client wrote stays in the socket after the client is gone: a client     *)
(* that timed out, crashed or never waits for the reply leaves a request   *)
(* the agent executes later.                                               *)
(***************************************************************************)
EXTENDS AgentState

CONSTANTS
    Client, \* connections that may exist at the same time
    Sent    \* the requests each of them may send

VARIABLES
    peer,      \* client end of each connection: absent, ready, waiting or closed
    inbox,     \* the request buffered in the socket of each connection
    backlog,   \* connections not yet accepted, in order of connection
    serving,   \* the connection handle_connection is in, or None
    exit_flag, \* AgentState.exit_flag
    alive,     \* the process has not left run()
    fetched    \* history: the connection that was given the profile and is still
               \* served, None once it has itself taken the session away

links   == <<peer, inbox, backlog>>
service == <<serving, fetched>>
svars   == <<vars, links, service, exit_flag, alive>>

\* A frame that does not decode: a client built against another wire layout.
Garbled == [op |-> "Garbled"]

Request ==
    [op : {"Unlock"}, set : ProfileSet, kek : Kek, alias : Alias, ttl : Ttl \union {None}]
        \union [op : {"GetProfile", "Lock", "Exit", "Ping", "Status"}]
        \union [op : {"UpdateProfile"}, alias : Alias, profile : Profile]
        \union [op : {"UpdateProfileSet"}, set : ProfileSet]
        \union [op : {"SetActiveAlias"}, alias : Alias]
        \union [op : {"ListRemote"}, key : Key]
        \union [op : {"InvalidateRemote"}, prefix : Prefix]
        \union {Garbled}

ASSUME ServerAssumption ==
    /\ Sent \in [Client -> SUBSET Request]
    /\ None \notin Client
    /\ None \notin Request

Reply == {"Pong", "Unlocked", "Profile", "Updated", "RemoteList", "Locked", "Exited",
          "Status", "NotUnlocked", "AliasNotFound", "Io"}

ServerTypeOK ==
    /\ TypeOK
    /\ peer \in [Client -> {"absent", "ready", "waiting", "closed"}]
    /\ inbox \in [Client -> Request \union {None}]
    /\ backlog \in Seq(Client)
    /\ serving \in Client \union {None}
    /\ exit_flag \in BOOLEAN
    /\ alive \in BOOLEAN
    /\ fetched \in Client \union {None}

ServerInit ==
    /\ Init
    /\ peer = [c \in Client |-> "absent"]
    /\ inbox = [c \in Client |-> None]
    /\ backlog = <<>>
    /\ serving = None
    /\ exit_flag = FALSE
    /\ alive = TRUE
    /\ fetched = None

-------------------------------------------------------------------------------
(* Clients *)

Queued(c) == \E n \in 1 .. Len(backlog) : backlog[n] = c

\* AgentClient::connect and try_exit_agent: connect to the listening socket
\* and write the token, which needs no accept on the other side.
Connect(c) ==
    /\ alive
    /\ peer[c] = "absent"
    /\ ~Queued(c)
    /\ peer' = [peer EXCEPT ![c] = "ready"]
    /\ backlog' = Append(backlog, c)
    /\ UNCHANGED <<vars, inbox, service, exit_flag, alive>>

\* AgentClient::request writes a frame and waits for the reply.
Send(c, q) ==
    /\ peer[c] = "ready"
    /\ serving = c \/ Queued(c)
    /\ peer' = [peer EXCEPT ![c] = "waiting"]
    /\ inbox' = [inbox EXCEPT ![c] = q]
    /\ UNCHANGED <<vars, backlog, service, exit_flag, alive>>

\* The client is done, its read timed out, it crashed, or it never meant to
\* read the reply.  What it wrote stays where it is.
Close(c) ==
    /\ peer[c] \in {"ready", "waiting"}
    /\ peer' = [peer EXCEPT ![c] = IF serving = c \/ Queued(c) THEN "closed" ELSE "absent"]
    /\ UNCHANGED <<vars, inbox, backlog, service, exit_flag, alive>>

-------------------------------------------------------------------------------
(* The accept loop.  Between two waits it takes no time worth a tick. *)

\* fault: the loop does not wait for the connection it has handed out
NeverBlocked == alive

AtLoop  == alive /\ serving = None
Expired == session_age # None /\ session_age > ttl

\* fault: idleness is measured from the wrong instant
IdleSinceUnlock == ~is_unlocked /\ session_age # None /\ session_age > IDLE_EXIT

IdleOut == ~is_unlocked /\ idle_age > IDLE_EXIT

\* Once run() returns, the socket is closed: waiting clients read an end of file.
LeaveRun ==
    /\ alive' = FALSE
    /\ backlog' = <<>>
    /\ inbox' = [c \in Client |-> None]
    /\ peer' = [c \in Client |-> IF peer[c] = "closed" THEN "absent" ELSE peer[c]]
    /\ UNCHANGED <<vars, service, exit_flag>>

LoopExitRequested ==
    /\ AtLoop
    /\ exit_flag
    /\ LeaveRun

LoopCheckTtl ==
    /\ AtLoop
    /\ ~exit_flag
    /\ check_ttl_and_lock
    /\ UNCHANGED <<links, service, exit_flag, alive>>

LoopIdleExit ==
    /\ AtLoop
    /\ ~exit_flag
    /\ ~Expired
    /\ IdleOut
    /\ LeaveRun

\* accept, then the peer and token checks of handle_connection, then touch().
LoopAccept ==
    /\ AtLoop
    /\ ~exit_flag
    /\ ~Expired
    /\ ~IdleOut
    /\ backlog # <<>>
    /\ serving' = Head(backlog)
    /\ backlog' = Tail(backlog)
    /\ touch
    /\ UNCHANGED <<secrets, session_age, caches, disk, peer, inbox, exit_flag, alive, fetched>>

Dispatch(q, r) ==
    \/ q.op = "Unlock" /\ Unlock(q.set, q.kek, q.alias, q.ttl, r)
    \/ q.op = "GetProfile" /\ GetProfile(r)
    \/ /\ q.op = "UpdateProfile"
       /\ UpdateProfile(q.alias, q.profile, r)
       /\ is_unlocked => profile_set' \in ProfileSet
    \/ q.op = "UpdateProfileSet" /\ UpdateProfileSet(q.set, r)
    \/ q.op = "SetActiveAlias" /\ SetActiveAlias(q.alias, r)
    \/ q.op = "ListRemote" /\ ListRemote(q.key, r)
    \/ q.op = "InvalidateRemote" /\ InvalidateRemote(q.prefix, r)
    \/ q.op = "Lock" /\ Lock(r)
    \/ q.op = "Ping" /\ r = "Pong" /\ Enquire(r)
    \/ q.op = "Status" /\ r = "Status" /\ Enquire(r)
    \/ q.op = "Exit" /\ r = "Exited" /\ Enquire(r)

\* handle_connection returns: the socket is dropped on this side.
Hangup(c) ==
    /\ serving' = None
    /\ peer' = [peer EXCEPT ![c] = IF @ = "closed" THEN "absent" ELSE @]

\* fault: the request loop goes on after Exit
AnswerAndGoOn(c) ==
    \/ /\ peer[c] = "closed"
       /\ Hangup(c)
       /\ UNCHANGED exit_flag
    \/ /\ peer[c] = "waiting"
       /\ peer' = [peer EXCEPT ![c] = "ready"]
       /\ exit_flag' = (exit_flag \/ inbox[c].op = "Exit")
       /\ UNCHANGED serving

\* The reply cannot be written to a closed peer: the turn ends in an error
\* before the exit flag is considered.
Answer(c) ==
    \/ /\ peer[c] = "closed"
       /\ Hangup(c)
       /\ UNCHANGED exit_flag
    \/ /\ peer[c] = "waiting"
       /\ inbox[c].op = "Exit"
       /\ exit_flag' = TRUE
       /\ serving' = None
       /\ peer' = [peer EXCEPT ![c] = "ready"]
    \/ /\ peer[c] = "waiting"
       /\ inbox[c].op # "Exit"
       /\ peer' = [peer EXCEPT ![c] = "ready"]
       /\ UNCHANGED <<serving, exit_flag>>

\* What the connection served knows of the session, after a reply to q.
Knows(c, q, r) ==
    IF r = "Profile" THEN c
    ELSE IF q.op \in {"Lock", "UpdateProfileSet"} THEN None ELSE fetched

\* One turn of the request loop.
Serve(c) ==
    /\ alive
    /\ serving = c
    /\ inbox[c] \notin {None, Garbled}
    /\ Answer(c)
    /\ \E r \in Reply :
          /\ Dispatch(inbox[c], r)
          /\ fetched' = IF serving' = None THEN None ELSE Knows(c, inbox[c], r)
    /\ inbox' = [inbox EXCEPT ![c] = None]
    /\ UNCHANGED <<backlog, alive>>

\* fault: the end of the stream is not noticed
UnreadableOnly(c) == inbox[c] = Garbled

\* read_frame meets the end of the stream, or the frame does not decode.
Unreadable(c) ==
    \/ inbox[c] = None /\ peer[c] = "closed"
    \/ inbox[c] = Garbled

EndConnection(c) ==
    /\ alive
    /\ serving = c
    /\ Unreadable(c)
    /\ inbox' = [inbox EXCEPT ![c] = None]
    /\ Hangup(c) /\ fetched' = None
    /\ UNCHANGED <<vars, backlog, exit_flag, alive>>

-------------------------------------------------------------------------------
\* The loop polls every 100 ms, so time passes while a connection is open or
\* when an iteration of the loop would find nothing to do.
LoopWaits == ~exit_flag /\ ~Expired /\ ~IdleOut /\ backlog = <<>>

ServerTick ==
    /\ alive
    /\ serving # None \/ LoopWaits
    /\ Tick
    /\ UNCHANGED <<links, service, exit_flag, alive>>

Loop == LoopExitRequested \/ LoopCheckTtl \/ LoopIdleExit \/ LoopAccept

ServerNext ==
    \/ Loop
    \/ \E c \in Client :
        \/ Connect(c)
        \/ \E q \in Sent[c] : Send(c, q)
        \/ Close(c)
        \/ Serve(c)
        \/ EndConnection(c)
    \/ ServerTick

ServerSpec == ServerInit /\ [][ServerNext]_svars

\* The process runs, its clock ticks, and no client keeps a connection open for
\* ever: every command ends, if only by its HTTP and socket timeouts.
Fairness ==
    /\ WF_svars(Loop)
    /\ \A c \in Client :
        /\ WF_svars(Serve(c))
        /\ WF_svars(EndConnection(c))
        /\ WF_svars(Close(c))
    /\ WF_svars(ServerTick)

FairServerSpec == ServerSpec /\ Fairness

-------------------------------------------------------------------------------
\* A transfer that was given the profile finds the session, with an active
\* profile, when it comes back over the same connection to push a refreshed
\* token, however long it has worked and whatever is waiting to be accepted: the
\* TTL, an Exit and the requests of others take effect between connections only.
FetchedIsHeld == fetched # None => serving = fetched /\ HasActive

\* Asking for the status or being served from the cache does not keep a session
\* alive: its age goes back only when a client obtains the profile, unlocks, or
\* makes the agent call the provider.
PollingDoesNotRenew ==
    [][session_age # None /\ session_age' # None /\ session_age' < session_age =>
            /\ serving # None
            /\ inbox[serving] # None
            /\ \/ inbox[serving].op \in {"GetProfile", "Unlock"}
               \/ inbox[serving].op = "ListRemote" /\ ~CacheHit(inbox[serving].key)]_svars

\* After an answered Exit the agent serves nobody, however many connections
\* are waiting with requests already written.
AnsweredExitIsFinal == exit_flag => serving = None

\* Whoever connects is served unless the agent stops first, although the loop
\* serves one connection at a time and every earlier one blocks it.
ConnectedIsServed ==
    \A c \in Client : Queued(c) ~> (serving = c \/ ~alive)

\* An expired session is locked, or renewed by a client that was connected in
\* time, even when clients keep coming: the loop looks at the TTL before every
\* accept.
ExpiredSessionEnds == Expired ~> (~Expired \/ ~alive)

\* An answered Exit ends the process; and when clients stop coming, the session
\* expires and then the idle agent exits: secrets do not stay in RAM for ever.
AgentExits ==
    /\ exit_flag ~> ~alive
    /\ <>[](\A c \in Client : peer[c] = "absent") => <>~alive
===============================================================================
