---------------------------- MODULE AgentLifecycle ----------------------------
(***************************************************************************)
(* How agents come and go, and the three files they and the commands share *)
(* without any lock: the socket, the token and the lock file of the        *)
(* runtime directory.  Agents run src/agent/server.rs (run); the commands  *)
(* are zz z, zz q, zz w and a transfer (src/commands/z_unlock.rs,          *)
(* q_lock.rs, w_wipe.rs, mod.rs), with the eviction of an agent of another *)
(* build (src/agent/lock.rs).  Every file operation is a step of its own.  *)
(*                                                                         *)
(* A file is modelled by the agent that wrote it.  Clocks are left out: a  *)
(* limit of the agent may be reached at any time it is being waited for.   *)
(***************************************************************************)
EXTENDS Naturals, Sequences, FiniteSets

CONSTANTS
    Agent,      \* agent processes that may be started
    OldBuild,   \* those started by an earlier build of the binary
    Client,     \* commands, each run once
    Letters,    \* the commands run: a subset of {"z", "q", "w", "s"}
    MayCrash,   \* agents may be killed from outside or fail while starting
    MaySlow,    \* a wait may time out although the agent would have answered
    Nothing

ASSUME LifecycleAssumption ==
    /\ OldBuild \subseteq Agent
    /\ Nothing \notin Agent \union Client
    /\ Nothing \notin {"z", "q", "w", "s", "ok", "failed"}
    /\ Letters \subseteq {"z", "q", "w", "s"}
    /\ MayCrash \in BOOLEAN
    /\ MaySlow \in BOOLEAN

VARIABLES
    dir,       \* the runtime directory exists
    socket,    \* the agent bound to the socket file, or Nothing
    token,     \* the agent whose token is in the token file, or Nothing
    lock,      \* the agent named by agent.lock, or Nothing
    apc,       \* where each agent is in run()
    secret,    \* each agent: unlocked
    exit_flag, \* each agent: AgentState.exit_flag
    backlog,   \* each agent: connections not yet accepted
    serving,   \* each agent: the transfer whose connection it is serving
    cpc,       \* where each command is
    cmd,       \* which command it is
    conn,      \* the agent it is connected to
    tok,       \* the token it presented, until the agent has looked at it
    result,    \* how it ended
    crashed    \* history: an agent died without its own clean-up

files     == <<dir, socket, token, lock>>
agents    == <<apc, secret, exit_flag, backlog, serving>>
commands  == <<cpc, cmd, conn, tok, result>>
lifecycle == <<files, agents, commands, crashed>>

Booting == {"boot", "unlink", "bind", "write_token", "write_lock"}
Leaving == {"rm_socket", "rm_token", "rm_lock"}
Alive(a) == apc[a] \in Booting \union {"running"} \union Leaving

TypeOK ==
    /\ dir \in BOOLEAN
    /\ socket \in Agent \union {Nothing}
    /\ token \in Agent \union {Nothing}
    /\ lock \in Agent \union {Nothing}
    /\ apc \in [Agent -> {"absent", "running", "gone"} \union Booting \union Leaving]
    /\ secret \in [Agent -> BOOLEAN]
    /\ exit_flag \in [Agent -> BOOLEAN]
    /\ backlog \in [Agent -> Seq(Client)]
    /\ serving \in [Agent -> Client \union {Nothing}]
    /\ \A a \in Agent : serving[a] # Nothing => cpc[serving[a]] = "working"
    /\ cpc \in [Client -> {"idle", "stale", "kill", "evict_socket", "evict_token",
            "evict_lock", "exists", "wait", "connect", "handshake", "asked", "working",
            "wipe_socket", "wipe_token", "wipe_dir", "done"}]
    /\ cmd \in [Client -> Letters \union {Nothing}]
    /\ conn \in [Client -> Agent \union {Nothing}]
    /\ tok \in [Client -> Agent \union {Nothing}]
    /\ result \in [Client -> {Nothing, "ok", "failed"}]
    /\ crashed \in BOOLEAN

\* Nothing runs, or an agent of the earlier build is up with its files.
LifecycleInit ==
    /\ \E o \in OldBuild \union {Nothing} :
        /\ dir = (o # Nothing)
        /\ socket = o /\ token = o /\ lock = o
        /\ apc = [a \in Agent |-> IF a = o THEN "running" ELSE "absent"]
        /\ secret \in {f \in [Agent -> BOOLEAN] : \A a \in Agent : f[a] => a = o}
    /\ exit_flag = [a \in Agent |-> FALSE]
    /\ backlog = [a \in Agent |-> <<>>]
    /\ serving = [a \in Agent |-> Nothing]
    /\ cpc = [c \in Client |-> "idle"]
    /\ cmd = [c \in Client |-> Nothing]
    /\ conn = [c \in Client |-> Nothing]
    /\ tok = [c \in Client |-> Nothing]
    /\ result = [c \in Client |-> Nothing]
    /\ crashed = FALSE

-------------------------------------------------------------------------------
(* The agent: run() from ensure_dir to the last remove_file.               *)

\* RAM and sockets of a process that ends.
Forget(a) ==
    /\ secret' = [secret EXCEPT ![a] = FALSE]
    /\ exit_flag' = [exit_flag EXCEPT ![a] = FALSE]
    /\ backlog' = [backlog EXCEPT ![a] = <<>>]

AtAgent(a, here, next) == apc[a] = here /\ apc' = [apc EXCEPT ![a] = next]

KeepRest == UNCHANGED <<secret, exit_flag, backlog, serving, commands, crashed>>

\* ensure_dir, then the test whether the socket file exists.
Boot(a) ==
    /\ AtAgent(a, "boot", IF socket # Nothing THEN "unlink" ELSE "bind")
    /\ dir' = TRUE
    /\ UNCHANGED <<socket, token, lock>> /\ KeepRest

\* remove_file of whoever's socket it is; it fails if the file went meanwhile.
Unlink(a) ==
    /\ AtAgent(a, "unlink", IF socket # Nothing THEN "bind" ELSE "gone")
    /\ socket' = Nothing
    /\ UNCHANGED <<dir, token, lock>> /\ KeepRest

\* bind fails on an existing file and in a missing directory.
Bind(a) ==
    /\ AtAgent(a, "bind", IF dir /\ socket = Nothing THEN "write_token" ELSE "gone")
    /\ socket' = IF dir /\ socket = Nothing THEN a ELSE socket
    /\ UNCHANGED <<dir, token, lock>> /\ KeepRest

WriteToken(a) ==
    /\ AtAgent(a, "write_token", IF dir THEN "write_lock" ELSE "gone")
    /\ token' = IF dir THEN a ELSE token
    /\ UNCHANGED <<dir, socket, lock>> /\ KeepRest

\* A failure to write the lock file is ignored.
WriteLock(a) ==
    /\ AtAgent(a, "write_lock", "running")
    /\ lock' = IF dir THEN a ELSE lock
    /\ UNCHANGED <<dir, socket, token>> /\ KeepRest

AtLoop(a) == apc[a] = "running" /\ serving[a] = Nothing

AutoLock(a) ==
    /\ AtLoop(a)
    /\ ~exit_flag[a]
    /\ secret[a]
    /\ secret' = [secret EXCEPT ![a] = FALSE]
    /\ UNCHANGED <<files, apc, exit_flag, backlog, serving, commands, crashed>>

\* fault: only a requested exit ends the loop
LeaveOnExitOnly(a) ==
    /\ AtLoop(a)
    /\ exit_flag[a]
    /\ AtAgent(a, "running", "rm_socket")
    /\ UNCHANGED files /\ KeepRest

\* An Exit was answered, or the idle limit is over.
LeaveLoop(a) ==
    /\ AtLoop(a)
    /\ exit_flag[a] \/ ~secret[a]
    /\ AtAgent(a, "running", "rm_socket")
    /\ UNCHANGED files /\ KeepRest

\* fault: the socket is left to the next agent
KeepSocket(a) ==
    /\ AtAgent(a, "rm_socket", "rm_token")
    /\ UNCHANGED files /\ KeepRest

\* The clean-up removes the files by name, whichever agent wrote them.
RemoveSocket(a) ==
    /\ AtAgent(a, "rm_socket", "rm_token")
    /\ socket' = Nothing
    /\ UNCHANGED <<dir, token, lock>> /\ KeepRest

RemoveToken(a) ==
    /\ AtAgent(a, "rm_token", "rm_lock")
    /\ token' = Nothing
    /\ UNCHANGED <<dir, socket, lock>> /\ KeepRest

\* ... and then the process ends, with whatever was in RAM.
RemoveLock(a) ==
    /\ AtAgent(a, "rm_lock", "gone")
    /\ lock' = Nothing
    /\ Forget(a)
    /\ UNCHANGED <<dir, socket, token, serving, commands, crashed>>

Die(a) ==
    /\ apc' = [apc EXCEPT ![a] = "gone"]
    /\ serving' = [serving EXCEPT ![a] = Nothing]
    /\ Forget(a)

\* Killed, out of memory, powered off, or an I/O error of run() after bind.
Crash(a) ==
    /\ MayCrash
    /\ Alive(a)
    /\ Die(a)
    /\ crashed' = TRUE
    /\ UNCHANGED <<files, commands>>

-------------------------------------------------------------------------------
(* The commands *)

At(c, here) == cpc[c] = here

\* Go on at next; a command that is done has its result.
Go(c, next, outcome) ==
    /\ cpc' = [cpc EXCEPT ![c] = next]
    /\ result' = [result EXCEPT ![c] = outcome]

\* No answer: zz w proceeds with the removal, the others fail.
Unanswered(c) ==
    IF cmd[c] = "w" THEN Go(c, "wipe_socket", Nothing) ELSE Go(c, "done", "failed")

Invoke(c, command) ==
    /\ At(c, "idle")
    /\ cmd' = [cmd EXCEPT ![c] = command]
    /\ cpc' = [cpc EXCEPT ![c] = IF command \in {"z", "s"} THEN "stale" ELSE "exists"]
    /\ UNCHANGED <<files, agents, conn, tok, result, crashed>>

\* check_for_stale_agent: only the lock file tells the builds apart.
ReadLock(c) ==
    /\ At(c, "stale")
    /\ Go(c, IF lock \in OldBuild THEN "kill" ELSE "exists", Nothing)
    /\ conn' = [conn EXCEPT ![c] = IF lock \in OldBuild THEN lock ELSE Nothing]
    /\ UNCHANGED <<files, agents, cmd, tok, crashed>>

\* SIGTERM to the process the lock file names (kept in conn), for which the agent
\* has no handler.
Kill(c) ==
    /\ At(c, "kill")
    /\ IF Alive(conn[c]) THEN Die(conn[c]) ELSE UNCHANGED agents
    /\ Go(c, "evict_socket", Nothing)
    /\ conn' = [conn EXCEPT ![c] = Nothing]
    /\ UNCHANGED <<files, cmd, tok, crashed>>

EvictSocket(c) ==
    /\ At(c, "evict_socket")
    /\ socket' = Nothing
    /\ Go(c, "evict_token", Nothing)
    /\ UNCHANGED <<dir, token, lock, agents, cmd, conn, tok, crashed>>

EvictToken(c) ==
    /\ At(c, "evict_token")
    /\ token' = Nothing
    /\ Go(c, "evict_lock", Nothing)
    /\ UNCHANGED <<dir, socket, lock, agents, cmd, conn, tok, crashed>>

\* zz z goes on with a clean slate, a transfer asks the user to unlock again.
EvictLock(c) ==
    /\ At(c, "evict_lock")
    /\ lock' = Nothing
    /\ IF cmd[c] = "z" THEN Go(c, "exists", Nothing) ELSE Go(c, "done", "failed")
    /\ UNCHANGED <<dir, socket, token, agents, cmd, conn, tok, crashed>>

\* No socket means no agent: zz z starts one, zz q has nothing to lock.
TestSocket(c) ==
    /\ At(c, "exists")
    /\ \/ /\ socket # Nothing
          /\ Go(c, "connect", Nothing)
          /\ UNCHANGED apc
       \/ /\ socket = Nothing
          /\ cmd[c] = "z"
          /\ \E a \in Agent \ OldBuild : AtAgent(a, "absent", "boot")
          /\ Go(c, "wait", Nothing)
       \/ /\ socket = Nothing
          /\ cmd[c] = "q"
          /\ Go(c, "done", "ok")
          /\ UNCHANGED apc
       \/ /\ socket = Nothing
          /\ cmd[c] \in {"w", "s"}
          /\ Unanswered(c)
          /\ UNCHANGED apc
    /\ UNCHANGED <<files, secret, exit_flag, backlog, serving, cmd, conn, tok, crashed>>

\* wait_for_socket polls for two seconds.
WaitForSocket(c) ==
    /\ At(c, "wait")
    /\ \/ socket # Nothing /\ Go(c, "connect", Nothing)
       \/ /\ MaySlow \/ \A a \in Agent : apc[a] \notin Booting
          /\ socket = Nothing
          /\ Go(c, "done", "failed")
    /\ UNCHANGED <<files, agents, cmd, conn, tok, crashed>>

\* A socket file nobody listens on refuses the connection.
ConnectSocket(c) ==
    /\ At(c, "connect")
    /\ \/ /\ dir /\ socket # Nothing /\ Alive(socket)
          /\ conn' = [conn EXCEPT ![c] = socket]
          /\ backlog' = [backlog EXCEPT ![socket] = Append(@, c)]
          /\ Go(c, "handshake", Nothing)
       \/ /\ ~(dir /\ socket # Nothing /\ Alive(socket))
          /\ IF cmd[c] = "q" THEN Go(c, "done", "ok") ELSE Unanswered(c)
          /\ UNCHANGED <<conn, backlog>>
    /\ UNCHANGED <<files, apc, secret, exit_flag, serving, cmd, tok, crashed>>

\* Read the token file, present the token and write the request behind it.
Handshake(c) ==
    /\ At(c, "handshake")
    /\ tok' = [tok EXCEPT ![c] = token]
    /\ IF token = Nothing THEN Unanswered(c) ELSE Go(c, "asked", Nothing)
    /\ UNCHANGED <<files, agents, cmd, conn, crashed>>

\* handle_connection and the request in it.  A command that gave up has closed
\* its end: the request is carried out all the same, except that an Exit nobody
\* waits for is dropped.  A transfer keeps the connection until it is finished.
Serve(a) ==
    /\ AtLoop(a)
    /\ ~exit_flag[a]
    /\ backlog[a] # <<>>
    /\ LET c == Head(backlog[a])
           open == At(c, "asked")
       IN /\ ~At(c, "handshake")
          /\ backlog' = [backlog EXCEPT ![a] = Tail(@)]
          /\ tok' = [tok EXCEPT ![c] = Nothing]
          /\ \/ /\ tok[c] # a
                /\ IF open THEN Unanswered(c) ELSE UNCHANGED <<cpc, result>>
                /\ UNCHANGED <<secret, exit_flag, serving>>
             \/ /\ tok[c] = a
                /\ cmd[c] \in {"z", "q"}
                /\ secret' = [secret EXCEPT ![a] = cmd[c] = "z"]
                /\ IF open THEN Go(c, "done", "ok") ELSE UNCHANGED <<cpc, result>>
                /\ UNCHANGED <<exit_flag, serving>>
             \/ /\ tok[c] = a
                /\ cmd[c] = "w"
                /\ exit_flag' = [exit_flag EXCEPT ![a] = open]
                /\ IF open THEN Go(c, "wipe_socket", Nothing)
                   ELSE UNCHANGED <<cpc, result>>
                /\ UNCHANGED <<secret, serving>>
             \/ /\ tok[c] = a
                /\ cmd[c] = "s"
                /\ serving' = [serving EXCEPT ![a] =
                        IF open /\ secret[a] THEN c ELSE Nothing]
                /\ IF open
                   THEN IF secret[a] THEN Go(c, "working", Nothing) ELSE Unanswered(c)
                   ELSE UNCHANGED <<cpc, result>>
                /\ UNCHANGED <<secret, exit_flag>>
    /\ UNCHANGED <<files, apc, cmd, conn, crashed>>

\* fault: the agent does not notice that the connection was closed
FinishUnnoticed(c) ==
    /\ At(c, "working")
    /\ Go(c, "done", "ok")
    /\ UNCHANGED <<files, agents, cmd, conn, tok, crashed>>

\* The transfer is over and its connection closed.
Finish(c) ==
    /\ At(c, "working")
    /\ serving' = [serving EXCEPT ![conn[c]] = IF @ = c THEN Nothing ELSE @]
    /\ Go(c, "done", "ok")
    /\ UNCHANGED <<files, apc, secret, exit_flag, backlog, cmd, conn, tok, crashed>>

\* The agent ended: its socket is closed.
ReadEndOfFile(c) ==
    /\ At(c, "asked")
    /\ ~Alive(conn[c])
    /\ Unanswered(c)
    /\ UNCHANGED <<files, agents, cmd, conn, tok, crashed>>

\* Five seconds without an answer: the agent is in a transfer.
ReadTimeout(c) ==
    /\ At(c, "asked")
    /\ MaySlow \/ serving[conn[c]] # Nothing
    /\ Unanswered(c)
    /\ UNCHANGED <<files, agents, cmd, conn, tok, crashed>>

\* fault: the lock file goes first
WipeLockFirst(c) ==
    /\ At(c, "wipe_socket")
    /\ lock' = Nothing
    /\ Go(c, "wipe_token", Nothing)
    /\ UNCHANGED <<dir, socket, token, agents, cmd, conn, tok, crashed>>

WipeSocket(c) ==
    /\ At(c, "wipe_socket")
    /\ socket' = Nothing
    /\ Go(c, "wipe_token", Nothing)
    /\ UNCHANGED <<dir, token, lock, agents, cmd, conn, tok, crashed>>

WipeToken(c) ==
    /\ At(c, "wipe_token")
    /\ token' = Nothing
    /\ Go(c, "wipe_dir", Nothing)
    /\ UNCHANGED <<dir, socket, lock, agents, cmd, conn, tok, crashed>>

\* remove_dir_all takes the files an agent wrote in the meantime with it.
WipeDir(c) ==
    /\ At(c, "wipe_dir")
    /\ dir' = FALSE /\ socket' = Nothing /\ token' = Nothing /\ lock' = Nothing
    /\ Go(c, "done", "ok")
    /\ UNCHANGED <<agents, cmd, conn, tok, crashed>>

-------------------------------------------------------------------------------
StepOfAgent(a) ==
    \/ Boot(a) \/ Unlink(a) \/ Bind(a) \/ WriteToken(a) \/ WriteLock(a)
    \/ RemoveSocket(a) \/ RemoveToken(a) \/ RemoveLock(a)

StepOfCommand(c) ==
    \/ ReadLock(c) \/ Kill(c) \/ EvictSocket(c) \/ EvictToken(c) \/ EvictLock(c)
    \/ TestSocket(c) \/ WaitForSocket(c) \/ ConnectSocket(c) \/ Handshake(c)
    \/ Finish(c) \/ ReadEndOfFile(c)
    \/ WipeSocket(c) \/ WipeToken(c) \/ WipeDir(c)

LifecycleNext ==
    \/ \E a \in Agent :
        StepOfAgent(a) \/ Serve(a) \/ AutoLock(a) \/ LeaveLoop(a) \/ Crash(a)
    \/ \E c \in Client :
        \/ \E command \in Letters : Invoke(c, command)
        \/ StepOfCommand(c)
        \/ ReadTimeout(c)

LifecycleSpec == LifecycleInit /\ [][LifecycleNext]_lifecycle

\* Processes run on; a session nobody renews reaches its TTL and a locked agent
\* its idle limit, since only so many commands are run; transfers end.
Fairness ==
    /\ \A a \in Agent :
        /\ WF_lifecycle(StepOfAgent(a))
        /\ WF_lifecycle(Serve(a))
        /\ WF_lifecycle(AutoLock(a))
        /\ WF_lifecycle(LeaveLoop(a))
    /\ \A c \in Client : WF_lifecycle(StepOfCommand(c))

FairSpec == LifecycleSpec /\ Fairness

-------------------------------------------------------------------------------
Ended(a) == apc[a] \in {"absent", "gone"}

AtRest ==
    /\ \A a \in Agent : Ended(a)
    /\ \A c \in Client : cpc[c] \in {"idle", "done"}

\* However agents and commands interleave, no socket file survives the last
\* agent unless one died without its clean-up: zz z, which starts an agent only
\* when the file is missing, can always start one.
NoStaleSocket == AtRest /\ ~crashed => socket = Nothing

\* The profile is handed to an agent of the same build only, although the lock
\* file that tells the builds apart is written after the socket is bound and
\* removed by commands and by other agents: whoever removes it has removed the
\* socket before.
UnlocksOwnBuild ==
    \A c \in Client : cmd[c] = "z" /\ result[c] = "ok" => conn[c] \notin OldBuild

\* Whatever happens to the files, everything comes to rest: an agent whose files
\* were taken over or removed can be reached by nobody, but its session expires
\* and it ends by itself; and no command waits for ever for an agent that ended,
\* was killed or is busy.
ComesToRest == []<>AtRest
===============================================================================
