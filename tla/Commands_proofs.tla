---------------------------- MODULE Commands_proofs ----------------------------
(***************************************************************************)
(* The commands zz z, zz q and zz w: many of them among agents that come   *)
(* and go (AgentLifecycle), and one of them with everything it reads and   *)
(* writes (Unlock).                                                        *)
(*                                                                         *)
(* AgentLifecycle.  The passphrase never unlocks an agent of another       *)
(* build, for any number of agents and commands, crashes included.         *)
(* The lock file is the only thing that tells the builds apart, and it is  *)
(* read long before the socket is used.  What makes it enough: an agent of *)
(* the earlier build never binds again, so that once the socket is not its *)
(* it never is; and as long as the socket is its, so is the lock file,     *)
(* because everybody who removes or overwrites the lock file has removed   *)
(* or replaced the socket before.                                          *)
(*                                                                         *)
(* And no socket file outlives them all, unless an agent died: it is       *)
(* always that of an agent which will remove it, or of one that a command  *)
(* has killed and cleans up after.                                         *)
(*                                                                         *)
(* Unlock.  A container and the set in RAM are two forms of one thing: the *)
(* entries a newer build wrote are carried in RAM and restored in the file.*)
(* From file to RAM and back is the identity, and so is the other way; a   *)
(* rotation and a refreshed token touch neither the names nor the carried  *)
(* entries nor the passphrase.  The invariant UnlockInv says of a command  *)
(* that what it has taken out of the file is what the file still opens to, *)
(* of a session of the local container that it agrees with the file, and   *)
(* of a remembered name that it is one of the container's.                 *)
(***************************************************************************)
EXTENDS AgentLifecycle, Unlock, SequenceTheorems, TLAPS

\* The socket file does not lead to an agent of the earlier build.
Safe == socket \notin OldBuild

LockFileInv == socket \in OldBuild => lock \in OldBuild

\* Who is about to write or remove the lock file has seen to the socket.
AgentsInv ==
    /\ DOMAIN apc = Agent
    /\ \A a \in OldBuild : apc[a] \notin Booting
    /\ \A a \in Agent : apc[a] \in {"write_token", "write_lock", "rm_token", "rm_lock"} => Safe

CommandsInv ==
    /\ DOMAIN cpc = Client /\ DOMAIN conn = Client /\ DOMAIN result = Client
    /\ DOMAIN cmd = Client
    /\ \A c \in Client :
        /\ cpc[c] \in {"evict_token", "evict_lock", "wipe_token", "wipe_dir"} => Safe
        /\ cmd[c] = "z" /\ cpc[c] \in {"exists", "wait", "connect"} => Safe
        /\ cmd[c] = "z" /\ cpc[c] \in {"handshake", "asked"} => conn[c] \notin OldBuild
        /\ cpc[c] = "working" => cmd[c] = "s"
        /\ cpc[c] \in {"wipe_socket", "wipe_token", "wipe_dir"} => cmd[c] = "w"
        /\ result[c] # Nothing => cpc[c] = "done"

Inv == LockFileInv /\ AgentsInv /\ CommandsInv /\ UnlocksOwnBuild

-------------------------------------------------------------------------------
LEMMA NoneIsNoBuild == Nothing \notin OldBuild /\ Nothing # "ok" /\ Nothing # "failed"
BY LifecycleAssumption

LEMMA InitInv == LifecycleInit => Inv
<1> SUFFICES ASSUME LifecycleInit PROVE Inv
    OBVIOUS
<1>1. PICK o \in OldBuild \union {Nothing} :
            /\ socket = o /\ lock = o
            /\ apc = [a \in Agent |-> IF a = o THEN "running" ELSE "absent"]
    BY DEF LifecycleInit
<1>2. LockFileInv
    BY <1>1, NoneIsNoBuild DEF LockFileInv
<1>3. AgentsInv
    BY <1>1, LifecycleAssumption DEF AgentsInv, Booting
<1>4. CommandsInv /\ UnlocksOwnBuild
    BY DEF LifecycleInit, CommandsInv, UnlocksOwnBuild
<1>5. QED
    BY <1>2, <1>3, <1>4 DEF Inv

\* A step of an agent that nobody else takes notice of.
LEMMA AgentMoves ==
    ASSUME Inv, NEW a \in Agent, NEW here, NEW next, AtAgent(a, here, next),
           UNCHANGED commands,
           socket' \in OldBuild => socket' = socket /\ lock' = lock,
           next \in Booting => here \in Booting,
           next \in {"write_token", "write_lock", "rm_token", "rm_lock"} => Safe'
    PROVE  Inv'
<1>1. Safe => Safe'
    BY DEF Safe
<1>2. LockFileInv'
    BY DEF Inv, LockFileInv
<1>3. AgentsInv'
    BY <1>1, LifecycleAssumption DEF Inv, AgentsInv, AtAgent
<1>4. CommandsInv' /\ UnlocksOwnBuild'
    BY <1>1 DEF Inv, CommandsInv, UnlocksOwnBuild, commands
<1>5. QED
    BY <1>2, <1>3, <1>4 DEF Inv

\* A step of a command.  It may start an agent of its own build or end any.
LEMMA CommandMoves ==
    ASSUME Inv, NEW c \in Client, NEW next, NEW o, Go(c, next, o), UNCHANGED cmd,
           socket' \in OldBuild => socket' = socket /\ lock' = lock,
           DOMAIN apc' = Agent, DOMAIN conn' = Client,
           \A a \in Agent :
                \/ apc'[a] \in {apc[a], "gone"}
                \/ a \notin OldBuild /\ apc'[a] = "boot",
           \A d \in Client : d # c => conn'[d] = conn[d],
           next \in {"evict_token", "evict_lock", "wipe_token", "wipe_dir"} => Safe',
           cmd[c] = "z" /\ next \in {"exists", "wait", "connect"} => Safe',
           cmd[c] = "z" /\ next \in {"handshake", "asked"} => conn'[c] \notin OldBuild,
           next = "working" => cmd[c] = "s",
           next \in {"wipe_socket", "wipe_token", "wipe_dir"} => cmd[c] = "w",
           o # Nothing => next = "done",
           cmd[c] = "z" /\ o = "ok" => conn'[c] \notin OldBuild
    PROVE  Inv'
<1>1. Safe => Safe'
    BY DEF Safe
<1>2. LockFileInv'
    BY DEF Inv, LockFileInv
<1>3. AgentsInv'
    BY <1>1, LifecycleAssumption DEF Inv, AgentsInv, Booting
<1>4. /\ cpc'[c] = next /\ result'[c] = o
      /\ \A d \in Client : d # c => cpc'[d] = cpc[d] /\ result'[d] = result[d]
      /\ DOMAIN cpc' = Client /\ DOMAIN result' = Client
    BY DEF Go, Inv, CommandsInv
<1>5. CommandsInv'
    BY <1>1, <1>4 DEF Inv, CommandsInv
<1>6. UnlocksOwnBuild'
    BY <1>4 DEF Inv, UnlocksOwnBuild
<1>7. QED
    BY <1>2, <1>3, <1>5, <1>6 DEF Inv

-------------------------------------------------------------------------------
LEMMA AgentInv ==
    ASSUME Inv, NEW a \in Agent, StepOfAgent(a) \/ LeaveLoop(a)
    PROVE  Inv'
<1> USE NoneIsNoBuild
<1>1. ASSUME Boot(a)
      PROVE  Inv'
    BY <1>1, AgentMoves DEF Boot, KeepRest, Booting
<1>2. ASSUME Unlink(a)
      PROVE  Inv'
    BY <1>2, AgentMoves DEF Unlink, KeepRest, Booting
<1>3. ASSUME Bind(a)
      PROVE  Inv'
    <2>1. a \notin OldBuild
        BY <1>3 DEF Bind, AtAgent, Inv, AgentsInv, Booting
    <2>2. QED
        BY <1>3, <2>1, AgentMoves DEF Bind, KeepRest, Booting, Safe
<1>4. ASSUME WriteToken(a)
      PROVE  Inv'
    BY <1>4, AgentMoves DEF WriteToken, AtAgent, KeepRest, Booting, Inv, AgentsInv, Safe
<1>5. ASSUME WriteLock(a)
      PROVE  Inv'
    <2>1. Safe
        BY <1>5 DEF WriteLock, AtAgent, Inv, AgentsInv
    <2>2. QED
        BY <1>5, <2>1, AgentMoves DEF WriteLock, KeepRest, Booting, Safe
<1>6. ASSUME LeaveLoop(a)
      PROVE  Inv'
    BY <1>6, AgentMoves DEF LeaveLoop, KeepRest, Booting, files
<1>7. ASSUME RemoveSocket(a)
      PROVE  Inv'
    BY <1>7, AgentMoves DEF RemoveSocket, KeepRest, Booting, Safe
<1>8. ASSUME RemoveToken(a)
      PROVE  Inv'
    <2>1. Safe
        BY <1>8 DEF RemoveToken, AtAgent, Inv, AgentsInv
    <2>2. QED
        BY <1>8, <2>1, AgentMoves DEF RemoveToken, KeepRest, Booting, Safe
<1>9. ASSUME RemoveLock(a)
      PROVE  Inv'
    <2>1. Safe
        BY <1>9 DEF RemoveLock, AtAgent, Inv, AgentsInv
    <2>2. QED
        BY <1>9, <2>1, AgentMoves DEF RemoveLock, Booting, Safe
<1>10. QED
    BY <1>1, <1>2, <1>3, <1>4, <1>5, <1>6, <1>7, <1>8, <1>9 DEF StepOfAgent

\* Agents that die, expire or serve move no file.
LEMMA CrashInv ==
    ASSUME Inv, NEW a \in Agent, Crash(a) \/ AutoLock(a)
    PROVE  Inv'
<1>1. UNCHANGED <<files, commands>> /\ (UNCHANGED apc \/ apc' = [apc EXCEPT ![a] = "gone"])
    BY DEF Crash, AutoLock, Die
<1>2. AgentsInv'
    BY <1>1, LifecycleAssumption DEF Inv, AgentsInv, Booting, files, Safe
<1>3. QED
    BY <1>1, <1>2 DEF Inv, LockFileInv, CommandsInv, UnlocksOwnBuild, files, commands, Safe

\* No answer: zz w removes the files, the others have failed.
LEMMA UnansweredInv ==
    ASSUME Inv, NEW c \in Client, Unanswered(c),
           UNCHANGED <<cmd, apc, conn, socket, lock>>
    PROVE  Inv'
<1>1. CASE cmd[c] = "w"
    BY <1>1, CommandMoves DEF Unanswered, Inv, AgentsInv, CommandsInv
<1>2. CASE cmd[c] # "w"
    BY <1>2, CommandMoves DEF Unanswered, Inv, AgentsInv, CommandsInv
<1>3. QED
    BY <1>1, <1>2

LEMMA NobodyMoves ==
    ASSUME Inv, UNCHANGED <<cpc, result, cmd, apc, conn, socket, lock>>
    PROVE  Inv'
BY DEF Inv, LockFileInv, AgentsInv, CommandsInv, UnlocksOwnBuild, Safe

LEMMA InvokeInv ==
    ASSUME Inv, NEW c \in Client, NEW command \in Letters, Invoke(c, command)
    PROVE  Inv'
<1>1. /\ cpc[c] = "idle" /\ cpc'[c] \in {"stale", "exists"}
      /\ cpc'[c] = "exists" => command \notin {"z", "s"}
      /\ cmd' = [cmd EXCEPT ![c] = command]
      /\ \A d \in Client : d # c => cpc'[d] = cpc[d] /\ cmd'[d] = cmd[d]
      /\ DOMAIN cpc' = Client
      /\ UNCHANGED <<socket, lock, apc, conn, result>>
    BY DEF Invoke, At, Inv, CommandsInv, files, agents
<1>2. result[c] = Nothing
    BY <1>1 DEF Inv, CommandsInv
<1>3. CommandsInv'
    BY <1>1, <1>2 DEF Inv, CommandsInv, Safe
<1>4. UnlocksOwnBuild'
    BY <1>1, <1>2, LifecycleAssumption DEF Inv, UnlocksOwnBuild, CommandsInv
<1>5. QED
    BY <1>1, <1>3, <1>4 DEF Inv, LockFileInv, AgentsInv, Safe

\* zz z and a transfer look for an agent of another build, kill it and remove
\* its files, the socket first.
LEMMA EvictionInv ==
    ASSUME Inv, NEW c \in Client,
           ReadLock(c) \/ Kill(c) \/ EvictSocket(c) \/ EvictToken(c) \/ EvictLock(c)
    PROVE  Inv'
<1> USE NoneIsNoBuild
<1>1. ASSUME ReadLock(c)
      PROVE  Inv'
    <2>1. CASE lock \in OldBuild
        BY <1>1, <2>1, CommandMoves DEF ReadLock, files, agents, Inv, AgentsInv, CommandsInv
    <2>2. CASE lock \notin OldBuild
        <3>1. Safe
            BY <2>2 DEF Inv, LockFileInv, Safe
        <3>2. QED
            BY <1>1, <2>2, <3>1, CommandMoves
            DEF ReadLock, files, agents, Inv, AgentsInv, CommandsInv, Safe
    <2>3. QED
        BY <2>1, <2>2
<1>2. ASSUME Kill(c)
      PROVE  Inv'
    <2>1. UNCHANGED apc \/ apc' = [apc EXCEPT ![conn[c]] = "gone"]
        BY <1>2 DEF Kill, Die, agents
    <2>2. DOMAIN apc' = Agent /\ \A a \in Agent : apc'[a] \in {apc[a], "gone"}
        BY <2>1 DEF Inv, AgentsInv
    <2>3. QED
        BY <1>2, <2>2, CommandMoves DEF Kill, files, Inv, CommandsInv
<1>3. ASSUME EvictSocket(c)
      PROVE  Inv'
    BY <1>3, CommandMoves DEF EvictSocket, agents, Inv, AgentsInv, CommandsInv, Safe
<1>4. ASSUME EvictToken(c)
      PROVE  Inv'
    BY <1>4, CommandMoves DEF EvictToken, At, agents, Inv, AgentsInv, CommandsInv, Safe
<1>5. ASSUME EvictLock(c)
      PROVE  Inv'
    <2>1. Safe
        BY <1>5 DEF EvictLock, At, Inv, CommandsInv
    <2>2. QED
        BY <1>5, <2>1, CommandMoves DEF EvictLock, agents, Inv, AgentsInv, CommandsInv, Safe
<1>6. QED
    BY <1>1, <1>2, <1>3, <1>4, <1>5

\* From the test for the socket to the request written behind the token.
LEMMA ConnectingInv ==
    ASSUME Inv, NEW c \in Client,
           TestSocket(c) \/ WaitForSocket(c) \/ ConnectSocket(c) \/ Handshake(c)
    PROVE  Inv'
<1> USE NoneIsNoBuild
<1>1. ASSUME TestSocket(c)
      PROVE  Inv'
    <2>1. /\ cpc[c] = "exists"
          /\ UNCHANGED <<cmd, conn, socket, lock>>
        BY <1>1 DEF TestSocket, At, files
    <2>2. CASE socket # Nothing /\ Go(c, "connect", Nothing) /\ UNCHANGED apc
        BY <2>1, <2>2, CommandMoves DEF Inv, AgentsInv, CommandsInv, Safe
    <2>3. CASE /\ cmd[c] = "z" /\ Go(c, "wait", Nothing)
               /\ \E a \in Agent \ OldBuild : AtAgent(a, "absent", "boot")
        <3>1. /\ DOMAIN apc' = Agent
              /\ \A a \in Agent :
                    \/ apc'[a] \in {apc[a], "gone"}
                    \/ a \notin OldBuild /\ apc'[a] = "boot"
            <4>1. PICK b \in Agent \ OldBuild : apc' = [apc EXCEPT ![b] = "boot"]
                BY <2>3 DEF AtAgent
            <4>2. QED
                BY <4>1 DEF Inv, AgentsInv
        <3>2. QED
            BY <2>1, <2>3, <3>1, CommandMoves DEF Inv, CommandsInv, Safe
    <2>4. CASE cmd[c] = "q" /\ Go(c, "done", "ok") /\ UNCHANGED apc
        BY <2>1, <2>4, CommandMoves DEF Inv, AgentsInv, CommandsInv
    <2>5. CASE Unanswered(c) /\ UNCHANGED apc
        BY <2>1, <2>5, UnansweredInv
    <2>6. QED
        BY <1>1, <2>2, <2>3, <2>4, <2>5 DEF TestSocket
<1>2. ASSUME WaitForSocket(c)
      PROVE  Inv'
    <2>1. cmd[c] = "z" => Safe
        BY <1>2 DEF WaitForSocket, At, Inv, CommandsInv
    <2>2. QED
        BY <1>2, <2>1, CommandMoves
        DEF WaitForSocket, files, agents, Inv, AgentsInv, CommandsInv, Safe
<1>3. ASSUME ConnectSocket(c)
      PROVE  Inv'
    <2>1. cmd[c] = "z" => socket \notin OldBuild
        BY <1>3 DEF ConnectSocket, At, Inv, CommandsInv, Safe
    <2>2. UNCHANGED <<cmd, apc, socket, lock>>
        BY <1>3 DEF ConnectSocket, files
    <2>3. CASE conn' = [conn EXCEPT ![c] = socket] /\ Go(c, "handshake", Nothing)
        BY <2>1, <2>2, <2>3, CommandMoves DEF Inv, AgentsInv, CommandsInv
    <2>4. CASE cmd[c] = "q" /\ Go(c, "done", "ok") /\ UNCHANGED conn
        BY <2>2, <2>4, CommandMoves DEF Inv, AgentsInv, CommandsInv
    <2>5. CASE Unanswered(c) /\ UNCHANGED conn
        BY <2>2, <2>5, UnansweredInv
    <2>6. QED
        BY <1>3, <2>3, <2>4, <2>5 DEF ConnectSocket
<1>4. ASSUME Handshake(c)
      PROVE  Inv'
    <2>1. UNCHANGED <<cmd, apc, conn, socket, lock>>
        BY <1>4 DEF Handshake, files, agents
    <2>2. CASE Unanswered(c)
        BY <2>1, <2>2, UnansweredInv
    <2>3. CASE Go(c, "asked", Nothing)
        <3>1. cmd[c] = "z" => conn[c] \notin OldBuild
            BY <1>4 DEF Handshake, At, Inv, CommandsInv
        <3>2. QED
            BY <2>1, <2>3, <3>1, CommandMoves DEF Inv, AgentsInv, CommandsInv
    <2>4. QED
        BY <1>4, <2>2, <2>3 DEF Handshake
<1>5. QED
    BY <1>1, <1>2, <1>3, <1>4

\* The ways a command ends, and the removal of zz w.
LEMMA EndingInv ==
    ASSUME Inv, NEW c \in Client,
           Finish(c) \/ ReadEndOfFile(c) \/ ReadTimeout(c)
                \/ WipeSocket(c) \/ WipeToken(c) \/ WipeDir(c)
    PROVE  Inv'
<1> USE NoneIsNoBuild
<1>1. ASSUME Finish(c)
      PROVE  Inv'
    <2>1. cmd[c] = "s"
        BY <1>1 DEF Finish, At, Inv, CommandsInv
    <2>2. QED
        BY <1>1, <2>1, CommandMoves DEF Finish, files, Inv, AgentsInv, CommandsInv
<1>2. ASSUME ReadEndOfFile(c) \/ ReadTimeout(c)
      PROVE  Inv'
    BY <1>2, UnansweredInv DEF ReadEndOfFile, ReadTimeout, files, agents
<1>3. ASSUME WipeSocket(c)
      PROVE  Inv'
    BY <1>3, CommandMoves DEF WipeSocket, At, agents, Inv, AgentsInv, CommandsInv, Safe
<1>4. ASSUME WipeToken(c)
      PROVE  Inv'
    BY <1>4, CommandMoves DEF WipeToken, At, agents, Inv, AgentsInv, CommandsInv, Safe
<1>5. ASSUME WipeDir(c)
      PROVE  Inv'
    <2>1. cmd[c] = "w"
        BY <1>5 DEF WipeDir, At, Inv, CommandsInv
    <2>2. QED
        BY <1>5, <2>1, CommandMoves DEF WipeDir, agents, Inv, AgentsInv, CommandsInv, Safe
<1>6. QED
    BY <1>1, <1>2, <1>3, <1>4, <1>5

-------------------------------------------------------------------------------
\* Only commands wait in a backlog.
BacklogInv == backlog \in [Agent -> Seq(Client)]

LEMMA BacklogStep == BacklogInv /\ [LifecycleNext]_lifecycle => BacklogInv'
<1> SUFFICES ASSUME BacklogInv, [LifecycleNext]_lifecycle PROVE BacklogInv'
    OBVIOUS
<1> USE DEF BacklogInv
<1>1. CASE UNCHANGED backlog
    BY <1>1
<1>2. ASSUME NEW a, Forget(a)
      PROVE  BacklogInv'
    <2>1. <<>> \in Seq(Client)
        OBVIOUS
    <2>2. QED
        BY <1>2, <2>1 DEF Forget
<1>3. ASSUME NEW c \in Client, ConnectSocket(c)
      PROVE  BacklogInv'
    <2>1. CASE backlog' = [backlog EXCEPT ![socket] = Append(@, c)]
        <3>1. socket \in Agent => Append(backlog[socket], c) \in Seq(Client)
            OBVIOUS
        <3>2. QED
            BY <2>1, <3>1
    <2>2. QED
        BY <1>1, <1>3, <2>1 DEF ConnectSocket
<1>4. ASSUME NEW a \in Agent, Serve(a)
      PROVE  BacklogInv'
    <2>1. /\ backlog[a] # <<>>
          /\ backlog' = [backlog EXCEPT ![a] = Tail(@)]
        BY <1>4 DEF Serve
    <2>2. Tail(backlog[a]) \in Seq(Client)
        BY <2>1
    <2>3. QED
        BY <2>1, <2>2
<1>5. ASSUME NEW a \in Agent, StepOfAgent(a) \/ AutoLock(a) \/ LeaveLoop(a) \/ Crash(a)
      PROVE  UNCHANGED backlog \/ Forget(a)
    BY <1>5 DEF StepOfAgent, Boot, Unlink, Bind, WriteToken, WriteLock, RemoveSocket,
                RemoveToken, RemoveLock, AutoLock, LeaveLoop, Crash, Die, KeepRest
<1>6. ASSUME NEW c \in Client, Kill(c)
      PROVE  UNCHANGED backlog \/ \E a : Forget(a)
    BY <1>6 DEF Kill, Die, agents
<1>7. ASSUME NEW c \in Client, NEW command \in Letters, Invoke(c, command)
      PROVE  UNCHANGED backlog
    BY <1>7 DEF Invoke, agents
<1>8. ASSUME NEW c \in Client,
             \/ ReadLock(c) \/ EvictSocket(c) \/ EvictToken(c)
             \/ EvictLock(c) \/ TestSocket(c) \/ WaitForSocket(c) \/ Handshake(c)
             \/ Finish(c) \/ ReadEndOfFile(c) \/ ReadTimeout(c)
             \/ WipeSocket(c) \/ WipeToken(c) \/ WipeDir(c)
      PROVE  UNCHANGED backlog
    BY <1>8 DEF ReadLock, EvictSocket, EvictToken, EvictLock, TestSocket,
                WaitForSocket, Handshake, Finish, ReadEndOfFile, ReadTimeout, WipeSocket,
                WipeToken, WipeDir, agents
<1>9. UNCHANGED lifecycle => UNCHANGED backlog
    BY DEF lifecycle, agents
<1>10. QED
    BY <1>1, <1>2, <1>3, <1>4, <1>5, <1>6, <1>7, <1>8, <1>9 DEF LifecycleNext, StepOfCommand

\* The agent answers whoever waited longest: what it does to a command is one of
\* the ways a connected command goes on.
LEMMA ServeInv ==
    ASSUME Inv, BacklogInv, NEW a \in Agent, Serve(a)
    PROVE  Inv'
<1> USE NoneIsNoBuild
<1> DEFINE c == Head(backlog[a])
<1>1. c \in Client
    <2>1. backlog[a] \in Seq(Client) /\ backlog[a] # <<>>
        BY DEF Serve, BacklogInv
    <2>2. QED
        BY <2>1
<1>2. UNCHANGED <<cmd, apc, conn, socket, lock>>
    BY DEF Serve, files
<1>3. \/ UNCHANGED <<cpc, result>>
      \/ At(c, "asked") /\ Unanswered(c)
      \/ At(c, "asked") /\ cmd[c] \in {"z", "q"} /\ Go(c, "done", "ok")
      \/ At(c, "asked") /\ cmd[c] = "w" /\ Go(c, "wipe_socket", Nothing)
      \/ At(c, "asked") /\ cmd[c] = "s" /\ Go(c, "working", Nothing)
    BY DEF Serve
<1>4. CASE UNCHANGED <<cpc, result>>
    BY <1>2, <1>4, NobodyMoves
<1>5. CASE Unanswered(c)
    BY <1>1, <1>2, <1>5, UnansweredInv
<1>6. CASE At(c, "asked") /\ cmd[c] \in {"z", "q"} /\ Go(c, "done", "ok")
    <2>1. cmd[c] = "z" => conn[c] \notin OldBuild
        BY <1>1, <1>6 DEF At, Inv, CommandsInv
    <2>2. QED
        BY <1>1, <1>2, <1>6, <2>1, CommandMoves DEF Inv, AgentsInv, CommandsInv
<1>7. CASE cmd[c] = "w" /\ Go(c, "wipe_socket", Nothing)
    BY <1>1, <1>2, <1>7, CommandMoves DEF Inv, AgentsInv, CommandsInv
<1>8. CASE cmd[c] = "s" /\ Go(c, "working", Nothing)
    BY <1>1, <1>2, <1>8, CommandMoves DEF Inv, AgentsInv, CommandsInv
<1>9. QED
    BY <1>3, <1>4, <1>5, <1>6, <1>7, <1>8

LEMMA NextInv == Inv /\ BacklogInv /\ [LifecycleNext]_lifecycle => Inv'
<1> SUFFICES ASSUME Inv, BacklogInv, [LifecycleNext]_lifecycle PROVE Inv'
    OBVIOUS
<1>1. CASE UNCHANGED lifecycle
    BY <1>1, NobodyMoves DEF lifecycle, files, agents, commands
<1>2. ASSUME NEW a \in Agent,
             StepOfAgent(a) \/ Serve(a) \/ AutoLock(a) \/ LeaveLoop(a) \/ Crash(a)
      PROVE  Inv'
    BY <1>2, AgentInv, ServeInv, CrashInv
<1>3. ASSUME NEW c \in Client, StepOfCommand(c) \/ ReadTimeout(c)
      PROVE  Inv'
    BY <1>3, EvictionInv, ConnectingInv, EndingInv DEF StepOfCommand
<1>4. QED
    BY <1>1, <1>2, <1>3, InvokeInv DEF LifecycleNext

\* However agents and commands interleave, and whatever is killed on the way, zz z
\* that reports success has handed the profile to an agent of its own build.
THEOREM OwnBuildUnlocked == LifecycleSpec => []UnlocksOwnBuild
<1>1. LifecycleInit => Inv /\ BacklogInv
    <2>1. <<>> \in Seq(Client)
        OBVIOUS
    <2>2. QED
        BY <2>1, InitInv DEF LifecycleInit, BacklogInv
<1>2. Inv /\ BacklogInv /\ [LifecycleNext]_lifecycle => Inv' /\ BacklogInv'
    BY NextInv, BacklogStep
<1>3. Inv => UnlocksOwnBuild
    BY DEF Inv
<1>4. QED
    BY <1>1, <1>2, <1>3, PTL DEF LifecycleSpec
-------------------------------------------------------------------------------
(* No socket file without somebody who removes it.                         *)

\* A socket lies in the runtime directory.
SocketInDir == socket # Nothing => dir

\* The agent that will remove the socket it bound.
Keeps(a) == apc[a] \in {"write_token", "write_lock", "running", "rm_socket"}

\* Unless an agent died, the socket file belongs to an agent that will remove
\* it, or a command that has just killed that agent will.
Attended ==
    ~crashed /\ socket # Nothing =>
        \/ \E a \in Agent : socket = a /\ Keeps(a)
        \/ \E c \in Client : At(c, "evict_socket")

SocketInv ==
    /\ DOMAIN apc = Agent /\ DOMAIN cpc = Client
    /\ SocketInDir /\ Attended

LEMMA InitSocketInv == LifecycleInit => SocketInv
<1> SUFFICES ASSUME LifecycleInit PROVE SocketInv
    OBVIOUS
<1>1. PICK o \in OldBuild \union {Nothing} :
            /\ dir = (o # Nothing) /\ socket = o
            /\ apc = [a \in Agent |-> IF a = o THEN "running" ELSE "absent"]
    BY DEF LifecycleInit
<1>2. socket # Nothing => socket \in Agent /\ Keeps(socket)
    BY <1>1, LifecycleAssumption DEF Keeps
<1>3. DOMAIN apc = Agent /\ DOMAIN cpc = Client /\ SocketInDir
    BY <1>1 DEF LifecycleInit, SocketInDir
<1>4. QED
    BY <1>2, <1>3 DEF SocketInv, Attended

\* A step that leaves the socket where it is, or removes it, and keeps those who
\* attend to it.
LEMMA SocketStays ==
    ASSUME SocketInv, DOMAIN apc' = Agent, DOMAIN cpc' = Client,
           socket' \in {socket, Nothing},
           socket' # Nothing => dir',
           crashed' \in {crashed, TRUE},
           socket' # Nothing /\ ~crashed' =>
             /\ \A a \in Agent : socket = a /\ Keeps(a) =>
                    Keeps(a)' \/ \E c \in Client : At(c, "evict_socket")'
             /\ \A c \in Client : At(c, "evict_socket") => At(c, "evict_socket")'
    PROVE  SocketInv'
BY DEF SocketInv, SocketInDir, Attended

\* An agent removes the socket on its way out, and only then.
LEMMA SocketAgent ==
    ASSUME SocketInv, NEW a \in Agent,
           StepOfAgent(a) \/ Serve(a) \/ AutoLock(a) \/ LeaveLoop(a) \/ Crash(a)
    PROVE  SocketInv'
<1> USE DEF AtAgent, KeepRest, files, agents, commands
<1>1. CASE Boot(a)
    BY <1>1, SocketStays DEF Boot, SocketInv, SocketInDir, Keeps, At
<1>2. CASE Unlink(a)
    BY <1>2, SocketStays DEF Unlink, SocketInv
<1>3. CASE Bind(a)
    <2>1. CASE dir /\ socket = Nothing
        BY <1>3, <2>1 DEF Bind, SocketInv, SocketInDir, Attended, Keeps
    <2>2. CASE ~(dir /\ socket = Nothing)
        BY <1>3, <2>2, SocketStays DEF Bind, SocketInv, SocketInDir, Keeps, At
    <2>3. QED
        BY <2>1, <2>2
<1>4. CASE WriteToken(a)
    BY <1>4, SocketStays DEF WriteToken, SocketInv, SocketInDir, Keeps, At
<1>5. CASE WriteLock(a)
    BY <1>5, SocketStays DEF WriteLock, SocketInv, SocketInDir, Keeps, At
<1>6. CASE RemoveSocket(a)
    BY <1>6, SocketStays DEF RemoveSocket, SocketInv
<1>7. CASE RemoveToken(a)
    BY <1>7, SocketStays DEF RemoveToken, SocketInv, SocketInDir, Keeps, At
<1>8. CASE RemoveLock(a)
    BY <1>8, SocketStays DEF RemoveLock, SocketInv, SocketInDir, Keeps, At
<1>9. CASE Serve(a)
    <2>1. UNCHANGED <<files, apc, crashed>>
        BY <1>9 DEF Serve
    <2>2. DOMAIN cpc' = Client /\ \A c \in Client : At(c, "evict_socket") => At(c, "evict_socket")'
        <3>1. \/ UNCHANGED cpc
              \/ /\ At(Head(backlog[a]), "asked")
                 /\ \E next : cpc' = [cpc EXCEPT ![Head(backlog[a])] = next]
            BY <1>9 DEF Serve, Unanswered, Go
        <3>2. QED
            BY <3>1 DEF SocketInv, At
    <2>3. QED
        BY <2>1, <2>2, SocketStays DEF SocketInv, SocketInDir, Keeps
<1>10. CASE AutoLock(a)
    BY <1>10, SocketStays DEF AutoLock, SocketInv, SocketInDir, Keeps, At
<1>11. CASE LeaveLoop(a)
    BY <1>11, SocketStays DEF LeaveLoop, SocketInv, SocketInDir, Keeps, At
<1>12. CASE Crash(a)
    BY <1>12, SocketStays DEF Crash, Die, SocketInv, SocketInDir
<1>13. QED
    BY <1>1, <1>2, <1>3, <1>4, <1>5, <1>6, <1>7, <1>8, <1>9, <1>10, <1>11, <1>12
       DEF StepOfAgent

\* A command that kills the agent of a socket goes on to remove it.
LEMMA SocketCommand ==
    ASSUME SocketInv, NEW c \in Client,
           \/ \E command \in Letters : Invoke(c, command)
           \/ StepOfCommand(c)
           \/ ReadTimeout(c)
    PROVE  SocketInv'
<1> USE DEF files, agents, commands
<1>1. CASE Kill(c)
    <2>1. At(c, "evict_socket")' /\ DOMAIN cpc' = Client
        BY <1>1 DEF Kill, Go, At, SocketInv
    <2>2. DOMAIN apc' = Agent
        BY <1>1 DEF Kill, Die, SocketInv
    <2>3. \A d \in Client : At(d, "evict_socket") => At(d, "evict_socket")'
        BY <1>1 DEF Kill, Go, At, SocketInv
    <2>4. QED
        BY <1>1, <2>1, <2>2, <2>3, SocketStays DEF Kill, SocketInv, SocketInDir
<1>2. CASE EvictSocket(c) \/ WipeSocket(c) \/ WipeDir(c)
    BY <1>2, SocketStays DEF EvictSocket, WipeSocket, WipeDir, Go, SocketInv
<1>3. CASE TestSocket(c)
    <2>1. At(c, "exists") /\ \E next, o : Go(c, next, o)
        BY <1>3 DEF TestSocket, Unanswered
    <2>2. \/ UNCHANGED apc
          \/ \E a \in Agent : apc[a] = "absent" /\ apc' = [apc EXCEPT ![a] = "boot"]
        BY <1>3 DEF TestSocket, AtAgent
    <2>3. DOMAIN apc' = Agent /\ \A a \in Agent : Keeps(a) => Keeps(a)'
        BY <2>2 DEF SocketInv, Keeps
    <2>4. /\ DOMAIN cpc' = Client
          /\ \A d \in Client : At(d, "evict_socket") => At(d, "evict_socket")'
        BY <2>1 DEF SocketInv, At, Go
    <2>5. QED
        BY <1>3, <2>3, <2>4, SocketStays DEF TestSocket, SocketInv, SocketInDir
<1>4. ASSUME UNCHANGED <<dir, socket, apc, crashed>>, ~At(c, "evict_socket"),
             NEW next, cpc' = [cpc EXCEPT ![c] = next]
      PROVE  SocketInv'
    BY <1>4, SocketStays DEF SocketInv, SocketInDir, Keeps, At
<1>5. ASSUME NEW command \in Letters, Invoke(c, command)
      PROVE  SocketInv'
    BY <1>4, <1>5 DEF Invoke, At
<1>6. CASE ReadLock(c) \/ EvictToken(c) \/ EvictLock(c) \/ WaitForSocket(c) \/ WipeToken(c)
    BY <1>4, <1>6 DEF ReadLock, EvictToken, EvictLock, WaitForSocket, WipeToken, Go, At
<1>7. CASE ConnectSocket(c) \/ Handshake(c) \/ Finish(c)
    BY <1>4, <1>7 DEF ConnectSocket, Handshake, Finish, Unanswered, Go, At
<1>8. CASE ReadEndOfFile(c) \/ ReadTimeout(c)
    BY <1>4, <1>8 DEF ReadEndOfFile, ReadTimeout, Unanswered, Go, At
<1>9. QED
    BY <1>1, <1>2, <1>3, <1>5, <1>6, <1>7, <1>8 DEF StepOfCommand

\* However many agents and commands interleave: when all have ended and none died
\* without its clean-up (run, evict and wipe), no socket file is left behind.
THEOREM SocketIsRemoved == LifecycleSpec => []NoStaleSocket
<1>1. SocketInv /\ [LifecycleNext]_lifecycle => SocketInv'
    <2>1. SocketInv /\ UNCHANGED lifecycle => SocketInv'
        BY DEF lifecycle, files, agents, commands, SocketInv, SocketInDir, Attended, Keeps, At
    <2>2. QED
        BY <2>1, SocketAgent, SocketCommand DEF LifecycleNext
<1>2. SocketInv => NoStaleSocket
    BY DEF SocketInv, Attended, NoStaleSocket, AtRest, Ended, Keeps, At
<1>3. QED
    BY <1>1, <1>2, InitSocketInv, PTL DEF LifecycleSpec

-------------------------------------------------------------------------------
(***************************************************************************)
(* Unlock: one command at a time.                                          *)
(***************************************************************************)

\* A set in RAM: the entries of providers this build does not know are in
\* carriers.
Loaded(set) ==
    /\ IsProfileSet(set)
    /\ set.schema >= 2
    /\ Typed(set) /\ Writable(set)
    /\ \A e \in Entries(set) : e.tag = Carrier => IsEntry(e.body)

\* What the carriers hold.
Carried(set) == {e.body : e \in {x \in Entries(set) : x.tag = Carrier}}

\* The names of the profiles.
Named(set) == ToSet(Aliases(set))

\* A key is what it was derived from.
IsKek(kek) == kek = derive_key(kek.passphrase, kek.salt, kek.cfg) /\ validate(kek.cfg)

\* A file that can be opened by whoever knows the passphrase.
IsSealed(envelope) ==
    /\ IsFile(envelope)
    /\ envelope.header \notin HeaderErrors
    /\ envelope.payload.is = "set"
    /\ envelope.payload.set.schema >= 2

Asking  == {"ask", "open"}
Opening == {"pick", "hand"}
Waiting == {"wait", "answered"}

\* The command has a set and a key of the file in hand.
Holding == run.at \in Opening \/ (run.at \in Waiting /\ run.asked # NoSession)

\* The run of a command: it works on the file as it is, and what it took out of
\* that file still opens it.
RunInv ==
    /\ run # Idle => {"at", "inv", "tty", "confirm"} \subseteq DOMAIN run
    /\ run.at \in Asking \/ Holding =>
          "slot" \in DOMAIN run /\ run.slot \in Slots /\ disk[run.slot] # NoFile
    /\ run.at \in Asking => "envelope" \in DOMAIN run /\ run.envelope = disk[run.slot]
    /\ run.at = "open" => "passphrase" \in DOMAIN run
    /\ Holding =>
          LET again == decrypt_set(disk[run.slot], run.passphrase) IN
          /\ {"passphrase", "set", "kek", "alias"} \subseteq DOMAIN run
          /\ again.ok /\ again.kek = run.kek /\ again.set = run.set
    /\ run.at = "fetch" => "blob" \in DOMAIN run /\ run.blob \in DOMAIN account
    /\ run.at \in Waiting =>
          /\ "asked" \in DOMAIN run
          /\ run.asked # NoSession =>
                run.asked = Session(run) /\ agent # NoAgent /\ agent.up # "old"
    /\ run.at = "wait" => queue # <<>> /\ queue[Len(queue)] = run.asked
    /\ run.at = "answered" => queue = <<>> /\ agent # NoAgent /\ agent.session = run.asked

\* A script that names no profile, when one is remembered, has taken that one.
ChoiceInv ==
    Holding =>
        /\ run.at # "pick" => run.alias \in Named(run.set)
        /\ /\ run.slot = "local" /\ scriptable(run.inv)
           /\ run.inv.flags.alias = None /\ remembered # None
           => run.at # "pick" /\ run.alias = remembered

\* A container is missing or is one somebody wrote.
FilesInv ==
    /\ DOMAIN disk = Slots /\ DOMAIN hint = Slots
    /\ \A s \in Slots : disk[s] = NoFile \/ IsFile(disk[s])
    /\ account \in Accounts

\* A session of the local container agrees with the file: its names, the entries
\* of newer builds and the passphrase.
SessionOf(x) ==
    /\ x = [set |-> x.set, kek |-> x.kek, active |-> x.active, slot |-> x.slot]
    /\ x.slot \in Slots \cup {"gone"}
    /\ Loaded(x.set) /\ Named(x.set) \cap Mark = {}
    /\ IsKek(x.kek)
    /\ x.slot = "local" =>
          /\ IsSealed(disk.local)
          /\ Named(x.set) = Named(disk.local.payload.set)
          /\ Carried(x.set) = Foreign(disk.local)
          /\ x.kek.passphrase = disk.local.key.passphrase

\* What an agent holds, and what is on its way there.
SessionInv ==
    /\ agent # NoAgent =>
          /\ agent = [up |-> agent.up, session |-> agent.session]
          /\ agent.session = NoSession \/ SessionOf(agent.session)
    /\ \A i \in DOMAIN queue : queue[i] = NoSession \/ SessionOf(queue[i])

\* Requests wait for an agent that is there; once an answer was reported nothing
\* is on its way and the agent holds what was reported, nothing if it is one that
\* the next unlock ends.
QueueInv ==
    /\ queue \in Seq(ToSet(queue))
    /\ agent = NoAgent => queue = <<>>
    /\ reported = {} \/ (queue = <<>> /\ reported = {Held})
    /\ reported # {} /\ agent # NoAgent /\ agent.up = "old" => Held = NoSession

\* The remembered name is in the sidecar and in the container.
RememberedInv ==
    remembered # None =>
        /\ hint.local = remembered
        /\ IsSealed(disk.local)
        /\ remembered \in Named(disk.local.payload.set)

UnlockInv == RunInv /\ ChoiceInv /\ FilesInv /\ SessionInv /\ RememberedInv /\ QueueInv

-------------------------------------------------------------------------------
(***************************************************************************)
(* Sets of profiles and the carriers of foreign entries.                   *)
(***************************************************************************)

\* A function on 1..n is a sequence of its values.
LEMMA Listed ==
    ASSUME NEW f, NEW n \in Nat, f = [i \in 1..n |-> f[i]]
    PROVE  f \in Seq(ToSet(f))
<1>1. DOMAIN f = 1..n /\ \A i \in 1..n : f[i] \in ToSet(f)
    BY DEF ToSet
<1>2. f \in [1..n -> ToSet(f)]
    BY <1>1
<1>3. QED
    BY <1>2, SeqDef

\* The entries of a set, by position.
LEMMA InEntries ==
    ASSUME NEW set
    PROVE  \A x : x \in Entries(set) <=>
              \E i \in DOMAIN set.profiles : \E j \in DOMAIN set.profiles[i].providers :
                 x = set.profiles[i].providers[j]
BY DEF Entries, ToSet

\* A set in terms of positions.
LEMMA Positions ==
    ASSUME NEW set, IsProfileSet(set)
    PROVE  /\ set = [schema |-> set.schema, profiles |-> set.profiles]
           /\ Len(set.profiles) \in Nat /\ DOMAIN set.profiles = 1..Len(set.profiles)
           /\ \A i \in DOMAIN set.profiles :
                 LET p == set.profiles[i] IN
                 /\ p = [alias |-> p.alias, providers |-> p.providers]
                 /\ Len(p.providers) \in Nat /\ DOMAIN p.providers = 1..Len(p.providers)
                 /\ \A j \in DOMAIN p.providers :
                       IsEntry(p.providers[j])
<1>1. /\ set.profiles \in Seq(ToSet(set.profiles))
      /\ \A i \in DOMAIN set.profiles : set.profiles[i] \in ToSet(set.profiles)
    BY DEF IsProfileSet, ToSet
<1>2. ASSUME NEW i \in DOMAIN set.profiles, NEW p, p = set.profiles[i]
      PROVE  /\ p = [alias |-> p.alias, providers |-> p.providers]
             /\ Len(p.providers) \in Nat /\ DOMAIN p.providers = 1..Len(p.providers)
             /\ \A j \in DOMAIN p.providers :
                   IsEntry(p.providers[j])
    <2>1. /\ p = [alias |-> p.alias, providers |-> p.providers]
          /\ p.providers \in Seq(ToSet(p.providers))
          /\ \A e \in ToSet(p.providers) : IsEntry(e)
        BY <1>1, <1>2 DEF IsProfileSet
    <2>2. \A j \in DOMAIN p.providers : p.providers[j] \in ToSet(p.providers)
        BY DEF ToSet
    <2>3. QED
        BY <2>1, <2>2
<1>3. set = [schema |-> set.schema, profiles |-> set.profiles]
    BY DEF IsProfileSet
<1>4. QED
    BY <1>1, <1>2, <1>3

IsProfile(p) ==
    /\ p = [alias |-> p.alias, providers |-> p.providers]
    /\ \E m \in Nat : p.providers = [j \in 1..m |-> p.providers[j]]
    /\ \A j \in DOMAIN p.providers : IsEntry(p.providers[j])

\* ... and back.
LEMMA FromPositions ==
    ASSUME NEW set, NEW n \in Nat,
           set = [schema |-> set.schema, profiles |-> set.profiles],
           set.profiles = [i \in 1..n |-> set.profiles[i]],
           \A i \in 1..n : IsProfile(set.profiles[i])
    PROVE  IsProfileSet(set)
<1>1. set.profiles \in Seq(ToSet(set.profiles))
    BY Listed
<1>2. ASSUME NEW p \in ToSet(set.profiles)
      PROVE  /\ p = [alias |-> p.alias, providers |-> p.providers]
             /\ p.providers \in Seq(ToSet(p.providers))
             /\ \A e \in ToSet(p.providers) : IsEntry(e)
    <2>1. PICK i \in 1..n : p = set.profiles[i]
        BY DEF ToSet
    <2>2. PICK m \in Nat : p.providers = [j \in 1..m |-> p.providers[j]]
        BY <2>1 DEF IsProfile
    <2>3. p.providers \in Seq(ToSet(p.providers))
        BY <2>2, Listed
    <2>4. /\ p = [alias |-> p.alias, providers |-> p.providers]
          /\ \A j \in DOMAIN p.providers :
                IsEntry(p.providers[j])
        BY <2>1 DEF IsProfile
    <2>5. \A e \in ToSet(p.providers) : IsEntry(e)
        BY <2>4 DEF ToSet
    <2>6. QED
        BY <2>3, <2>4, <2>5
<1>3. QED
    BY <1>1, <1>2 DEF IsProfileSet

\* What a profile looks like when its entries were rewritten.
LEMMA RewrittenProfile ==
    ASSUME NEW p, p = [alias |-> p.alias, providers |-> p.providers], NEW g
    PROVE  Rewritten(p, g) = [alias |-> p.alias,
                              providers |-> [j \in DOMAIN p.providers |-> g[p.providers[j]]]]
<1>1. PICK al, pr, y : /\ p = [alias |-> al, providers |-> pr] /\ al = p.alias /\ pr = p.providers
                       /\ y = [j \in DOMAIN p.providers |-> g[p.providers[j]]]
    OBVIOUS
<1>2. Rewritten(p, g) = [p EXCEPT !.providers = y]
    BY <1>1 DEF Rewritten
<1>3. QED
    BY <1>1, <1>2

\* The set out is set with the entries of profile i as g[i] has them.
Reshaped(set, g, out) ==
    /\ IsProfileSet(out)
    /\ out.schema = set.schema
    /\ Aliases(out) = Aliases(set)
    /\ DOMAIN out.profiles = DOMAIN set.profiles
    /\ \A i \in DOMAIN set.profiles :
          /\ out.profiles[i].alias = set.profiles[i].alias
          /\ DOMAIN out.profiles[i].providers = DOMAIN set.profiles[i].providers
          /\ \A j \in DOMAIN set.profiles[i].providers :
                out.profiles[i].providers[j] = g[i][set.profiles[i].providers[j]]

\* A set whose entries are rewritten, each profile in its own way, keeps its
\* names and its order.
LEMMA RewrittenShape ==
    ASSUME NEW set, IsProfileSet(set), NEW g, NEW out,
           out = [set EXCEPT !.profiles =
                    [i \in DOMAIN set.profiles |-> Rewritten(set.profiles[i], g[i])]],
           \A i \in DOMAIN set.profiles : \A j \in DOMAIN set.profiles[i].providers :
              IsEntry(g[i][set.profiles[i].providers[j]])
    PROVE  Reshaped(set, g, out)
<1>1. PICK s, ps, n : /\ set = [schema |-> s, profiles |-> ps] /\ n = Len(ps) /\ n \in Nat
                      /\ s = set.schema /\ ps = set.profiles
                      /\ DOMAIN ps = 1..n
    BY Positions
<1>2. PICK new : new = [i \in 1..n |-> Rewritten(ps[i], g[i])]
    OBVIOUS
<1>3. out = [schema |-> s, profiles |-> new] /\ out.profiles = new /\ out.schema = s
    <2>1. out = [set EXCEPT !.profiles = new]
        BY <1>1, <1>2
    <2>2. QED
        BY <2>1, <1>1
<1>4. ASSUME NEW i \in 1..n
      PROVE  /\ new[i].alias = ps[i].alias
             /\ DOMAIN new[i].providers = DOMAIN ps[i].providers
             /\ \A j \in DOMAIN ps[i].providers : new[i].providers[j] = g[i][ps[i].providers[j]]
             /\ IsProfile(new[i])
    <2>0. PICK p, m : p = ps[i] /\ m = Len(ps[i].providers)
        OBVIOUS
    <2>1. /\ p = ps[i] /\ p = [alias |-> p.alias, providers |-> p.providers]
          /\ m \in Nat /\ DOMAIN p.providers = 1..m
        BY <2>0, <1>1, Positions
    <2>2. PICK y : y = [j \in DOMAIN p.providers |-> g[i][p.providers[j]]]
        OBVIOUS
    <2>3. new[i] = [alias |-> p.alias, providers |-> y]
        <3>1. new[i] = Rewritten(p, g[i])
            BY <1>2, <2>1
        <3>2. Rewritten(p, g[i]) = [alias |-> p.alias,
                                    providers |-> [j \in DOMAIN p.providers |-> g[i][p.providers[j]]]]
            BY <2>1, RewrittenProfile
        <3>3. QED
            BY <3>1, <3>2, <2>2
    <2>4. new[i].alias = p.alias /\ new[i].providers = y
        BY <2>3
    <2>5. DOMAIN y = 1..m /\ \A j \in 1..m : y[j] = g[i][p.providers[j]]
        BY <2>1, <2>2
    <2>6. \A j \in 1..m : IsEntry(y[j])
        BY <2>1, <2>5, <1>1
    <2>7. y = [j \in 1..m |-> y[j]]
        BY <2>1, <2>2
    <2>8. IsProfile(new[i])
        BY <2>1, <2>3, <2>4, <2>5, <2>6, <2>7 DEF IsProfile
    <2>9. QED
        BY <2>1, <2>4, <2>5, <2>8
<1>5. IsProfileSet(out)
    <2>1. /\ out = [schema |-> out.schema, profiles |-> out.profiles]
          /\ out.profiles = [i \in 1..n |-> out.profiles[i]]
        BY <1>2, <1>3
    <2>2. \A i \in 1..n : IsProfile(out.profiles[i])
        BY <1>3, <1>4
    <2>3. QED
        BY <2>1, <2>2, <1>1, FromPositions
<1>6. DOMAIN out.profiles = 1..n
    BY <1>2, <1>3
<1>7. Aliases(out) = Aliases(set)
    BY <1>1, <1>3, <1>4, <1>6 DEF Aliases
<1>8. QED
    BY <1>1, <1>3, <1>4, <1>5, <1>6, <1>7 DEF Reshaped

\* The same with one g for all profiles.
Remade(set, g, out) ==
    /\ IsProfileSet(out)
    /\ out.schema = set.schema
    /\ Aliases(out) = Aliases(set)
    /\ DOMAIN out.profiles = DOMAIN set.profiles
    /\ \A i \in DOMAIN set.profiles :
          /\ out.profiles[i].alias = set.profiles[i].alias
          /\ DOMAIN out.profiles[i].providers = DOMAIN set.profiles[i].providers
          /\ \A j \in DOMAIN set.profiles[i].providers :
                out.profiles[i].providers[j] = g[set.profiles[i].providers[j]]
    /\ Entries(out) = {g[e] : e \in Entries(set)}

\* A set with every entry rewritten by g keeps its names and its order.
LEMMA EachEntry ==
    ASSUME NEW set, IsProfileSet(set), NEW g, \A e \in Entries(set) : IsEntry(g[e]),
           NEW out, out = ForEachEntry(set, g)
    PROVE  Remade(set, g, out)
<1>1. PICK G : G = [i \in DOMAIN set.profiles |-> g]
    OBVIOUS
<1>2. out = [set EXCEPT !.profiles =
                [i \in DOMAIN set.profiles |-> Rewritten(set.profiles[i], G[i])]]
    <2>1. \A i \in DOMAIN set.profiles : G[i] = g
        BY <1>1
    <2>2. [i \in DOMAIN set.profiles |-> Rewritten(set.profiles[i], G[i])]
             = [i \in DOMAIN set.profiles |-> Rewritten(set.profiles[i], g)]
        BY <2>1
    <2>3. QED
        BY <2>2 DEF ForEachEntry
<1>3. \A i \in DOMAIN set.profiles : \A j \in DOMAIN set.profiles[i].providers :
         /\ set.profiles[i].providers[j] \in Entries(set)
         /\ IsEntry(G[i][set.profiles[i].providers[j]])
    BY <1>1, InEntries
<1>4. Reshaped(set, G, out)
    BY <1>2, <1>3, RewrittenShape
<1>5. \A i \in DOMAIN set.profiles : \A j \in DOMAIN set.profiles[i].providers :
         out.profiles[i].providers[j] = g[set.profiles[i].providers[j]]
    BY <1>1, <1>4 DEF Reshaped
<1>6. Entries(out) = {g[e] : e \in Entries(set)}
    <2>1. \A x : x \in Entries(out) <=>
              \E i \in DOMAIN set.profiles : \E j \in DOMAIN set.profiles[i].providers :
                 x = g[set.profiles[i].providers[j]]
        BY <1>4, <1>5, InEntries DEF Reshaped
    <2>2. \A x : x \in Entries(set) <=>
              \E i \in DOMAIN set.profiles : \E j \in DOMAIN set.profiles[i].providers :
                 x = set.profiles[i].providers[j]
        BY InEntries
    <2>3. \A x : x \in Entries(out) <=> \E e \in Entries(set) : x = g[e]
        BY <2>1, <2>2
    <2>4. QED
        BY <2>3
<1>7. QED
    BY <1>4, <1>5, <1>6 DEF Reshaped, Remade

\* Two sets that agree at every position are one.
LEMMA SameSets ==
    ASSUME NEW a, NEW b, IsProfileSet(a), IsProfileSet(b), a.schema = b.schema,
           DOMAIN a.profiles = DOMAIN b.profiles,
           \A i \in DOMAIN a.profiles :
              /\ a.profiles[i].alias = b.profiles[i].alias
              /\ DOMAIN a.profiles[i].providers = DOMAIN b.profiles[i].providers
              /\ \A j \in DOMAIN a.profiles[i].providers :
                    a.profiles[i].providers[j] = b.profiles[i].providers[j]
    PROVE  a = b
<1>1. ASSUME NEW i \in DOMAIN a.profiles
      PROVE  a.profiles[i] = b.profiles[i]
    <2>1. PICK p, q : p = a.profiles[i] /\ q = b.profiles[i]
        OBVIOUS
    <2>2. /\ p = [alias |-> p.alias, providers |-> p.providers]
          /\ q = [alias |-> q.alias, providers |-> q.providers]
        BY <2>1, Positions
    <2>3. p.providers \in Seq(ToSet(p.providers)) /\ q.providers \in Seq(ToSet(q.providers))
        <3>1. p \in ToSet(a.profiles) /\ q \in ToSet(b.profiles)
            BY <2>1 DEF ToSet
        <3>2. QED
            BY <3>1 DEF IsProfileSet
    <2>4. p.providers = q.providers
        BY <2>1, <2>3
    <2>5. QED
        BY <2>1, <2>2, <2>4
<1>2. a.profiles \in Seq(ToSet(a.profiles)) /\ b.profiles \in Seq(ToSet(b.profiles))
    BY DEF IsProfileSet
<1>3. a.profiles = b.profiles
    BY <1>1, <1>2
<1>4. QED
    BY <1>3 DEF IsProfileSet

Unknown(set) == {e \in Entries(set) : e.tag \notin KnownTags}

\* What a file holds and what this build makes of it in RAM.
LEMMA ShieldStored ==
    ASSUME NEW f, Stored(f), f.schema >= 2, NEW r, r = shield_unknown_providers(f)
    PROVE  /\ Loaded(r) /\ Aliases(r) = Aliases(f)
           /\ Carried(r) = Unknown(f)
           /\ restore_unknown_providers(r) = f
<1>1. PICK g, h : /\ g = [e \in Entries(f) |-> Shielded(e)]
                  /\ h = [e \in Entries(r) |-> Restored(e)]
    OBVIOUS
<1>2. ASSUME NEW e \in Entries(f)
      PROVE  /\ IsEntry(e) /\ IsEntry(g[e]) /\ Restored(g[e]) = e
             /\ e.tag \in KnownTags => g[e] = e
             /\ e.tag \notin KnownTags =>
                   g[e].tag = Carrier /\ g[e].body = e /\ e.tag \notin KnownTags \cup {Carrier}
    <2>1. IsEntry(e) /\ e.tag # Carrier
        BY DEF Stored, IsProfileSet, Entries
    <2>2. g[e] = IF e.tag \in KnownTags THEN e ELSE [tag |-> Carrier, body |-> e]
        BY <1>1, <2>1 DEF Shielded
    <2>3. QED
        BY <2>1, <2>2 DEF IsEntry, Restored
<1>3. /\ IsProfileSet(f) /\ \A e \in Entries(f) : IsEntry(g[e])
      /\ r = ForEachEntry(f, g)
    BY <1>1, <1>2 DEF Stored, shield_unknown_providers
<1>4. /\ IsProfileSet(r)
      /\ r.schema = f.schema
      /\ Aliases(r) = Aliases(f)
      /\ DOMAIN r.profiles = DOMAIN f.profiles
      /\ \A i \in DOMAIN f.profiles :
            /\ r.profiles[i].alias = f.profiles[i].alias
            /\ DOMAIN r.profiles[i].providers = DOMAIN f.profiles[i].providers
            /\ \A j \in DOMAIN f.profiles[i].providers :
                  r.profiles[i].providers[j] = g[f.profiles[i].providers[j]]
      /\ Entries(r) = {g[e] : e \in Entries(f)}
    <2>1. Remade(f, g, r)
        BY <1>3, EachEntry
    <2>2. QED
        BY <2>1 DEF Remade
<1>5. Carrier \notin KnownTags
    BY ContainerFileAssumption
<1>6. \A x \in Entries(r) : /\ x.tag \in KnownTags \cup {Carrier}
                            /\ x.tag = Carrier => /\ IsEntry(x.body)
                                                  /\ x.body.tag \notin KnownTags \cup {Carrier}
    BY <1>2, <1>4, <1>5
<1>7. Loaded(r)
    BY <1>4, <1>6 DEF Loaded, Typed, Writable
<1>8. Carried(r) = Unknown(f)
    <2>1. ASSUME NEW x \in Entries(r), x.tag = Carrier
          PROVE  x.body \in Unknown(f)
        BY <2>1, <1>2, <1>4, <1>5 DEF Unknown
    <2>2. ASSUME NEW e \in Unknown(f)
          PROVE  e \in Carried(r)
        <3>1. e \in Entries(f) /\ g[e] \in Entries(r) /\ g[e].tag = Carrier /\ g[e].body = e
            BY <1>2, <1>4 DEF Unknown
        <3>2. QED
            BY <3>1 DEF Carried
    <2>3. QED
        BY <2>1, <2>2 DEF Carried
<1>9. restore_unknown_providers(r) = f
    <2>1. PICK b : b = ForEachEntry(r, h) /\ b = restore_unknown_providers(r)
        BY <1>1 DEF restore_unknown_providers
    <2>2. \A e \in Entries(f) : g[e] \in Entries(r) /\ h[g[e]] = e
        BY <1>1, <1>2, <1>4
    <2>3. \A x \in Entries(r) : IsEntry(h[x])
        BY <2>2, <1>2, <1>4
    <2>4. /\ IsProfileSet(b)
          /\ b.schema = r.schema
          /\ DOMAIN b.profiles = DOMAIN r.profiles
          /\ \A i \in DOMAIN r.profiles :
                /\ b.profiles[i].alias = r.profiles[i].alias
                /\ DOMAIN b.profiles[i].providers = DOMAIN r.profiles[i].providers
                /\ \A j \in DOMAIN r.profiles[i].providers :
                      b.profiles[i].providers[j] = h[r.profiles[i].providers[j]]
        <3>1. Remade(r, h, b)
            BY <2>1, <2>3, <1>4, EachEntry
        <3>2. QED
            BY <3>1 DEF Remade
    <2>5. \A i \in DOMAIN f.profiles : \A j \in DOMAIN f.profiles[i].providers :
             f.profiles[i].providers[j] \in Entries(f)
        BY InEntries
    <2>6. \A i \in DOMAIN b.profiles :
                /\ b.profiles[i].alias = f.profiles[i].alias
                /\ DOMAIN b.profiles[i].providers = DOMAIN f.profiles[i].providers
                /\ \A j \in DOMAIN b.profiles[i].providers :
                      b.profiles[i].providers[j] = f.profiles[i].providers[j]
        BY <1>4, <2>2, <2>4, <2>5
    <2>7. b = f
        BY <1>3, <1>4, <2>4, <2>6, SameSets
    <2>8. QED
        BY <2>1, <2>7
<1>10. QED
    BY <1>4, <1>7, <1>8, <1>9

\* ... and what this build writes of it.
LEMMA RestoreLoaded ==
    ASSUME NEW r, Loaded(r), NEW f, f = restore_unknown_providers(r)
    PROVE  /\ Stored(f) /\ f.schema >= 2 /\ Aliases(f) = Aliases(r)
           /\ Unknown(f) = Carried(r)
           /\ shield_unknown_providers(f) = r
<1>1. PICK g, h : /\ g = [e \in Entries(r) |-> Restored(e)]
                  /\ h = [e \in Entries(f) |-> Shielded(e)]
    OBVIOUS
<1>2. ASSUME NEW e \in Entries(r)
      PROVE  /\ IsEntry(e) /\ IsEntry(g[e]) /\ Shielded(g[e]) = e
             /\ e.tag = Carrier => g[e] = e.body /\ e.body.tag \notin KnownTags \cup {Carrier}
             /\ e.tag # Carrier => g[e] = e /\ e.tag \in KnownTags
    <2>1. /\ IsEntry(e) /\ e.tag \in KnownTags \cup {Carrier}
          /\ e.tag = Carrier => IsEntry(e.body) /\ e.body.tag \notin KnownTags \cup {Carrier}
        BY DEF Loaded, Typed, Writable, IsProfileSet, Entries
    <2>2. g[e] = IF e.tag = Carrier THEN e.body ELSE e
        BY <1>1 DEF Restored
    <2>3. QED
        BY <2>1, <2>2 DEF IsEntry, Shielded
<1>3. /\ IsProfileSet(r) /\ \A e \in Entries(r) : IsEntry(g[e])
      /\ f = ForEachEntry(r, g)
    BY <1>1, <1>2 DEF Loaded, restore_unknown_providers
<1>4. /\ IsProfileSet(f)
      /\ f.schema = r.schema
      /\ Aliases(f) = Aliases(r)
      /\ DOMAIN f.profiles = DOMAIN r.profiles
      /\ \A i \in DOMAIN r.profiles :
            /\ f.profiles[i].alias = r.profiles[i].alias
            /\ DOMAIN f.profiles[i].providers = DOMAIN r.profiles[i].providers
            /\ \A j \in DOMAIN r.profiles[i].providers :
                  f.profiles[i].providers[j] = g[r.profiles[i].providers[j]]
      /\ Entries(f) = {g[e] : e \in Entries(r)}
    <2>1. Remade(r, g, f)
        BY <1>3, EachEntry
    <2>2. QED
        BY <2>1 DEF Remade
<1>5. Carrier \notin KnownTags
    BY ContainerFileAssumption
<1>6. Stored(f)
    BY <1>2, <1>4, <1>5 DEF Stored
<1>7. Unknown(f) = Carried(r)
    <2>1. ASSUME NEW x \in Unknown(f)
          PROVE  x \in Carried(r)
        <3>1. PICK e \in Entries(r) : x = g[e]
            BY <1>4 DEF Unknown
        <3>2. e.tag = Carrier /\ x = e.body
            BY <3>1, <1>2 DEF Unknown
        <3>3. QED
            BY <3>1, <3>2 DEF Carried
    <2>2. ASSUME NEW e \in Entries(r), e.tag = Carrier
          PROVE  e.body \in Unknown(f)
        BY <2>2, <1>2, <1>4 DEF Unknown
    <2>3. QED
        BY <2>1, <2>2 DEF Carried
<1>8. shield_unknown_providers(f) = r
    <2>1. PICK b : b = ForEachEntry(f, h) /\ b = shield_unknown_providers(f)
        BY <1>1 DEF shield_unknown_providers
    <2>2. \A e \in Entries(r) : g[e] \in Entries(f) /\ h[g[e]] = e
        BY <1>1, <1>2, <1>4
    <2>3. \A x \in Entries(f) : IsEntry(h[x])
        BY <2>2, <1>2, <1>4
    <2>4. /\ IsProfileSet(b)
          /\ b.schema = f.schema
          /\ DOMAIN b.profiles = DOMAIN f.profiles
          /\ \A i \in DOMAIN f.profiles :
                /\ b.profiles[i].alias = f.profiles[i].alias
                /\ DOMAIN b.profiles[i].providers = DOMAIN f.profiles[i].providers
                /\ \A j \in DOMAIN f.profiles[i].providers :
                      b.profiles[i].providers[j] = h[f.profiles[i].providers[j]]
        <3>1. Remade(f, h, b)
            BY <2>1, <2>3, <1>4, EachEntry
        <3>2. QED
            BY <3>1 DEF Remade
    <2>5. \A i \in DOMAIN r.profiles : \A j \in DOMAIN r.profiles[i].providers :
             r.profiles[i].providers[j] \in Entries(r)
        BY InEntries
    <2>6. \A i \in DOMAIN b.profiles :
                /\ b.profiles[i].alias = r.profiles[i].alias
                /\ DOMAIN b.profiles[i].providers = DOMAIN r.profiles[i].providers
                /\ \A j \in DOMAIN b.profiles[i].providers :
                      b.profiles[i].providers[j] = r.profiles[i].providers[j]
        BY <1>4, <2>2, <2>4, <2>5
    <2>7. b = r
        BY <1>3, <1>4, <2>4, <2>6, SameSets
    <2>8. QED
        BY <2>1, <2>7
<1>9. QED
    BY <1>4, <1>6, <1>7, <1>8 DEF Loaded

-------------------------------------------------------------------------------
(***************************************************************************)
(* Opening, sealing, rotating and refreshing.                              *)
(***************************************************************************)

\* Carriers or not, what a file holds is decoded into the same set in RAM.
LEMMA Decodes ==
    ASSUME NEW payload, payload.is = "set", Stored(payload.set), payload.set.schema >= 2
    PROVE  Decoded(payload).ok /\ Decoded(payload).set = shield_unknown_providers(payload.set)
<1>1. PICK f, r : f = payload.set /\ r = shield_unknown_providers(f)
    OBVIOUS
<1>2. Loaded(r) /\ IsProfileSet(f)
    BY <1>1, ShieldStored DEF Stored
<1>3. Typed(f) => r = f
    <2>1. SUFFICES ASSUME Typed(f) PROVE r = f
        OBVIOUS
    <2>2. PICK g : g = [e \in Entries(f) |-> Shielded(e)]
        OBVIOUS
    <2>3. \A e \in Entries(f) : IsEntry(e) /\ g[e] = e
        BY <2>1, <2>2, <1>2 DEF Typed, Shielded, IsProfileSet, Entries
    <2>4. r = ForEachEntry(f, g)
        BY <1>1, <2>2 DEF shield_unknown_providers
    <2>5. Remade(f, g, r)
        BY <2>3, <2>4, <1>2, EachEntry
    <2>6. \A i \in DOMAIN f.profiles : \A j \in DOMAIN f.profiles[i].providers :
             f.profiles[i].providers[j] \in Entries(f)
        BY InEntries
    <2>7. QED
        BY <2>3, <2>5, <2>6, <1>2, SameSets DEF Remade
<1>4. Typed(r)
    BY <1>2 DEF Loaded
<1>5. Decoded(payload) = [ok |-> TRUE, set |-> r]
    BY <1>1, <1>3, <1>4 DEF Decoded
<1>6. QED
    BY <1>1, <1>5

\* What a file that opens is, and what it opens to.
LEMMA Opens ==
    ASSUME NEW f, IsFile(f), NEW p, decrypt_set(f, p).ok
    PROVE  /\ IsSealed(f)
           /\ f.key = derive_key(p, f.salt, f.cfg) /\ validate(f.cfg)
           /\ decrypt_set(f, p).kek = f.key
           /\ decrypt_set(f, p).set = shield_unknown_providers(f.payload.set)
<1>1. PICK d, kek : d = Decoded(f.payload) /\ kek = derive_key(p, f.salt, f.cfg)
    OBVIOUS
<1>2. decrypt_set(f, p) = IF f.header \in HeaderErrors THEN Fail(f.header)
                          ELSE IF ~validate(f.cfg) THEN Fail("Kdf")
                          ELSE IF f.key # kek THEN Fail("Aead")
                          ELSE IF d.ok THEN [ok |-> TRUE, kek |-> kek, set |-> d.set]
                          ELSE d
    BY <1>1 DEF decrypt_set
<1>3. \A e : ~Fail(e).ok
    BY DEF Fail
<1>4. f.header \notin HeaderErrors /\ validate(f.cfg) /\ f.key = kek /\ d.ok
    BY <1>2, <1>3
<1>5. f.payload.is = "set" /\ f.payload.set.schema >= 2
    BY <1>1, <1>3, <1>4 DEF Decoded
<1>6. IsSealed(f) /\ Stored(f.payload.set)
    BY <1>4, <1>5 DEF IsSealed, IsFile
<1>7. decrypt_set(f, p) = [ok |-> TRUE, kek |-> kek, set |-> d.set]
    BY <1>2, <1>4
<1>8. d.set = shield_unknown_providers(f.payload.set)
    BY <1>1, <1>5, <1>6, Decodes
<1>9. QED
    BY <1>1, <1>4, <1>6, <1>7, <1>8

\* The other way round.
LEMMA OpenedBy ==
    ASSUME NEW f, NEW p, f.header \notin HeaderErrors, validate(f.cfg),
           f.key = derive_key(p, f.salt, f.cfg),
           f.payload.is = "set", Stored(f.payload.set), f.payload.set.schema >= 2
    PROVE  /\ decrypt_set(f, p).ok
           /\ decrypt_set(f, p).kek = f.key
           /\ decrypt_set(f, p).set = shield_unknown_providers(f.payload.set)
<1>1. PICK d, kek : d = Decoded(f.payload) /\ kek = derive_key(p, f.salt, f.cfg)
    OBVIOUS
<1>2. d.ok /\ d.set = shield_unknown_providers(f.payload.set)
    BY <1>1, Decodes
<1>3. decrypt_set(f, p) = IF f.header \in HeaderErrors THEN Fail(f.header)
                          ELSE IF ~validate(f.cfg) THEN Fail("Kdf")
                          ELSE IF f.key # kek THEN Fail("Aead")
                          ELSE IF d.ok THEN [ok |-> TRUE, kek |-> kek, set |-> d.set]
                          ELSE d
    BY <1>1 DEF decrypt_set
<1>4. decrypt_set(f, p) = [ok |-> TRUE, kek |-> kek, set |-> d.set]
    BY <1>1, <1>2, <1>3
<1>5. QED
    BY <1>1, <1>2, <1>4

\* The file f, sealed under kek, is what the set is saved as.
SavedAs(set, kek, f) ==
    /\ IsSealed(f)
    /\ f.key = kek
    /\ Aliases(f.payload.set) = Aliases(set)
    /\ Unknown(f.payload.set) = Carried(set)
    /\ LET again == decrypt_set(f, kek.passphrase) IN
       again.ok /\ again.kek = kek /\ again.set = set

\* A set in RAM can be sealed, and opens again to itself.
LEMMA Seals ==
    ASSUME NEW set, Loaded(set), Named(set) \cap Mark = {}, NEW kek, IsKek(kek)
    PROVE  /\ encrypt_set_with_kek(set, kek).ok
           /\ SavedAs(set, kek, encrypt_set_with_kek(set, kek).envelope)
<1>1. PICK f, s : /\ f = [header |-> "v1", cfg |-> kek.cfg, salt |-> kek.salt, key |-> kek,
                          payload |-> [is |-> "set", set |-> s]]
                  /\ s = restore_unknown_providers(set)
    OBVIOUS
<1>2. encrypt_set_with_kek(set, kek) = [ok |-> TRUE, envelope |-> f]
    BY <1>1 DEF encrypt_set_with_kek, Loaded
<1>3. /\ Stored(s) /\ s.schema >= 2 /\ Aliases(s) = Aliases(set)
      /\ Unknown(s) = Carried(set)
      /\ shield_unknown_providers(s) = set
    BY <1>1, RestoreLoaded
<1>4. /\ f.header = "v1" /\ f.cfg = kek.cfg /\ f.salt = kek.salt /\ f.key = kek
      /\ f.payload.is = "set" /\ f.payload.set = s
    BY <1>1
<1>5. "v1" \notin HeaderErrors
    BY DEF HeaderErrors
<1>6. IsSealed(f)
    <2>1. f # NoFile
        BY <1>4 DEF NoFile
    <2>2. ToSet(Aliases(s)) \cap Mark = {}
        BY <1>3 DEF Named
    <2>3. QED
        BY <1>3, <1>4, <1>5, <2>1, <2>2 DEF IsSealed, IsFile
<1>7. /\ decrypt_set(f, kek.passphrase).ok
      /\ decrypt_set(f, kek.passphrase).kek = kek
      /\ decrypt_set(f, kek.passphrase).set = set
    BY <1>3, <1>4, <1>5, OpenedBy DEF IsKek
<1>8. SavedAs(set, kek, f)
    BY <1>3, <1>4, <1>6, <1>7 DEF SavedAs
<1>9. QED
    BY <1>2, <1>8

\* What was opened, as it is in RAM.
LEMMA OpenedLoaded ==
    ASSUME NEW f, IsFile(f), NEW p, decrypt_set(f, p).ok,
           NEW set, set = decrypt_set(f, p).set, NEW kek, kek = decrypt_set(f, p).kek
    PROVE  /\ Loaded(set) /\ Aliases(set) = Aliases(f.payload.set)
           /\ Carried(set) = Unknown(f.payload.set)
           /\ Named(set) \cap Mark = {}
           /\ IsKek(kek) /\ kek.passphrase = p /\ f.key = kek
<1>1. /\ IsSealed(f)
      /\ kek = derive_key(p, f.salt, f.cfg) /\ validate(f.cfg) /\ f.key = kek
      /\ set = shield_unknown_providers(f.payload.set)
    BY Opens
<1>2. /\ Stored(f.payload.set) /\ f.payload.set.schema >= 2
      /\ ToSet(Aliases(f.payload.set)) \cap Mark = {}
    BY <1>1 DEF IsSealed, IsFile
<1>3. /\ Loaded(set) /\ Aliases(set) = Aliases(f.payload.set)
      /\ Carried(set) = Unknown(f.payload.set)
    BY <1>1, <1>2, ShieldStored
<1>4. IsKek(kek) /\ kek.passphrase = p
    BY <1>1 DEF IsKek, derive_key
<1>5. QED
    BY <1>1, <1>2, <1>3, <1>4 DEF Named

\* A rotation keeps the set, its foreign entries and the passphrase.
LEMMA Rotates ==
    ASSUME NEW set, Loaded(set), Named(set) \cap Mark = {}, NEW kek, NEW p, NEW salt,
           NEW turned, turned = rotate_set_if_needed(set, kek, p, salt), turned.ok
    PROVE  /\ turned.kek.passphrase = p
           /\ SavedAs(set, turned.kek, turned.envelope)
<1>1. PICK new : new = derive_key(p, salt, Policy)
    OBVIOUS
<1>2. validate(Policy)
    BY ContainerFileAssumption DEF validate
<1>3. IsKek(new) /\ new.passphrase = p
    BY <1>1, <1>2 DEF IsKek, derive_key
<1>4. PICK sealed : sealed = encrypt_set_with_kek(set, new)
    OBVIOUS
<1>5. sealed.ok /\ SavedAs(set, new, sealed.envelope)
    BY <1>3, <1>4, Seals
<1>6. turned = encrypt_set_with_config(set, p, salt, Policy)
    BY DEF rotate_set_if_needed, Fail
<1>7. turned = [ok |-> TRUE, kek |-> new, envelope |-> sealed.envelope]
    BY <1>1, <1>2, <1>4, <1>5, <1>6 DEF encrypt_set_with_config
<1>8. QED
    BY <1>3, <1>5, <1>7

\* A refreshed token changes entries of this build only.
LEMMA Refreshes ==
    ASSUME NEW x, Loaded(x.set), NEW fresh, NEW new, new = Refreshed(x, fresh)
    PROVE  Loaded(new) /\ Aliases(new) = Aliases(x.set) /\ Carried(new) = Carried(x.set)
<1>1. PICK set, ps : set = x.set /\ ps = set.profiles
    OBVIOUS
<1>2. PICK g : g = [i \in DOMAIN ps |-> [e \in Entries(set) |->
                      IF ps[i].alias # x.active THEN e ELSE WithToken(e, fresh)]]
    OBVIOUS
<1>3. IsProfileSet(set) /\ Carrier \notin KnownTags /\ "google_drive" \in KnownTags
    BY <1>1, ContainerFileAssumption, UnlockAssumption DEF Loaded
<1>4. ASSUME NEW e \in Entries(set)
      PROVE  /\ IsEntry(e) /\ IsEntry(WithToken(e, fresh))
             /\ WithToken(e, fresh).tag = e.tag
             /\ e.tag = Carrier => WithToken(e, fresh) = e
    <2>1. IsEntry(e)
        BY <1>3 DEF IsProfileSet, Entries
    <2>2. PICK t, b : e = [tag |-> t, body |-> b]
        BY <2>1 DEF IsEntry
    <2>3. WithToken(e, fresh) = IF t = "google_drive" THEN [tag |-> t, body |-> fresh] ELSE e
        BY <2>2 DEF WithToken
    <2>4. QED
        BY <1>3, <2>1, <2>2, <2>3 DEF IsEntry
<1>5. \A i \in DOMAIN ps : \A j \in DOMAIN ps[i].providers : ps[i].providers[j] \in Entries(set)
    BY <1>1, InEntries
<1>6. ASSUME NEW i \in DOMAIN ps, NEW e \in Entries(set)
      PROVE  /\ IsEntry(g[i][e]) /\ g[i][e].tag = e.tag
             /\ e.tag = Carrier => g[i][e] = e
    <2>1. g[i][e] = IF ps[i].alias # x.active THEN e ELSE WithToken(e, fresh)
        BY <1>2
    <2>2. QED
        BY <2>1, <1>4
<1>7. ASSUME NEW i \in DOMAIN ps, NEW p, p = ps[i]
      PROVE  (IF p.alias # x.active THEN p
              ELSE Rewritten(p, [e \in ToSet(p.providers) |-> WithToken(e, fresh)]))
                = Rewritten(p, g[i])
    <2>1. /\ p = [alias |-> p.alias, providers |-> p.providers]
          /\ p.providers \in Seq(ToSet(p.providers))
        <3>1. p \in ToSet(ps)
            BY <1>7 DEF ToSet
        <3>2. QED
            BY <1>1, <1>3, <3>1 DEF IsProfileSet
    <2>2. \A j \in DOMAIN p.providers :
             p.providers[j] \in Entries(set) /\ p.providers[j] \in ToSet(p.providers)
        BY <1>5, <1>7 DEF ToSet
    <2>3. CASE p.alias # x.active
        <3>1. \A j \in DOMAIN p.providers : g[i][p.providers[j]] = p.providers[j]
            BY <1>2, <1>7, <2>2, <2>3
        <3>2. [j \in DOMAIN p.providers |-> g[i][p.providers[j]]] = p.providers
            BY <2>1, <3>1
        <3>3. Rewritten(p, g[i]) = [alias |-> p.alias,
                 providers |-> [j \in DOMAIN p.providers |-> g[i][p.providers[j]]]]
            BY <2>1, RewrittenProfile
        <3>4. QED
            BY <2>1, <2>3, <3>2, <3>3
    <2>4. CASE p.alias = x.active
        <3>1. PICK h : h = [e \in ToSet(p.providers) |-> WithToken(e, fresh)]
            OBVIOUS
        <3>2. \A j \in DOMAIN p.providers : g[i][p.providers[j]] = h[p.providers[j]]
            BY <1>2, <1>7, <2>2, <2>4, <3>1
        <3>3. [j \in DOMAIN p.providers |-> g[i][p.providers[j]]]
                 = [j \in DOMAIN p.providers |-> h[p.providers[j]]]
            BY <3>2
        <3>4. Rewritten(p, g[i]) = Rewritten(p, h)
            BY <3>3 DEF Rewritten
        <3>5. QED
            BY <2>4, <3>1, <3>4
    <2>5. QED
        BY <2>3, <2>4
<1>8. new = [set EXCEPT !.profiles = [i \in DOMAIN ps |-> Rewritten(ps[i], g[i])]]
    <2>1. PICK y, z : /\ y = [i \in DOMAIN ps |-> Rewritten(ps[i], g[i])]
                      /\ z = [i \in DOMAIN ps |->
                                IF ps[i].alias # x.active THEN ps[i]
                                ELSE Rewritten(ps[i], [e \in ToSet(ps[i].providers) |->
                                                          WithToken(e, fresh)])]
        OBVIOUS
    <2>2. z = y
        BY <1>7, <2>1
    <2>3. new = [set EXCEPT !.profiles = z]
        BY <1>1, <2>1 DEF Refreshed
    <2>4. QED
        BY <2>1, <2>2, <2>3
<1>9. Reshaped(set, g, new)
    <2>1. \A i \in DOMAIN set.profiles : \A j \in DOMAIN set.profiles[i].providers :
             IsEntry(g[i][set.profiles[i].providers[j]])
        BY <1>1, <1>5, <1>6
    <2>2. new = [set EXCEPT !.profiles =
                    [i \in DOMAIN set.profiles |-> Rewritten(set.profiles[i], g[i])]]
        BY <1>1, <1>8
    <2>3. QED
        BY <1>3, <2>1, <2>2, RewrittenShape
<1>10. \A y : y \in Entries(new) <=>
          \E i \in DOMAIN ps : \E j \in DOMAIN ps[i].providers : y = g[i][ps[i].providers[j]]
    BY <1>1, <1>9, InEntries DEF Reshaped
<1>11. \A y : y \in Entries(set) <=>
          \E i \in DOMAIN ps : \E j \in DOMAIN ps[i].providers : y = ps[i].providers[j]
    BY <1>1, InEntries
<1>12. ASSUME NEW y \in Entries(new)
       PROVE  \E e \in Entries(set) : y.tag = e.tag /\ (e.tag = Carrier => y = e)
    BY <1>6, <1>10, <1>11
<1>13. ASSUME NEW e \in Entries(set), e.tag = Carrier
       PROVE  e \in Entries(new)
    BY <1>6, <1>10, <1>11, <1>13
<1>14. Loaded(new)
    BY <1>1, <1>9, <1>12 DEF Loaded, Reshaped, Typed, Writable
<1>15. {y \in Entries(new) : y.tag = Carrier} = {e \in Entries(set) : e.tag = Carrier}
    BY <1>12, <1>13
<1>16. Carried(new) = Carried(set)
    BY <1>15 DEF Carried
<1>17. QED
    BY <1>1, <1>9, <1>14, <1>16 DEF Reshaped

-------------------------------------------------------------------------------
(***************************************************************************)
(* The run of a command.                                                   *)
(***************************************************************************)

\* A command that goes on: where it goes, what it takes along and what it keeps.
Gone(r, at, more) ==
    /\ DOMAIN run' = DOMAIN r \cup DOMAIN more
    /\ run'.at = at
    /\ \A f \in DOMAIN more : run'[f] = more[f]
    /\ \A f \in DOMAIN r : f # "at" /\ f \notin DOMAIN more => run'[f] = r[f]

\* What a command is after it has gone on.
LEMMA GotoIs ==
    ASSUME NEW r, NEW at, NEW more, Goto(r, at, more), "at" \in DOMAIN r, "at" \notin DOMAIN more
    PROVE  Gone(r, at, more)
BY DEF Goto, Gone

\* Where a command has a container in hand, or a name of the account.
Elsewhere == Asking \cup Opening \cup Waiting \cup {"fetch"}

\* A command that ended has nothing in hand.
LEMMA AtIdle == Idle.at = "idle" /\ "idle" \notin Elsewhere
BY DEF Idle, Elsewhere, Asking, Opening, Waiting

\* A container that comes in is one that can be written.
LEMMA Blobs ==
    ASSUME FilesInv, NEW a \in DOMAIN account
    PROVE  IsFile(account[a])
BY UnlockAssumption DEF FilesInv

\* A container whose writing failed is one that nobody can open.
LEMMA TornIsFile == IsFile(Torn) /\ ~IsSealed(Torn)
BY DEF IsFile, Torn, NoFile, HeaderErrors, IsSealed

\* The invariant holds when nothing has run.
LEMMA InitUnlock == Init => UnlockInv
<1> SUFFICES ASSUME Init PROVE UnlockInv
    OBVIOUS
<1>1. RunInv /\ ChoiceInv
    BY AtIdle DEF Init, RunInv, ChoiceInv, Elsewhere, Holding, Waiting
<1>2. FilesInv
    BY UnlockAssumption DEF Init, FilesInv, Slots
<1>3. SessionInv /\ RememberedInv
    BY DEF Init, SessionInv, RememberedInv
<1>4. QueueInv
    BY DEF Init, QueueInv, Held, ToSet
<1>5. QED
    BY <1>1, <1>2, <1>3, <1>4 DEF UnlockInv

-------------------------------------------------------------------------------
(***************************************************************************)
(* The invariant, step by step.                                            *)
(***************************************************************************)

\* The invariant apart from the run of the command.
Rest == FilesInv /\ SessionInv /\ RememberedInv /\ QueueInv

\* Nothing changes when nothing the rest is about does.
LEMMA RestStays ==
    ASSUME Rest, UNCHANGED <<disk, hint, agent, queue, account, remembered, reported>>
    PROVE  Rest'
BY DEF Rest, FilesInv, SessionInv, SessionOf, RememberedInv, QueueInv, Held

\* A command that ends, or goes where nothing is open.
LEMMA RunGoes ==
    ASSUME run' # Idle => {"at", "inv", "tty", "confirm"} \subseteq DOMAIN run',
           run'.at \notin Elsewhere
    PROVE  RunInv' /\ ChoiceInv'
BY DEF RunInv, ChoiceInv, Elsewhere, Asking, Opening, Waiting, Holding

\* A command that ends.
LEMMA RunEnds ==
    ASSUME NEW code, Exit(code)
    PROVE  RunInv' /\ ChoiceInv'
BY AtIdle, RunGoes DEF Exit

\* ... and one that has nothing to take along.
LEMMA RunMoves ==
    ASSUME RunInv, run # Idle, NEW at, at \notin Elsewhere, NEW more, Goto(run, at, more),
           "at" \notin DOMAIN more
    PROVE  RunInv' /\ ChoiceInv'
<1>1. {"at", "inv", "tty", "confirm"} \subseteq DOMAIN run
    BY DEF RunInv
<1>2. DOMAIN run \subseteq DOMAIN run' /\ run'.at = at
    BY <1>1, GotoIs DEF Gone
<1>3. QED
    BY <1>1, <1>2, RunGoes

\* A command that is somewhere has not ended.
LEMMA NotIdle == ASSUME run.at # "idle" PROVE run # Idle
BY AtIdle

\* The passphrase is taken from a file or typed.
LEMMA AskingInv ==
    ASSUME UnlockInv, TakePassphrase \/ TypePassphrase
    PROVE  UnlockInv'
<1>1. Quiet /\ run.at = "ask" /\ run # Idle
    BY NotIdle DEF TakePassphrase, TypePassphrase
<1>2. CASE \E code : Exit(code)
    BY <1>1, <1>2, RestStays, RunEnds DEF UnlockInv, Rest, Quiet
<1>3. CASE \E p : Goto(run, "open", [passphrase |-> p])
    <2>1. PICK p, more : Goto(run, "open", more) /\ more = [passphrase |-> p]
        BY <1>3
    <2>2. /\ {"at", "inv", "tty", "confirm", "slot", "envelope"} \subseteq DOMAIN run
          /\ run.slot \in Slots /\ disk[run.slot] # NoFile /\ run.envelope = disk[run.slot]
        BY <1>1 DEF UnlockInv, RunInv, Asking
    <2>3. /\ DOMAIN run' = DOMAIN run \cup {"passphrase"} /\ run'.at = "open"
          /\ run'.slot = run.slot /\ run'.envelope = run.envelope
        <3>1. DOMAIN more = {"passphrase"} /\ "at" \notin {"passphrase"}
            BY <2>1
        <3>2. Gone(run, "open", more)
            BY <2>1, <2>2, <3>1, GotoIs
        <3>3. QED
            BY <2>2, <3>1, <3>2 DEF Gone
    <2>4. disk' = disk
        BY <1>1 DEF Quiet
    <2>5. RunInv' /\ ChoiceInv'
        BY <2>2, <2>3, <2>4 DEF RunInv, ChoiceInv, Asking, Opening, Waiting, Holding
    <2>6. QED
        BY <1>1, <2>5, RestStays DEF UnlockInv, Rest, Quiet
<1>4. QED
    BY <1>2, <1>3 DEF TakePassphrase, TypePassphrase

\* The name that is handed over is one of the set; a remembered one is taken
\* when a script names none.
LEMMA Chosen ==
    ASSUME NEW set, Loaded(set), Named(set) \cap Mark = {}, NEW r,
           NEW cached \in Named(set) \cup {None},
           NEW alias, alias = choose_alias(r, Aliases(set), cached), alias # "USAGE"
    PROVE  /\ alias = Ask \/ alias \in Named(set)
           /\ /\ r.slot = "local" /\ scriptable(r.inv)
              /\ r.inv.flags.alias = None /\ cached # None
              => alias = cached /\ alias # Ask
<1>1. PICK as : as = Aliases(set)
    OBVIOUS
<1>2. as \in Seq(Named(set))
    <2>1. PICK n \in Nat : DOMAIN set.profiles = 1..n
        BY Positions DEF Loaded
    <2>2. as = [i \in 1..n |-> as[i]]
        BY <1>1, <2>1 DEF Aliases
    <2>3. QED
        BY <1>1, <2>2, Listed DEF Named
<1>3. Len(as) = 1 => as[1] \in Named(set)
    <2>1. \A i \in 1..Len(as) : as[i] \in Named(set)
        BY <1>2, ElementOfSeq
    <2>2. Len(as) = 1 => 1 \in 1..Len(as)
        OBVIOUS
    <2>3. QED
        BY <2>1, <2>2
<1>4. ToSet(as) = Named(set) /\ {None, "USAGE", Ask} \cap Named(set) = {}
    BY <1>1 DEF Named, Mark
<1>5. pick_alias(as, cached, r.tty) \in Named(set) \cup {Ask, "USAGE"}
    BY <1>3, <1>4 DEF pick_alias
<1>6. QED
    BY <1>1, <1>3, <1>4, <1>5 DEF choose_alias

\* The name of the sidecar is one of the container, or there is none.
LEMMA CachedIn ==
    ASSUME NEW slot, NEW set
    PROVE  CachedAlias(slot, set) \in Named(set) \cup {None}
BY DEF CachedAlias, contains_alias, Named

\* The file g is f, sealed anew.
Replaces(f, g) ==
    /\ IsSealed(g)
    /\ Named(g.payload.set) = Named(f.payload.set)
    /\ Foreign(g) = Foreign(f)
    /\ g.key.passphrase = f.key.passphrase
    /\ decrypt_set(g, g.key.passphrase).ok

\* What is in RAM is what the passphrase gets out of the file.
OpenedAs(f, p, set, kek) ==
    LET again == decrypt_set(f, p) IN again.ok /\ again.set = set /\ again.kek = kek

\* A rotated file replaces the one it was made from.
LEMMA Turns ==
    ASSUME NEW f, IsFile(f), NEW p, NEW set, NEW kek, OpenedAs(f, p, set, kek), NEW salt,
           NEW turned, turned = rotate_set_if_needed(set, kek, p, salt), turned.ok
    PROVE  Replaces(f, turned.envelope) /\ OpenedAs(turned.envelope, p, set, turned.kek)
<1>1. decrypt_set(f, p).ok /\ set = decrypt_set(f, p).set /\ kek = decrypt_set(f, p).kek
    BY DEF OpenedAs
<1>2. /\ Loaded(set) /\ Aliases(set) = Aliases(f.payload.set)
      /\ Carried(set) = Unknown(f.payload.set)
      /\ Named(set) \cap Mark = {}
      /\ kek.passphrase = p /\ f.key = kek
    BY <1>1, OpenedLoaded
<1>3. turned.kek.passphrase = p /\ SavedAs(set, turned.kek, turned.envelope)
    BY <1>2, Rotates
<1>4. PICK g : g = turned.envelope
    OBVIOUS
<1>5. /\ IsSealed(g) /\ g.key = turned.kek
      /\ Aliases(g.payload.set) = Aliases(set)
      /\ Unknown(g.payload.set) = Carried(set)
      /\ decrypt_set(g, p).ok /\ decrypt_set(g, p).kek = turned.kek
      /\ decrypt_set(g, p).set = set
    BY <1>3, <1>4 DEF SavedAs
<1>6. Foreign(g) = Foreign(f)
    BY <1>2, <1>5 DEF Foreign, Unknown
<1>7. QED
    BY <1>2, <1>3, <1>4, <1>5, <1>6 DEF Replaces, OpenedAs, Named

\* A container written anew leaves sessions and the remembered name as true as
\* they were.
LEMMA RestRewritten ==
    ASSUME Rest, NEW slot \in Slots, NEW g, Replaces(disk[slot], g),
           disk' = [disk EXCEPT ![slot] = g],
           UNCHANGED <<hint, agent, queue, account, remembered, reported>>
    PROVE  Rest'
<1>1. IsFile(g) /\ DOMAIN disk' = Slots /\ disk'[slot] = g
      /\ \A s \in Slots : s # slot => disk'[s] = disk[s]
    BY DEF Rest, FilesInv, Replaces, IsSealed
<1>2. FilesInv'
    BY <1>1 DEF Rest, FilesInv
<1>3. \/ disk'.local = disk.local
      \/ Replaces(disk.local, disk'.local)
    BY <1>1 DEF Slots
<1>4. IsSealed(disk.local) =>
          /\ IsSealed(disk'.local)
          /\ Named(disk'.local.payload.set) = Named(disk.local.payload.set)
          /\ Foreign(disk'.local) = Foreign(disk.local)
          /\ disk'.local.key.passphrase = disk.local.key.passphrase
    BY <1>3 DEF Replaces
<1>5. ASSUME NEW x, SessionOf(x)
      PROVE  SessionOf(x)'
    BY <1>4, <1>5 DEF SessionOf
<1>6. SessionInv'
    BY <1>5 DEF Rest, SessionInv
<1>7. RememberedInv'
    BY <1>4 DEF Rest, RememberedInv
<1>8. QueueInv'
    BY DEF Rest, QueueInv, Held
<1>9. QED
    BY <1>2, <1>6, <1>7, <1>8 DEF Rest

\* Where a command is after it has opened the file as g: it ends, or has the key
\* and the set that g opens to.
AfterOpening(g, set, kek, alias) ==
    \/ \E code : Exit(code)
    \/ /\ alias # "USAGE" /\ OpenedAs(g, run.passphrase, set, kek)
       /\ Goto(run, IF alias = Ask THEN "pick" ELSE "hand",
               [set |-> set, kek |-> kek, alias |-> alias])

\* What a command holds once the file was opened.
LEMMA OpenedRun ==
    ASSUME RunInv, run.at = "open", NEW set, NEW kek, NEW alias,
           AfterOpening(disk'[run.slot], set, kek, alias), disk'[run.slot] # NoFile,
           alias = Ask \/ alias \in Named(set),
           run.slot = "local" /\ scriptable(run.inv)
             /\ run.inv.flags.alias = None /\ remembered # None
                => alias = remembered /\ alias # Ask,
           remembered' = remembered
    PROVE  RunInv' /\ ChoiceInv'
<1>1. CASE \E code : Exit(code)
    BY <1>1, RunEnds
<1>2. CASE /\ OpenedAs(disk'[run.slot], run.passphrase, set, kek)
           /\ Goto(run, IF alias = Ask THEN "pick" ELSE "hand",
                   [set |-> set, kek |-> kek, alias |-> alias])
    <2>1. PICK at, more : /\ at = (IF alias = Ask THEN "pick" ELSE "hand")
                          /\ more = [set |-> set, kek |-> kek, alias |-> alias]
        OBVIOUS
    <2>2. /\ {"at", "inv", "tty", "confirm", "slot", "passphrase"} \subseteq DOMAIN run
          /\ run.slot \in Slots
        BY NotIdle DEF RunInv, Asking
    <2>3. DOMAIN more = {"set", "kek", "alias"} /\ "at" \notin DOMAIN more /\ "at" \in DOMAIN run
        BY <2>1, <2>2
    <2>4. Goto(run, at, more)
        BY <1>2, <2>1
    <2>5. Gone(run, at, more)
        BY <2>3, <2>4, GotoIs
    <2>6. /\ run'.at = at /\ run'.slot = run.slot /\ run'.inv = run.inv
          /\ run'.passphrase = run.passphrase
          /\ run'.set = set /\ run'.kek = kek /\ run'.alias = alias
          /\ {"at", "inv", "tty", "confirm", "slot", "passphrase", "set", "kek", "alias"}
                \subseteq DOMAIN run'
        BY <2>1, <2>2, <2>3, <2>5 DEF Gone
    <2>7. /\ at \in Opening /\ at \notin Asking \cup Waiting /\ at # "fetch"
          /\ at # "pick" <=> alias # Ask
        BY <2>1 DEF Opening, Asking, Waiting
    <2>8. RunInv'
        BY <1>2, <2>2, <2>6, <2>7 DEF RunInv, OpenedAs, Holding, Waiting
    <2>9. ChoiceInv'
        BY <2>6, <2>7 DEF ChoiceInv, Holding
    <2>10. QED
        BY <2>8, <2>9
<1>3. QED
    BY <1>1, <1>2 DEF AfterOpening

\* The file is opened, and rotated when its parameters are below the policy.
LEMMA OpenInv ==
    ASSUME UnlockInv, Open
    PROVE  /\ UnlockInv'
           /\ \/ disk' = disk
              \/ \E g : disk' = [disk EXCEPT ![run.slot] = g] /\ Replaces(disk[run.slot], g)
<1>1. PICK opened :
          /\ opened = decrypt_set(run.envelope, run.passphrase)
          /\ \/ ~opened.ok /\ Exit("DECRYPT_FAILED") /\ UNCHANGED disk
             \/ /\ opened.ok
                /\ \E salt \in Salts \ {opened.kek.salt}, written \in BOOLEAN :
                      Opened(opened, salt, written)
    BY DEF Open
<1>2. PICK f, p, slot : f = run.envelope /\ p = run.passphrase /\ slot = run.slot
    OBVIOUS
<1>3. opened = decrypt_set(f, p)
    BY <1>1, <1>2
<1>4. PICK set : set = opened.set
    OBVIOUS
<1>5. PICK salt, written : /\ written \in BOOLEAN
                           /\ \/ ~opened.ok /\ Exit("DECRYPT_FAILED") /\ UNCHANGED disk
                              \/ opened.ok /\ Opened(opened, salt, written)
    BY <1>1
<1>6. PICK turned, cached :
          /\ turned = rotate_set_if_needed(set, opened.kek, p, salt)
          /\ cached = CachedAlias(slot, set)
    OBVIOUS
<1>7. PICK alias : alias = choose_alias(run, Aliases(set), cached)
    OBVIOUS
<1>8. PICK kek : kek = IF turned.ok /\ written THEN turned.kek ELSE opened.kek
    OBVIOUS
<1>9. /\ written \in BOOLEAN
      /\ disk' = IF opened.ok /\ turned.ok /\ written
                 THEN [disk EXCEPT ![slot] = turned.envelope] ELSE disk
      /\ \/ \E code : Exit(code)
         \/ /\ opened.ok /\ alias # "USAGE"
            /\ Goto(run, IF alias = Ask THEN "pick" ELSE "hand",
                    [set |-> set, kek |-> kek, alias |-> alias])
    BY <1>2, <1>4, <1>5, <1>6, <1>7, <1>8 DEF Opened, maybe_rotate_kek
<1>10. /\ run.at = "open" /\ UNCHANGED <<hint, agent, queue, account, remembered, reported>>
    BY DEF Open
<1>11. /\ slot \in Slots /\ f = disk[slot] /\ f # NoFile /\ IsFile(f)
    BY <1>2, <1>10 DEF UnlockInv, RunInv, FilesInv, Asking
<1>12. ASSUME opened.ok
       PROVE  /\ OpenedAs(f, p, set, opened.kek)
              /\ Loaded(set) /\ Aliases(set) = Aliases(f.payload.set) /\ Named(set) \cap Mark = {}
              /\ turned.ok => /\ Replaces(f, turned.envelope)
                              /\ OpenedAs(turned.envelope, p, set, turned.kek)
    <2>1. OpenedAs(f, p, set, opened.kek)
        BY <1>3, <1>4, <1>12 DEF OpenedAs
    <2>2. turned.ok => Replaces(f, turned.envelope) /\ OpenedAs(turned.envelope, p, set, turned.kek)
        BY <1>6, <1>11, <2>1, Turns
    <2>3. Loaded(set) /\ Aliases(set) = Aliases(f.payload.set) /\ Named(set) \cap Mark = {}
        BY <1>3, <1>4, <1>11, <1>12, OpenedLoaded
    <2>4. QED
        BY <2>1, <2>2, <2>3
<1>13. \/ disk' = disk
       \/ opened.ok /\ turned.ok /\ written /\ disk' = [disk EXCEPT ![slot] = turned.envelope]
    BY <1>9
<1>14. disk' = disk \/ \E g : disk' = [disk EXCEPT ![slot] = g] /\ Replaces(disk[slot], g)
    BY <1>11, <1>12, <1>13
<1>15. Rest /\ Rest'
    <2>1. Rest
        BY DEF UnlockInv, Rest
    <2>2. QED
        BY <1>10, <1>11, <1>14, <2>1, RestStays, RestRewritten
<1>16. disk'[slot] # NoFile
    <2>1. FilesInv /\ FilesInv'
        BY <1>15 DEF Rest
    <2>2. QED
        BY <1>11, <1>14, <2>1 DEF FilesInv, Replaces, IsSealed, IsFile
<1>17. AfterOpening(disk'[slot], set, kek, alias)
    <2>1. ASSUME opened.ok
          PROVE  OpenedAs(disk'[slot], p, set, kek)
        <3>1. CASE turned.ok /\ written
            <4>1. disk'[slot] = turned.envelope /\ kek = turned.kek
                BY <1>8, <1>9, <1>11, <2>1, <3>1 DEF UnlockInv, FilesInv
            <4>2. QED
                BY <1>12, <2>1, <3>1, <4>1
        <3>2. CASE ~(turned.ok /\ written)
            <4>1. disk' = disk /\ kek = opened.kek
                BY <1>8, <1>9, <3>2
            <4>2. QED
                BY <1>11, <1>12, <2>1, <4>1
        <3>3. QED
            BY <3>1, <3>2
    <2>2. QED
        BY <1>2, <1>9, <2>1 DEF AfterOpening
<1>18. CASE \E code : Exit(code)
    BY <1>14, <1>15, <1>2, <1>18, RunEnds DEF Rest, UnlockInv
<1>19. CASE opened.ok /\ alias # "USAGE"
    <2>1. cached \in Named(set) \cup {None}
        BY <1>6, CachedIn
    <2>2. slot = "local" /\ remembered # None => cached = remembered
        <3>1. SUFFICES ASSUME slot = "local", remembered # None PROVE cached = remembered
            OBVIOUS
        <3>2. hint.local = remembered /\ remembered \in Named(f.payload.set)
            BY <1>11, <3>1 DEF UnlockInv, RememberedInv
        <3>3. Named(set) = Named(f.payload.set) /\ None \notin Named(set) /\ Bad \notin Named(set)
            BY <1>12, <1>19 DEF Named, Mark
        <3>4. hint.local \notin {None, Bad} /\ hint.local \in ToSet(Aliases(set))
            BY <3>2, <3>3 DEF Named
        <3>5. QED
            BY <1>6, <3>1, <3>2, <3>4 DEF CachedAlias, Hinted, Readable, contains_alias
    <2>3. /\ alias = Ask \/ alias \in Named(set)
          /\ /\ slot = "local" /\ scriptable(run.inv)
             /\ run.inv.flags.alias = None /\ cached # None
             => alias = cached /\ alias # Ask
        BY <1>2, <1>7, <1>12, <1>19, <2>1, Chosen
    <2>4. RunInv' /\ ChoiceInv'
        BY <1>2, <1>10, <1>16, <1>17, <2>2, <2>3, OpenedRun DEF UnlockInv
    <2>5. QED
        BY <1>14, <1>15, <1>2, <2>4 DEF Rest, UnlockInv
<1>20. QED
    BY <1>9, <1>18, <1>19

\* The operator picks a profile.
LEMMA PickInv ==
    ASSUME UnlockInv, Pick
    PROVE  UnlockInv'
<1>1. Quiet /\ run.at = "pick"
    BY DEF Pick
<1>2. Rest'
    BY <1>1, RestStays DEF UnlockInv, Rest, Quiet
<1>3. CASE \E code : Exit(code)
    BY <1>2, <1>3, RunEnds DEF UnlockInv, Rest
<1>4. CASE \E alias \in Named(run.set) : Goto(run, "hand", [alias |-> alias])
    <2>0. PICK alias \in Named(run.set) : Goto(run, "hand", [alias |-> alias])
        BY <1>4
    <2>1. PICK more : Goto(run, "hand", more) /\ more = [alias |-> alias]
        BY <2>0
    <2>2. /\ {"at", "inv", "tty", "confirm", "slot", "passphrase", "set", "kek", "alias"}
                \subseteq DOMAIN run
          /\ run.slot \in Slots /\ disk[run.slot] # NoFile
          /\ OpenedAs(disk[run.slot], run.passphrase, run.set, run.kek)
        BY <1>1, NotIdle DEF UnlockInv, RunInv, Opening, Holding, OpenedAs
    <2>3. DOMAIN more = {"alias"} /\ "at" \notin DOMAIN more /\ "at" \in DOMAIN run
        BY <2>1, <2>2
    <2>4. Gone(run, "hand", more)
        BY <2>1, <2>3, GotoIs
    <2>5. /\ run'.at = "hand" /\ run'.slot = run.slot /\ run'.inv = run.inv
          /\ run'.passphrase = run.passphrase
          /\ run'.set = run.set /\ run'.kek = run.kek /\ run'.alias = alias
          /\ DOMAIN run' = DOMAIN run
        BY <2>1, <2>2, <2>3, <2>4 DEF Gone
    <2>6. RunInv'
        BY <1>1, <2>2, <2>5 DEF RunInv, OpenedAs, Asking, Opening, Waiting, Holding, Quiet
    <2>7. ~(/\ run.slot = "local" /\ scriptable(run.inv)
            /\ run.inv.flags.alias = None /\ remembered # None)
        BY <1>1 DEF UnlockInv, ChoiceInv, Opening, Holding
    <2>8. ChoiceInv'
        BY <1>1, <2>1, <2>5, <2>7 DEF ChoiceInv, Holding, Opening, Waiting, Quiet
    <2>9. QED
        BY <1>2, <2>6, <2>8 DEF UnlockInv, Rest
<1>5. QED
    BY <1>3, <1>4 DEF Pick, Named

\* A session stays one while the local container is not touched.
LEMMA SessionStays ==
    ASSUME UNCHANGED disk
    PROVE  \A x : SessionOf(x) => SessionOf(x)'
BY DEF SessionOf

\* A sequence is one of what it holds.
LEMMA OfItsOwn ==
    ASSUME NEW S, NEW q \in Seq(S)
    PROVE  /\ q \in Seq(ToSet(q))
           /\ Len(q) \in Nat /\ DOMAIN q = 1..Len(q)
           /\ q = <<>> <=> Len(q) = 0
<1>1. PICK n : n = Len(q)
    OBVIOUS
<1>2. n \in Nat /\ DOMAIN q = 1..n /\ q \in [1..n -> S]
    BY <1>1, LenProperties
<1>3. q = [i \in 1..n |-> q[i]]
    BY <1>2
<1>4. QED
    BY <1>1, <1>2, <1>3, Listed, EmptySeq

\* What a sequence is after something was appended.
Longer(q, x, new) ==
    /\ new \in Seq(ToSet(new)) /\ new # <<>> /\ new[Len(new)] = x
    /\ \A i \in DOMAIN new : new[i] = x \/ \E j \in DOMAIN q : new[i] = q[j]

LEMMA Appended ==
    ASSUME NEW q, q \in Seq(ToSet(q)), NEW x
    PROVE  Longer(q, x, Append(q, x))
<1> DEFINE new == Append(q, x)
<1>1. PICK S : S = ToSet(q) \cup {x}
    OBVIOUS
<1>2. q \in Seq(S) /\ x \in S
    BY <1>1
<1>3. /\ new \in Seq(S) /\ new # <<>> /\ Len(new) = Len(q) + 1
      /\ \A i \in 1..Len(q) : new[i] = q[i]
      /\ new[Len(q) + 1] = x
    BY <1>2, AppendProperties
<1>4. Len(q) \in Nat /\ DOMAIN q = 1..Len(q)
    BY <1>2, OfItsOwn
<1>5. new \in Seq(ToSet(new)) /\ DOMAIN new = 1..Len(new)
    BY <1>3, OfItsOwn
<1>6. QED
    BY <1>3, <1>4, <1>5 DEF Longer

\* What a queue is after its head was taken.
Shorter(q, new) ==
    /\ new \in Seq(ToSet(new)) /\ Head(q) = q[1] /\ 1 \in DOMAIN q
    /\ \A i \in DOMAIN new : \E j \in DOMAIN q : new[i] = q[j]
    /\ new = <<>> => q[Len(q)] = q[1]
    /\ new # <<>> => new[Len(new)] = q[Len(q)]

LEMMA Taken ==
    ASSUME NEW q, q \in Seq(ToSet(q)), q # <<>>
    PROVE  Shorter(q, Tail(q))
<1> DEFINE new == Tail(q)
<1>1. /\ Len(q) \in Nat /\ Len(q) > 0 /\ DOMAIN q = 1..Len(q)
    BY OfItsOwn
<1>2. /\ new \in Seq(ToSet(q)) /\ Len(new) = Len(q) - 1
      /\ \A i \in 1..Len(new) : new[i] = q[i + 1]
    BY HeadTailProperties
<1>3. /\ new \in Seq(ToSet(new)) /\ DOMAIN new = 1..Len(new)
      /\ new = <<>> <=> Len(new) = 0
    BY <1>2, OfItsOwn
<1>4. \A i \in DOMAIN new : i + 1 \in DOMAIN q /\ new[i] = q[i + 1]
    BY <1>1, <1>2, <1>3
<1>5. new # <<>> => Len(new) \in DOMAIN new /\ Len(new) + 1 = Len(q)
    BY <1>1, <1>2, <1>3
<1>6. new = <<>> => Len(q) = 1
    BY <1>1, <1>2, <1>3
<1>7. Head(q) = q[1]
    OBVIOUS
<1>8. QED
    BY <1>1, <1>3, <1>4, <1>5, <1>6, <1>7 DEF Shorter

\* What is sent is a session of the file it came from.
LEMMA SentIsSession ==
    ASSUME UnlockInv, Holding, run.at # "pick"
    PROVE  /\ SessionOf(Session(run))
           /\ run.slot = "local" =>
                 IsSealed(disk.local) /\ run.alias \in Named(disk.local.payload.set)
<1>2. PICK f, p, set, kek : /\ f = disk[run.slot] /\ p = run.passphrase
                            /\ set = run.set /\ kek = run.kek
    OBVIOUS
<1>3. /\ run.slot \in Slots /\ f # NoFile /\ IsFile(f)
      /\ decrypt_set(f, p).ok /\ set = decrypt_set(f, p).set /\ kek = decrypt_set(f, p).kek
    BY <1>2 DEF UnlockInv, RunInv, FilesInv
<1>4. /\ Loaded(set) /\ Aliases(set) = Aliases(f.payload.set)
      /\ Carried(set) = Unknown(f.payload.set)
      /\ Named(set) \cap Mark = {}
      /\ IsKek(kek) /\ kek.passphrase = p /\ f.key = kek
    BY <1>3, OpenedLoaded
<1>5. IsSealed(f)
    BY <1>3, Opens
<1>6. PICK x : x = [set |-> set, kek |-> kek, active |-> run.alias, slot |-> run.slot]
    OBVIOUS
<1>7. Named(set) = Named(f.payload.set) /\ Carried(set) = Foreign(f)
    BY <1>4 DEF Named, Foreign, Unknown
<1>8. SessionOf(x)
    <2>1. x.set = set /\ x.kek = kek /\ x.slot = run.slot /\ x.active = run.alias
        BY <1>6
    <2>2. x.slot = "local" => f = disk.local
        BY <1>2, <2>1
    <2>3. QED
        BY <1>3, <1>4, <1>5, <1>6, <1>7, <2>1, <2>2 DEF SessionOf
<1>9. Session(run) = x
    BY <1>2, <1>6 DEF Session
<1>10. run.alias \in Named(set)
    BY <1>2 DEF UnlockInv, ChoiceInv
<1>11. QED
    BY <1>2, <1>5, <1>7, <1>8, <1>9, <1>10

\* The agent loses its session, or goes, or is older than thought.
LEMMA AgentLess ==
    ASSUME Rest, UNCHANGED <<disk, hint, account, remembered>>,
           queue' = <<>> \/ queue' = queue,
           \/ agent' \in {agent, NoAgent, Locked}
           \/ /\ agent # NoAgent
              /\ agent' \in {[agent EXCEPT !.session = NoSession], [agent EXCEPT !.up = "old"]}
    PROVE  FilesInv' /\ SessionInv' /\ RememberedInv'
<1>1. \A x : SessionOf(x) => SessionOf(x)'
    BY SessionStays
<1>2. \A i \in DOMAIN queue' : (queue[i] = NoSession \/ SessionOf(queue[i]))' 
    BY <1>1 DEF Rest, SessionInv
<1>3. SessionInv'
    <2>2. CASE agent' = agent \/ agent' = NoAgent
        BY <1>1, <1>2, <2>2 DEF Rest, SessionInv
    <2>3. CASE agent' = Locked
        BY <1>2, <2>3 DEF SessionInv, Locked
    <2>4. CASE /\ agent # NoAgent
               /\ agent' \in {[agent EXCEPT !.session = NoSession], [agent EXCEPT !.up = "old"]}
        <3>1. PICK u, s : agent = [up |-> u, session |-> s] /\ (s = NoSession \/ SessionOf(s))
            BY <2>4 DEF Rest, SessionInv
        <3>2. agent' \in {[up |-> u, session |-> NoSession], [up |-> "old", session |-> s]}
            BY <2>4, <3>1
        <3>3. QED
            BY <1>1, <1>2, <3>1, <3>2 DEF SessionInv
    <2>5. QED
        BY <2>2, <2>3, <2>4
<1>4. QED
    BY <1>3 DEF Rest, FilesInv, RememberedInv

\* A command that waits for the answer to what it has written.
LEMMA SentInv ==
    ASSUME UnlockInv, Rest', run # Idle, UNCHANGED disk,
           NEW session, Goto(run, "wait", [asked |-> session]),
           queue' # <<>> /\ queue'[Len(queue')] = session,
           \/ session = NoSession
           \/ /\ run.at = "hand" /\ session = Session(run) /\ UNCHANGED remembered
              /\ agent' # NoAgent /\ agent'.up # "old"
    PROVE  UnlockInv'
<1>1. PICK more : more = [asked |-> session] /\ Goto(run, "wait", more)
    OBVIOUS
<1>2. {"at", "inv", "tty", "confirm"} \subseteq DOMAIN run
    BY DEF UnlockInv, RunInv
<1>3. DOMAIN more = {"asked"} /\ "at" \notin DOMAIN more
    BY <1>1
<1>4. Gone(run, "wait", more)
    BY <1>1, <1>2, <1>3, GotoIs
<1>5. /\ run'.at = "wait" /\ run'.asked = session /\ run'.inv = run.inv
      /\ DOMAIN run' = DOMAIN run \cup {"asked"}
      /\ \A f \in DOMAIN run : f \notin {"at", "asked"} => run'[f] = run[f]
    BY <1>1, <1>2, <1>3, <1>4 DEF Gone
<1>6. CASE session = NoSession
    BY <1>2, <1>5, <1>6 DEF UnlockInv, Rest, RunInv, ChoiceInv, Holding, Waiting, Asking, Opening
<1>7. CASE /\ run.at = "hand" /\ session = Session(run) /\ UNCHANGED remembered
           /\ agent' # NoAgent /\ agent'.up # "old"
    <2>1. /\ {"slot", "passphrase", "set", "kek", "alias"} \subseteq DOMAIN run
          /\ run.slot \in Slots /\ disk[run.slot] # NoFile
          /\ OpenedAs(disk[run.slot], run.passphrase, run.set, run.kek)
        BY <1>7 DEF UnlockInv, RunInv, Holding, Opening, OpenedAs
    <2>2. /\ run'.slot = run.slot /\ run'.passphrase = run.passphrase
          /\ run'.set = run.set /\ run'.kek = run.kek /\ run'.alias = run.alias
        BY <1>5, <2>1
    <2>3. session = Session(run)'
        BY <1>7, <2>2 DEF Session
    <2>4. RunInv'
        BY <1>2, <1>5, <1>7, <2>1, <2>2, <2>3
        DEF RunInv, OpenedAs, Holding, Waiting, Asking, Opening
    <2>5. ChoiceInv'
        BY <1>5, <1>7, <2>2 DEF UnlockInv, ChoiceInv, Holding, Opening
    <2>6. QED
        BY <2>4, <2>5 DEF UnlockInv, Rest
<1>8. QED
    BY <1>6, <1>7

\* The session of an Unlock is put behind what already waits.
LEMMA HandOverInv ==
    ASSUME UnlockInv, HandOver
    PROVE  UnlockInv'
<1>1. /\ run.at = "hand" /\ run # Idle
      /\ agent' = IF Evicted(agent) = NoAgent THEN Locked ELSE agent
      /\ reported' = {} /\ UNCHANGED <<disk, hint, account, remembered>>
    BY NotIdle DEF HandOver, Send
<1>2. PICK session, q : /\ session = Session(run)
                        /\ q = IF Evicted(agent) = NoAgent THEN <<>> ELSE queue
                        /\ queue' = Append(q, session)
                        /\ Goto(run, "wait", [asked |-> session])
    BY DEF HandOver, Send
<1>3. Rest
    BY DEF UnlockInv, Rest
<1>4. /\ q \in Seq(ToSet(q))
      /\ \A i \in DOMAIN q : queue[i] = q[i] /\ i \in DOMAIN queue
    BY <1>2, <1>3 DEF Rest, QueueInv, ToSet
<1>5. /\ queue' \in Seq(ToSet(queue')) /\ queue' # <<>> /\ queue'[Len(queue')] = session
      /\ \A i \in DOMAIN queue' : queue'[i] = session \/ \E j \in DOMAIN q : queue'[i] = q[j]
    <2>1. Longer(q, session, Append(q, session))
        BY <1>4, Appended
    <2>2. QED
        BY <1>2, <2>1 DEF Longer
<1>6. \A x : SessionOf(x) => SessionOf(x)'
    BY <1>1, SessionStays
<1>7. SessionOf(session)
    BY <1>1, <1>2, SentIsSession DEF Holding, Opening
<1>8. \A i \in DOMAIN queue' : (queue[i] = NoSession \/ SessionOf(queue[i]))'
    BY <1>3, <1>4, <1>5, <1>6, <1>7 DEF Rest, SessionInv
<1>9. /\ agent' # NoAgent /\ agent'.up # "old"
      /\ agent' = agent \/ agent' = [up |-> "yes", session |-> NoSession]
    BY <1>1 DEF Locked, Evicted, NoAgent
<1>10. SessionInv'
    BY <1>3, <1>6, <1>8, <1>9 DEF Rest, SessionInv
<1>11. QueueInv'
    BY <1>1, <1>5, <1>9 DEF QueueInv
<1>12. Rest'
    BY <1>1, <1>3, <1>10, <1>11 DEF Rest, FilesInv, RememberedInv
<1>13. QED
    BY <1>1, <1>2, <1>5, <1>9, <1>12, SentInv

\* Nothing was written, by an Unlock.
LEMMA CannotHandOverInv ==
    ASSUME UnlockInv, CannotHandOver
    PROVE  UnlockInv'
<1>1. /\ agent' \in IF Evicted(agent) = NoAgent THEN {NoAgent, Locked} ELSE {agent}
      /\ queue' = IF Evicted(agent) = NoAgent THEN <<>> ELSE queue
      /\ Exit("AGENT_UNREACHABLE")
      /\ UNCHANGED <<disk, hint, account, remembered, reported>>
    BY DEF CannotHandOver
<1>2. Rest
    BY DEF UnlockInv, Rest
<1>3. FilesInv' /\ SessionInv' /\ RememberedInv'
    BY <1>1, <1>2, AgentLess
<1>4. QueueInv'
    <2>1. CASE agent' = agent /\ queue' = queue
        BY <1>1, <1>2, <2>1 DEF Rest, QueueInv, Held
    <2>2. CASE Evicted(agent) = NoAgent
        <3>1. agent = NoAgent \/ (agent.up = "old" /\ agent # NoAgent)
            BY <2>2 DEF Evicted
        <3>2. reported = {} \/ Held = NoSession
            BY <1>2, <3>1 DEF Rest, QueueInv, Held
        <3>3. queue' = <<>> /\ Held' = NoSession
            BY <1>1, <2>2 DEF Held, Locked, Identity
        <3>4. QED
            BY <1>1, <1>2, <3>2, <3>3 DEF Rest, QueueInv, ToSet
    <2>3. QED
        BY <1>1, <2>1, <2>2
<1>5. QED
    BY <1>1, <1>3, <1>4, RunEnds DEF UnlockInv

\* zz q: a Lock is put behind what already waits, or there is no agent.
LEMMA LockInv ==
    ASSUME UnlockInv, LockAgent
    PROVE  UnlockInv'
<1>1. /\ run.at = "lock" /\ run # Idle
      /\ UNCHANGED <<disk, hint, agent, account, remembered>>
    BY NotIdle DEF LockAgent
<1>2. Rest
    BY DEF UnlockInv, Rest
<1>3. FilesInv' /\ RememberedInv'
    BY <1>1, <1>2 DEF Rest, FilesInv, RememberedInv
<1>4. \A x : SessionOf(x) => SessionOf(x)'
    BY <1>1, SessionStays
<1>5. CASE /\ queue' = queue
           /\ reported' = reported \/ (agent = NoAgent /\ reported' = {NoSession})
           /\ \E code : Exit(code)
    <2>1. SessionInv'
        BY <1>1, <1>2, <1>4, <1>5 DEF Rest, SessionInv
    <2>2. QueueInv'
        BY <1>1, <1>2, <1>5 DEF Rest, QueueInv, Held
    <2>3. QED
        BY <1>3, <1>5, <2>1, <2>2, RunEnds DEF UnlockInv
<1>6. CASE /\ agent # NoAgent /\ queue' = Append(queue, NoSession) /\ reported' = {}
           /\ Goto(run, "wait", [asked |-> NoSession])
    <2>1. /\ queue' \in Seq(ToSet(queue')) /\ queue' # <<>> /\ queue'[Len(queue')] = NoSession
          /\ \A i \in DOMAIN queue' :
                queue'[i] = NoSession \/ \E j \in DOMAIN queue : queue'[i] = queue[j]
        <3>1. PICK q : q = queue /\ q \in Seq(ToSet(q))
            BY <1>2 DEF Rest, QueueInv
        <3>2. Longer(q, NoSession, Append(q, NoSession))
            BY <3>1, Appended
        <3>3. QED
            BY <1>6, <3>1, <3>2 DEF Longer
    <2>2. SessionInv'
        BY <1>1, <1>2, <1>4, <2>1 DEF Rest, SessionInv
    <2>3. QueueInv'
        BY <1>1, <1>6, <2>1 DEF QueueInv
    <2>4. Rest'
        BY <1>3, <2>2, <2>3 DEF Rest
    <2>5. QED
        BY <1>1, <1>6, <2>1, <2>4, SentInv
<1>7. QED
    BY <1>5, <1>6 DEF LockAgent

\* The agent carries out the oldest request; the one a command still waits for is
\* the youngest.
LEMMA CarryOutInv ==
    ASSUME UnlockInv, CarryOut
    PROVE  UnlockInv'
<1>1. /\ queue # <<>> /\ agent' = [agent EXCEPT !.session = Head(queue)]
      /\ queue' = Tail(queue)
      /\ UNCHANGED <<disk, hint, account, remembered, reported>>
    BY DEF CarryOut
<1>2. Rest
    BY DEF UnlockInv, Rest
<1>3. /\ queue' \in Seq(ToSet(queue')) /\ Head(queue) = queue[1] /\ 1 \in DOMAIN queue
      /\ \A i \in DOMAIN queue' : \E j \in DOMAIN queue : queue'[i] = queue[j]
      /\ queue' = <<>> => queue[Len(queue)] = queue[1]
      /\ queue' # <<>> => queue'[Len(queue')] = queue[Len(queue)]
    <2>1. PICK q : q = queue /\ q \in Seq(ToSet(q)) /\ q # <<>>
        BY <1>1, <1>2 DEF Rest, QueueInv
    <2>2. Shorter(q, Tail(q))
        BY <2>1, Taken
    <2>3. QED
        BY <1>1, <2>1, <2>2 DEF Shorter
<1>4. PICK x : x = queue[1]
    OBVIOUS
<1>5. /\ agent # NoAgent /\ agent = [up |-> agent.up, session |-> agent.session]
      /\ x = NoSession \/ SessionOf(x)
      /\ reported = {}
    BY <1>1, <1>2, <1>3, <1>4 DEF Rest, QueueInv, SessionInv
<1>6. agent' = [up |-> agent.up, session |-> x] /\ agent' # NoAgent
    <2>1. PICK u, s : agent = [up |-> u, session |-> s] /\ u = agent.up
        BY <1>5
    <2>2. agent' = [up |-> u, session |-> x]
        BY <1>1, <1>3, <1>4, <2>1
    <2>3. "session" \in DOMAIN agent' /\ "session" \notin DOMAIN NoAgent
        BY <2>2 DEF NoAgent
    <2>4. QED
        BY <2>1, <2>2, <2>3
<1>7. \A y : SessionOf(y) => SessionOf(y)'
    BY <1>1, SessionStays
<1>8. SessionInv'
    BY <1>2, <1>3, <1>5, <1>6, <1>7 DEF Rest, SessionInv
<1>9. QueueInv'
    BY <1>1, <1>3, <1>5, <1>6 DEF QueueInv
<1>10. Rest'
    BY <1>1, <1>2, <1>8, <1>9 DEF Rest, FilesInv, RememberedInv
<1>11. CASE run.at = "wait" /\ queue' = <<>>
    <2>1. PICK more : Goto(run, "answered", more) /\ more = <<>>
        BY <1>11 DEF CarryOut
    <2>2. {"at", "inv", "tty", "confirm", "asked"} \subseteq DOMAIN run /\ run.asked = x
        BY <1>3, <1>4, <1>11, NotIdle DEF UnlockInv, RunInv, Waiting
    <2>3. DOMAIN more = {}
        BY <2>1
    <2>4. Gone(run, "answered", more)
        BY <2>1, <2>2, <2>3, GotoIs
    <2>5. /\ run'.at = "answered" /\ DOMAIN run' = DOMAIN run
          /\ \A f \in DOMAIN run : f # "at" => run'[f] = run[f]
        BY <2>2, <2>3, <2>4 DEF Gone
    <2>6. run'.asked = x /\ run'.inv = run.inv /\ agent'.session = x /\ agent'.up = agent.up
        BY <1>6, <2>2, <2>5
    <2>7. CASE x = NoSession
        BY <1>6, <1>11, <2>2, <2>5, <2>6, <2>7, <1>10
        DEF UnlockInv, Rest, RunInv, ChoiceInv, Holding, Waiting, Asking, Opening
    <2>8. CASE x # NoSession
        <3>1. /\ {"slot", "passphrase", "set", "kek", "alias"} \subseteq DOMAIN run
              /\ run.slot \in Slots /\ disk[run.slot] # NoFile /\ agent.up # "old"
              /\ OpenedAs(disk[run.slot], run.passphrase, run.set, run.kek)
              /\ x = Session(run)
            BY <1>11, <2>2, <2>8 DEF UnlockInv, RunInv, Holding, Waiting, OpenedAs
        <3>2. /\ run'.slot = run.slot /\ run'.passphrase = run.passphrase
              /\ run'.set = run.set /\ run'.kek = run.kek /\ run'.alias = run.alias
            BY <2>5, <3>1
        <3>3. x = Session(run)'
            BY <3>1, <3>2 DEF Session
        <3>4. RunInv'
            BY <1>1, <1>6, <1>11, <2>2, <2>5, <2>6, <3>1, <3>2, <3>3
            DEF RunInv, OpenedAs, Holding, Waiting, Asking, Opening
        <3>5. ChoiceInv'
            BY <1>1, <1>11, <2>2, <2>5, <2>6, <2>8, <3>2
            DEF UnlockInv, ChoiceInv, Holding, Waiting, Opening
        <3>6. QED
            BY <1>10, <3>4, <3>5 DEF UnlockInv, Rest
    <2>9. QED
        BY <2>7, <2>8
<1>12. CASE ~(run.at = "wait" /\ queue' = <<>>)
    <2>1. UNCHANGED run
        BY <1>12 DEF CarryOut
    <2>2. run.at # "answered"
        BY <1>1 DEF UnlockInv, RunInv
    <2>3. run.at = "wait" => queue' # <<>> /\ queue'[Len(queue')] = run.asked
        BY <1>3, <1>12 DEF UnlockInv, RunInv
    <2>4. agent'.up = agent.up
        BY <1>6
    <2>5. RunInv'
        BY <1>1, <1>6, <2>1, <2>2, <2>3, <2>4 DEF UnlockInv, RunInv, Holding, Session
    <2>6. ChoiceInv'
        BY <1>1, <2>1 DEF UnlockInv, ChoiceInv, Holding
    <2>7. QED
        BY <1>10, <2>5, <2>6 DEF UnlockInv, Rest
<1>13. QED
    BY <1>11, <1>12

\* The command is told, and the sidecar keeps the name it has taken.
LEMMA AnsweredInv ==
    ASSUME UnlockInv, Answered
    PROVE  UnlockInv'
<1>1. /\ run.at = "answered" /\ reported' = {Identity(run.asked)} /\ Exit("OK")
      /\ UNCHANGED <<disk, agent, queue, account>>
    BY DEF Answered
<1>2. queue = <<>> /\ agent # NoAgent /\ agent.session = run.asked
    BY <1>1 DEF UnlockInv, RunInv
<1>3. run.asked # NoSession => agent.up # "old"
    BY <1>1 DEF UnlockInv, RunInv, Waiting
<1>4. \A x : SessionOf(x) => SessionOf(x)'
    BY <1>1, SessionStays
<1>5. SessionInv'
    BY <1>1, <1>4 DEF UnlockInv, SessionInv
<1>6. Held' = Identity(run.asked)
    BY <1>1, <1>2 DEF Held
<1>7. QueueInv'
    BY <1>1, <1>2, <1>3, <1>6 DEF UnlockInv, QueueInv, Identity
<1>8. CASE run.asked = NoSession
    <2>1. UNCHANGED <<hint, remembered>>
        BY <1>8 DEF Answered
    <2>2. FilesInv' /\ RememberedInv'
        BY <1>1, <2>1 DEF UnlockInv, FilesInv, RememberedInv
    <2>3. QED
        BY <1>1, <1>5, <1>7, <2>2, RunEnds DEF UnlockInv
<1>9. CASE run.asked # NoSession
    <2>1. /\ hint' \in {hint, Hints(run)}
          /\ remembered' = IF run.slot # "local" THEN remembered
                           ELSE IF hint'.local = run.alias THEN run.alias ELSE None
        BY <1>9 DEF Answered, write_atomic
    <2>2. DOMAIN hint' = Slots /\ (run.slot # "local" => hint'.local = hint.local)
        BY <2>1 DEF Hints, UnlockInv, FilesInv, Slots
    <2>3. FilesInv'
        BY <1>1, <2>2 DEF UnlockInv, FilesInv
    <2>4. RememberedInv'
        <3>1. CASE run.slot = "local"
            <4>1. IsSealed(disk.local) /\ run.alias \in Named(disk.local.payload.set)
                BY <1>1, <1>9, <3>1, SentIsSession DEF Holding, Waiting
            <4>2. QED
                BY <1>1, <2>1, <3>1, <4>1 DEF RememberedInv
        <3>2. CASE run.slot # "local"
            BY <1>1, <2>1, <2>2, <3>2 DEF UnlockInv, RememberedInv
        <3>3. QED
            BY <3>1, <3>2
    <2>5. QED
        BY <1>1, <1>5, <1>7, <2>3, <2>4, RunEnds DEF UnlockInv
<1>10. QED
    BY <1>8, <1>9

\* The command gives up.
LEMMA TimedOutInv ==
    ASSUME UnlockInv, TimedOut
    PROVE  UnlockInv'
<1>1. Quiet /\ Exit("AGENT_UNREACHABLE")
    BY DEF TimedOut
<1>2. QED
    BY <1>1, RestStays, RunEnds DEF UnlockInv, Rest, Quiet

\* The steps before anything was read or taken.
LEMMA DialogueInv ==
    ASSUME UnlockInv, TypePassword \/ Login \/ TypeCode \/ RefuseWipe \/ ConfirmWipe
    PROVE  UnlockInv'
<1>1. Quiet /\ run # Idle
    <2>1. Quiet /\ run.at # "idle"
        BY DEF TypePassword, Login, TypeCode, RefuseWipe, ConfirmWipe
    <2>2. QED
        BY <2>1, NotIdle
<1>2. Rest'
    BY <1>1, RestStays DEF UnlockInv, Rest, Quiet
<1>3. CASE \E code : Exit(code)
    BY <1>2, <1>3, RunEnds DEF UnlockInv, Rest
<1>4. CASE \E at \in {"login", "list", "totp", "wipe"}, more \in {<<>>, [confirm |-> TRUE]} :
           Goto(run, at, more)
    <2>1. PICK at \in {"login", "list", "totp", "wipe"}, more \in {<<>>, [confirm |-> TRUE]} :
               Goto(run, at, more)
        BY <1>4
    <2>2. "at" \notin DOMAIN more /\ at \notin Elsewhere
        BY DEF Elsewhere, Asking, Opening, Waiting
    <2>3. RunInv' /\ ChoiceInv'
        BY <1>1, <2>1, <2>2, RunMoves DEF UnlockInv
    <2>4. QED
        BY <1>2, <2>3 DEF UnlockInv, Rest
<1>5. QED
    BY <1>3, <1>4 DEF TypePassword, Login, TypeCode, RefuseWipe, ConfirmWipe, login, login_totp

\* A name of the account is chosen.
LEMMA AccountInv ==
    ASSUME UnlockInv, ListAliases \/ PickBlob
    PROVE  UnlockInv'
<1>1. Quiet /\ run # Idle
    <2>1. Quiet /\ run.at # "idle"
        BY DEF ListAliases, PickBlob
    <2>2. QED
        BY <2>1, NotIdle
<1>2. Rest'
    BY <1>1, RestStays DEF UnlockInv, Rest, Quiet
<1>3. CASE \E code : Exit(code)
    BY <1>2, <1>3, RunEnds DEF UnlockInv, Rest
<1>4. CASE Goto(run, "account", <<>>)
    <2>1. "account" \notin Elsewhere /\ "at" \notin DOMAIN <<>>
        BY DEF Elsewhere, Asking, Opening, Waiting
    <2>2. RunInv' /\ ChoiceInv'
        BY <1>1, <1>4, <2>1, RunMoves DEF UnlockInv
    <2>3. QED
        BY <1>2, <2>2 DEF UnlockInv, Rest
<1>5. CASE \E a \in DOMAIN account : Goto(run, "fetch", [blob |-> a])
    <2>0. PICK a \in DOMAIN account : Goto(run, "fetch", [blob |-> a])
        BY <1>5
    <2>1. PICK more : Goto(run, "fetch", more) /\ more = [blob |-> a]
        BY <2>0
    <2>2. {"at", "inv", "tty", "confirm"} \subseteq DOMAIN run
        BY <1>1 DEF UnlockInv, RunInv
    <2>3. DOMAIN more = {"blob"} /\ "at" \notin DOMAIN more /\ "at" \in DOMAIN run
        BY <2>1, <2>2
    <2>4. Gone(run, "fetch", more)
        BY <2>1, <2>3, GotoIs
    <2>5. /\ run'.at = "fetch" /\ run'.blob = a
          /\ {"at", "inv", "tty", "confirm", "blob"} \subseteq DOMAIN run'
        BY <2>1, <2>2, <2>3, <2>4 DEF Gone
    <2>6. RunInv' /\ ChoiceInv'
        BY <1>1, <2>5 DEF RunInv, ChoiceInv, Asking, Opening, Waiting, Holding, Quiet
    <2>7. QED
        BY <1>2, <2>6 DEF UnlockInv, Rest
<1>6. QED
    BY <1>3, <1>4, <1>5 DEF ListAliases, PickBlob, list_profiles

\* The remote container is replaced by something else that is a file.
LEMMA FetchInv ==
    ASSUME UnlockInv, Fetch
    PROVE  UnlockInv'
<1>1. /\ run.at = "fetch" /\ run # Idle /\ run.blob \in DOMAIN account
      /\ {"at", "inv", "tty", "confirm"} \subseteq DOMAIN run
      /\ UNCHANGED <<hint, agent, queue, account, remembered, reported>>
    BY NotIdle DEF Fetch, UnlockInv, RunInv
<1>2. PICK blob : blob = account[run.blob]
    OBVIOUS
<1>3. IsFile(blob) /\ IsFile(Torn) /\ blob # NoFile
    BY <1>1, <1>2, Blobs, TornIsFile DEF UnlockInv, IsFile
<1>4. disk' \in {disk, [disk EXCEPT !.remote = blob], [disk EXCEPT !.remote = Torn]}
    BY <1>2 DEF Fetch, get_blob
<1>5. disk'.local = disk.local
    BY <1>4 DEF UnlockInv, FilesInv, Slots
<1>6. FilesInv'
    BY <1>1, <1>3, <1>4 DEF UnlockInv, FilesInv, Slots
<1>7. \A x : SessionOf(x) => SessionOf(x)'
    BY <1>5 DEF SessionOf
<1>8. SessionInv' /\ RememberedInv' /\ QueueInv'
    BY <1>1, <1>5, <1>7 DEF UnlockInv, SessionInv, RememberedInv, QueueInv, Held
<1>9. CASE \E code : Exit(code)
    BY <1>6, <1>8, <1>9, RunEnds DEF UnlockInv
<1>10. CASE /\ disk' = [disk EXCEPT !.remote = blob]
            /\ Goto(run, "ask", [slot |-> "remote", envelope |-> blob])
    <2>1. PICK more : Goto(run, "ask", more) /\ more = [slot |-> "remote", envelope |-> blob]
        BY <1>10
    <2>2. DOMAIN more = {"slot", "envelope"} /\ "at" \notin DOMAIN more /\ "at" \in DOMAIN run
        BY <1>1, <2>1
    <2>3. Gone(run, "ask", more)
        BY <2>1, <2>2, GotoIs
    <2>4. /\ run'.at = "ask" /\ run'.slot = "remote" /\ run'.envelope = blob
          /\ {"at", "inv", "tty", "confirm", "slot", "envelope"} \subseteq DOMAIN run'
        BY <1>1, <2>1, <2>2, <2>3 DEF Gone
    <2>5. disk'["remote"] = blob
        BY <1>10 DEF UnlockInv, FilesInv, Slots
    <2>6. RunInv' /\ ChoiceInv'
        BY <1>3, <2>4, <2>5 DEF RunInv, ChoiceInv, Asking, Opening, Waiting, Holding, Slots
    <2>7. QED
        BY <1>6, <1>8, <2>6 DEF UnlockInv
<1>11. QED
    BY <1>2, <1>9, <1>10 DEF Fetch, get_blob

\* zz w: nothing is left to be true of.
LEMMA WipeInv ==
    ASSUME UnlockInv, Wipe
    PROVE  UnlockInv'
<1>1. /\ disk' = [s \in Slots |-> NoFile] /\ agent' = NoAgent /\ remembered' = None
      /\ queue' = <<>> /\ reported' = {}
      /\ \E code : Exit(code)
      /\ UNCHANGED <<hint, account>>
    BY DEF Wipe
<1>2. FilesInv' /\ SessionInv' /\ RememberedInv' /\ QueueInv'
    BY <1>1 DEF UnlockInv, FilesInv, SessionInv, RememberedInv, QueueInv, Held, ToSet
<1>3. QED
    BY <1>1, <1>2, RunEnds DEF UnlockInv

\* A command starts.
LEMMA StartInv ==
    ASSUME UnlockInv, NEW c, Start(c)
    PROVE  UnlockInv'
<1>1. Quiet
    BY DEF Start
<1>2. Rest'
    BY <1>1, RestStays DEF UnlockInv, Rest, Quiet
<1>3. PICK r, inv : /\ inv = Invocation(c.argv, c.env)
                    /\ r = [at |-> "start", inv |-> inv, tty |-> c.tty,
                            confirm |-> c.env.ZZ_DROP_CONFIRM_WIPE]
    OBVIOUS
<1>4. DOMAIN r = {"at", "inv", "tty", "confirm"}
    BY <1>3
<1>5. \/ Enter(r, Source(inv))
      \/ EnterRemote(r, c.env)
      \/ \E at \in {"lock", "wipe"} : Goto(r, at, <<>>)
      \/ \E code : Exit(code)
    BY <1>3 DEF Start
<1>6. \/ \E code : Exit(code)
      \/ \E at \in {"lock", "wipe", "password"} :
            \E more : "at" \notin DOMAIN more /\ Goto(r, at, more)
      \/ \E slot \in Slots : Has(slot) /\ Goto(r, "ask", [slot |-> slot, envelope |-> disk[slot]])
    <2>1. CASE Enter(r, Source(inv))
        BY <2>1 DEF Enter
    <2>2. CASE EnterRemote(r, c.env)
        <3>1. "at" \notin DOMAIN [email |-> r.inv.email]
            OBVIOUS
        <3>2. QED
            BY <2>2, <3>1 DEF EnterRemote
    <2>3. CASE \E at \in {"lock", "wipe"} : Goto(r, at, <<>>)
        <3>1. "at" \notin DOMAIN <<>>
            OBVIOUS
        <3>2. QED
            BY <2>3, <3>1
    <2>4. QED
        BY <1>5, <2>1, <2>2, <2>3
<1>7. CASE \E code : Exit(code)
    BY <1>2, <1>7, RunEnds DEF UnlockInv, Rest
<1>8. CASE \E at \in {"lock", "wipe", "password"} :
              \E more : "at" \notin DOMAIN more /\ Goto(r, at, more)
    <2>0. PICK at \in {"lock", "wipe", "password"} :
              \E more : "at" \notin DOMAIN more /\ Goto(r, at, more)
        BY <1>8
    <2>1. PICK more : "at" \notin DOMAIN more /\ Goto(r, at, more)
        BY <2>0
    <2>2. Gone(r, at, more)
        BY <1>4, <2>1, GotoIs
    <2>3. /\ {"at", "inv", "tty", "confirm"} \subseteq DOMAIN run'
          /\ run'.at = at /\ at \notin Elsewhere
        BY <1>4, <2>2 DEF Gone, Elsewhere, Asking, Opening, Waiting
    <2>4. RunInv' /\ ChoiceInv'
        BY <2>3, RunGoes
    <2>5. QED
        BY <1>2, <2>4 DEF UnlockInv, Rest
<1>9. CASE \E slot \in Slots : Has(slot) /\ Goto(r, "ask", [slot |-> slot, envelope |-> disk[slot]])
    <2>0. PICK slot \in Slots :
              Has(slot) /\ Goto(r, "ask", [slot |-> slot, envelope |-> disk[slot]])
        BY <1>9
    <2>1. PICK more : Goto(r, "ask", more) /\ more = [slot |-> slot, envelope |-> disk[slot]]
        BY <2>0
    <2>2. DOMAIN more = {"slot", "envelope"} /\ "at" \notin DOMAIN more /\ "at" \in DOMAIN r
        BY <1>4, <2>1
    <2>3. Gone(r, "ask", more)
        BY <2>1, <2>2, GotoIs
    <2>4. /\ run'.at = "ask" /\ run'.slot = slot /\ run'.envelope = disk[slot]
          /\ {"at", "inv", "tty", "confirm", "slot", "envelope"} \subseteq DOMAIN run'
        BY <1>4, <2>1, <2>2, <2>3 DEF Gone
    <2>5. disk' = disk /\ disk[slot] # NoFile
        BY <1>1, <2>0 DEF Quiet, Has
    <2>6. RunInv' /\ ChoiceInv'
        BY <2>4, <2>5 DEF RunInv, ChoiceInv, Asking, Opening, Waiting, Holding
    <2>7. QED
        BY <1>2, <2>6 DEF UnlockInv, Rest
<1>10. QED
    BY <1>6, <1>7, <1>8, <1>9

\* A session that comes from no file any more need not agree with one.
LEMMA Outdates ==
    ASSUME NEW x, SessionOf(x)
    PROVE  SessionOf(Outdated(x))'
<1>1. PICK s, k, a, l : /\ x = [set |-> s, kek |-> k, active |-> a, slot |-> l]
                        /\ x.set = s /\ x.kek = k /\ x.slot = l /\ l \in Slots \cup {"gone"}
                        /\ Loaded(s) /\ Named(s) \cap Mark = {} /\ IsKek(k)
    BY DEF SessionOf
<1>2. PICK y : y = Outdated(x)
    OBVIOUS
<1>3. CASE l = "local"
    <2>1. y = [set |-> s, kek |-> k, active |-> a, slot |-> "gone"]
        BY <1>1, <1>2, <1>3 DEF Outdated
    <2>2. SessionOf(y)'
        BY <1>1, <2>1 DEF SessionOf
    <2>3. QED
        BY <1>2, <2>2
<1>4. CASE l # "local"
    <2>1. y = x
        BY <1>1, <1>2, <1>4 DEF Outdated
    <2>2. SessionOf(y)'
        BY <1>1, <1>4, <2>1 DEF SessionOf
    <2>3. QED
        BY <1>2, <2>2
<1>5. QED
    BY <1>3, <1>4

\* The agent saves what it has refreshed: the same names, foreign entries and
\* passphrase as the file it was opened from.
LEMMA SavesInv ==
    ASSUME UnlockInv, AgentSaves
    PROVE  /\ UnlockInv'
           /\ \/ disk' = disk
              \/ \E g : /\ disk' = [disk EXCEPT !.local = g]
                        /\ agent.session.slot = "local" =>
                              IsSealed(disk.local) /\ Replaces(disk.local, g)
<1>1. PICK x : x = agent.session
    OBVIOUS
<1>2. agent = [up |-> agent.up, session |-> x] /\ SessionOf(x)
    BY <1>1 DEF AgentSaves, UnlockInv, SessionInv
<1>3. /\ x = [set |-> x.set, kek |-> x.kek, active |-> x.active, slot |-> x.slot]
      /\ x.slot \in Slots \cup {"gone"}
      /\ Loaded(x.set) /\ Named(x.set) \cap Mark = {} /\ IsKek(x.kek)
    BY <1>2 DEF SessionOf
<1>4. PICK fresh, set : /\ set = Refreshed(x, fresh)
                        /\ agent' = [agent EXCEPT !.session.set = set]
                        /\ disk' \in {disk, [disk EXCEPT !.local =
                                                  encrypt_set_with_kek(set, x.kek).envelope]}
    BY <1>1 DEF AgentSaves
<1>5. /\ UNCHANGED <<hint, account, run, last, reported>>
      /\ remembered' = IF x.slot = "local" THEN remembered ELSE None
      /\ queue' = IF x.slot = "local" \/ disk' = disk THEN queue
                  ELSE [i \in DOMAIN queue |-> Outdated(queue[i])]
    BY <1>1 DEF AgentSaves
<1>6. PICK g : g = encrypt_set_with_kek(set, x.kek).envelope
    OBVIOUS
<1>7. Loaded(set) /\ Aliases(set) = Aliases(x.set) /\ Carried(set) = Carried(x.set)
    BY <1>3, <1>4, Refreshes
<1>8. Named(set) = Named(x.set)
    BY <1>7 DEF Named
<1>9. SavedAs(set, x.kek, g)
    BY <1>3, <1>6, <1>7, <1>8, Seals
<1>10. /\ IsSealed(g) /\ g.key = x.kek
       /\ Aliases(g.payload.set) = Aliases(x.set)
       /\ Foreign(g) = Carried(x.set)
       /\ decrypt_set(g, g.key.passphrase).ok
    BY <1>7, <1>9 DEF SavedAs, Foreign, Unknown
<1>11. disk' = disk \/ disk' = [disk EXCEPT !.local = g]
    BY <1>4, <1>6
<1>12. PICK y : y = [set |-> set, kek |-> x.kek, active |-> x.active, slot |-> x.slot]
    OBVIOUS
<1>13. agent' = [up |-> agent.up, session |-> y]
    <2>1. PICK u, s, k, a, l : /\ agent = [up |-> u, session |-> x]
                               /\ x = [set |-> s, kek |-> k, active |-> a, slot |-> l]
                               /\ u = agent.up /\ k = x.kek /\ a = x.active /\ l = x.slot
        BY <1>2, <1>3
    <2>2. agent' = [agent EXCEPT !.session = [agent.session EXCEPT !.set = set]]
        BY <1>4
    <2>3. [agent.session EXCEPT !.set = set] = y
        BY <1>1, <1>12, <2>1
    <2>4. QED
        BY <2>1, <2>2, <2>3
<1>14. /\ y.set = set /\ y.kek = x.kek /\ y.slot = x.slot
       /\ y = [set |-> y.set, kek |-> y.kek, active |-> y.active, slot |-> y.slot]
    BY <1>12
<1>15. IsFile(g) /\ DOMAIN disk = Slots
    BY <1>10 DEF IsSealed, UnlockInv, FilesInv
<1>16. disk'.local \in {disk.local, g} /\ disk'.remote = disk.remote /\ DOMAIN disk' = Slots
    BY <1>11, <1>15 DEF Slots
<1>17. x.slot = "local" =>
          /\ IsSealed(disk.local)
          /\ Named(x.set) = Named(disk.local.payload.set)
          /\ Carried(x.set) = Foreign(disk.local)
          /\ x.kek.passphrase = disk.local.key.passphrase
    BY <1>2 DEF SessionOf
<1>18. FilesInv'
    BY <1>5, <1>15, <1>16 DEF UnlockInv, FilesInv, Slots
<1>19. Named(g.payload.set) = Named(x.set)
    BY <1>10 DEF Named
<1>20. SessionOf(y)'
    BY <1>3, <1>7, <1>8, <1>10, <1>14, <1>16, <1>17, <1>19 DEF SessionOf
<1>21. SessionInv'
    <2>1. ASSUME NEW i \in DOMAIN queue'
          PROVE  (queue[i] = NoSession \/ SessionOf(queue[i]))'
        <3>1. i \in DOMAIN queue /\ queue'[i] \in {queue[i], Outdated(queue[i])}
            BY <1>5, <2>1
        <3>2. queue[i] = NoSession \/ SessionOf(queue[i])
            BY <3>1 DEF UnlockInv, SessionInv
        <3>3. CASE queue[i] = NoSession
            BY <3>1, <3>3 DEF Outdated, NoSession
        <3>4. CASE disk' = disk
            BY <1>5, <3>2, <3>4, SessionStays
        <3>5. CASE x.slot = "local" /\ SessionOf(queue[i])
            <4>1. queue'[i] = queue[i]
                BY <1>5, <3>1, <3>5
            <4>2. IsSealed(g) /\ Named(g.payload.set) = Named(disk.local.payload.set)
                  /\ Foreign(g) = Foreign(disk.local)
                  /\ g.key.passphrase = disk.local.key.passphrase
                BY <1>10, <1>17, <3>5 DEF Named
            <4>3. QED
                BY <1>16, <3>5, <4>1, <4>2 DEF SessionOf
        <3>6. CASE x.slot # "local" /\ disk' # disk /\ SessionOf(queue[i])
            <4>1. PICK z : z = queue[i]
                OBVIOUS
            <4>2. queue'[i] = Outdated(z) /\ SessionOf(z)
                BY <1>5, <3>1, <3>6, <4>1
            <4>3. SessionOf(Outdated(z))'
                BY <4>2, Outdates
            <4>4. PICK y2 : y2 = Outdated(z)
                OBVIOUS
            <4>5. SessionOf(y2)'
                BY <4>3, <4>4
            <4>6. QED
                BY <4>2, <4>4, <4>5 DEF SessionOf
        <3>7. QED
            BY <3>2, <3>3, <3>4, <3>5, <3>6
    <2>2. QED
        BY <1>13, <1>20, <2>1 DEF SessionInv
<1>22. RememberedInv'
    BY <1>5, <1>10, <1>16, <1>17, <1>19 DEF UnlockInv, RememberedInv
<1>23. RunInv' /\ ChoiceInv'
    <2>1. run' = Idle
        BY <1>5 DEF AgentSaves
    <2>2. QED
        BY <2>1, AtIdle, RunGoes
<1>24. x.slot = "local" => Replaces(disk.local, g)
    BY <1>10, <1>17, <1>19 DEF Replaces
<1>25. QueueInv'
    <2>1. QueueInv
        BY DEF UnlockInv
    <2>2. queue' \in Seq(ToSet(queue')) /\ (queue = <<>> => queue' = <<>>)
        <3>1. CASE queue' = queue
            BY <2>1, <3>1 DEF QueueInv
        <3>2. CASE queue' = [i \in DOMAIN queue |-> Outdated(queue[i])]
            <4>1. PICK n \in Nat : DOMAIN queue = 1..n /\ n = Len(queue)
                BY <2>1 DEF QueueInv
            <4>2. queue' = [i \in 1..n |-> queue'[i]]
                BY <3>2, <4>1
            <4>3. queue' \in Seq(ToSet(queue'))
                BY <4>2, Listed
            <4>4. queue = <<>> => n = 0
                BY <4>1
            <4>5. n = 0 => queue' = <<>>
                BY <4>2, <4>3
            <4>6. QED
                BY <4>3, <4>4, <4>5
        <3>3. QED
            BY <1>5, <3>1, <3>2
    <2>3. agent # NoAgent /\ agent' # NoAgent /\ agent'.up = agent.up
        <3>1. agent # NoAgent
            BY DEF AgentSaves
        <3>2. "session" \in DOMAIN agent' /\ "session" \notin DOMAIN NoAgent
            BY <1>13 DEF NoAgent
        <3>3. QED
            BY <1>13, <3>1, <3>2
    <2>4. PICK w : w = agent.up
        OBVIOUS
    <2>5. Held' = Held
        <3>1. agent.session # NoSession /\ agent.session = x
            BY <1>1 DEF AgentSaves
        <3>2. agent'.session = y /\ y.kek = x.kek /\ y.active = x.active
            BY <1>12, <1>13
        <3>3. Identity(x) = [kek |-> x.kek, active |-> x.active]
            BY <3>1 DEF Identity
        <3>4. Identity(y) = [kek |-> x.kek, active |-> x.active]
            <4>1. y # NoSession
                BY <1>3, <1>14 DEF NoSession, Slots
            <4>2. QED
                BY <3>2, <4>1 DEF Identity
        <3>5. QED
            BY <2>3, <3>1, <3>2, <3>3, <3>4 DEF Held
    <2>6. QED
        BY <1>5, <2>1, <2>2, <2>3, <2>5 DEF QueueInv
<1>26. QED
    BY <1>1, <1>11, <1>17, <1>18, <1>21, <1>22, <1>23, <1>24, <1>25 DEF UnlockInv

\* The agent changes between commands.
LEMMA AgentChangesInv ==
    ASSUME UnlockInv, AgentChanges
    PROVE  UnlockInv'
<1>1. /\ agent # NoAgent
      /\ agent' \in {NoAgent, [agent EXCEPT !.session = NoSession], [agent EXCEPT !.up = "old"]}
      /\ queue' = IF agent' = NoAgent THEN <<>> ELSE queue
      /\ reported' = {} /\ run' = Idle
      /\ UNCHANGED <<disk, hint, account, remembered>>
    BY DEF AgentChanges
<1>2. Rest'
    <2>1. FilesInv' /\ SessionInv' /\ RememberedInv'
        BY <1>1, AgentLess DEF UnlockInv, Rest
    <2>2. QueueInv'
        BY <1>1 DEF UnlockInv, QueueInv, ToSet
    <2>3. QED
        BY <2>1, <2>2 DEF Rest
<1>3. RunInv' /\ ChoiceInv'
    BY <1>1, AtIdle, RunGoes
<1>4. QED
    BY <1>2, <1>3 DEF UnlockInv, Rest

\* A sidecar no longer validates: nothing is remembered.
LEMMA HintLostInv ==
    ASSUME UnlockInv, HintLost
    PROVE  UnlockInv'
<1>1. PICK s \in Slots : /\ hint' = [hint EXCEPT ![s] = Bad]
                         /\ remembered' = IF s = "local" THEN None ELSE remembered
    BY DEF HintLost
<1>2. run' = Idle /\ UNCHANGED <<disk, agent, queue, account, reported>>
    BY DEF HintLost
<1>3. DOMAIN hint' = Slots /\ (s # "local" => hint'.local = hint.local)
    BY <1>1 DEF UnlockInv, FilesInv, Slots
<1>4. FilesInv'
    BY <1>2, <1>3 DEF UnlockInv, FilesInv
<1>5. \A x : SessionOf(x) => SessionOf(x)'
    BY <1>2 DEF SessionOf
<1>6. SessionInv'
    BY <1>2, <1>5 DEF UnlockInv, SessionInv
<1>7. RememberedInv'
    BY <1>1, <1>2, <1>3 DEF UnlockInv, RememberedInv
<1>8. RunInv' /\ ChoiceInv'
    BY <1>2, AtIdle, RunGoes
<1>9. QueueInv'
    BY <1>2 DEF UnlockInv, QueueInv, Held
<1>10. QED
    BY <1>4, <1>6, <1>7, <1>8, <1>9 DEF UnlockInv

\* Every step keeps the invariant.
LEMMA UnlockStays == UnlockInv /\ [Next]_vars => UnlockInv'
<1> SUFFICES ASSUME UnlockInv, [Next]_vars PROVE UnlockInv'
    OBVIOUS
<1>1. CASE UNCHANGED vars
    <2>1. UNCHANGED <<disk, hint, agent, queue, account, run, remembered, reported>>
        BY <1>1 DEF vars
    <2>2. Rest'
        BY <2>1, RestStays DEF UnlockInv, Rest
    <2>3. RunInv' /\ ChoiceInv'
        BY <2>1 DEF UnlockInv, RunInv, ChoiceInv, Holding, Session
    <2>4. QED
        BY <2>2, <2>3 DEF UnlockInv, Rest
<1>2. CASE Program
    BY <1>2, AskingInv, OpenInv, HandOverInv, CannotHandOverInv, LockInv, AnsweredInv,
       TimedOutInv, DialogueInv, AccountInv, FetchInv, WipeInv DEF Program
<1>3. CASE Operator
    BY <1>3, AskingInv, PickInv, DialogueInv, AccountInv DEF Operator
<1>4. CASE \E c \in Commands : Start(c)
    BY <1>4, StartInv
<1>5. CASE AgentSaves \/ AgentChanges \/ HintLost
    BY <1>5, SavesInv, AgentChangesInv, HintLostInv
<1>6. CASE CarryOut
    BY <1>6, CarryOutInv
<1>7. QED
    BY <1>1, <1>2, <1>3, <1>4, <1>5, <1>6 DEF Next

-------------------------------------------------------------------------------
(***************************************************************************)
(* What is handed over, rewritten, remembered and left alone.              *)
(***************************************************************************)

\* Only an answer ends a command that is answered.
LEMMA OnlyAnswered ==
    ASSUME [Next]_vars, Done("OK"), run.at = "answered"
    PROVE  Answered
<1>1. Program \/ Operator \/ CarryOut
    BY DEF Next, vars, Start, AgentSaves, AgentChanges, HintLost, Done
<1>2. ~CarryOut
    BY DEF CarryOut, Done
<1>3. QED
    BY <1>1, <1>2 DEF Done, Exit, Program, Operator, TakePassphrase, Open, HandOver,
       CannotHandOver, TimedOut, Login, ListAliases, Fetch, LockAgent, RefuseWipe, Wipe,
       TypePassword, TypeCode, PickBlob, TypePassphrase, Pick, ConfirmWipe

\* The agent has the key and the set of the file as it is on disk.
THEOREM OpenKeyIsHanded == Spec => HandedKeyOpens
<1>1. UnlockInv /\ [Next]_vars =>
        (Done("OK") /\ run.at = "answered" /\ run.asked # NoSession =>
          LET session == agent'.session
              again   == decrypt_set(disk'[session.slot], run.passphrase)
          IN  again.ok /\ again.kek = session.kek /\ again.set = session.set)
    <2>1. SUFFICES ASSUME UnlockInv, [Next]_vars, Done("OK"), run.at = "answered",
                          run.asked # NoSession
                   PROVE  LET session == agent'.session
                              again   == decrypt_set(disk'[session.slot], run.passphrase)
                          IN  again.ok /\ again.kek = session.kek /\ again.set = session.set
        OBVIOUS
    <2>2. agent' = agent /\ disk' = disk
        BY <2>1, OnlyAnswered DEF Answered
    <2>3. agent.session = Session(run)
        BY <2>1 DEF UnlockInv, RunInv, Waiting
    <2>4. /\ agent'.session.slot = run.slot /\ agent'.session.set = run.set
          /\ agent'.session.kek = run.kek
        BY <2>2, <2>3 DEF Session
    <2>5. /\ decrypt_set(disk[run.slot], run.passphrase).ok
          /\ decrypt_set(disk[run.slot], run.passphrase).kek = run.kek
          /\ decrypt_set(disk[run.slot], run.passphrase).set = run.set
        BY <2>1 DEF UnlockInv, RunInv, Holding, Waiting
    <2>6. QED
        BY <2>2, <2>4, <2>5
<1>2. QED
    BY <1>1, InitUnlock, UnlockStays, PTL DEF Spec, HandedKeyOpens

\* The container is written by a rotation or by the agent, and keeps what it must.
Rewrites(s) ==
    /\ disk'[s] \notin {NoFile, disk[s]}
    /\ \/ run.at = "open"
       \/ run = Idle /\ agent.session.slot = s

KeepsEntries(s) ==
    /\ disk[s] # NoFile
    /\ Foreign(disk[s]) = Foreign(disk'[s])
    /\ disk'[s].key.passphrase = disk[s].key.passphrase
    /\ decrypt_set(disk'[s], disk'[s].key.passphrase).ok

\* Every entry of a newer build survives, and the passphrase still opens it.
THEOREM EntriesSurvive == Spec => RewriteKeepsEntries
<1>1. ASSUME UnlockInv, [Next]_vars, NEW s \in Slots, Rewrites(s)
      PROVE  KeepsEntries(s)
    <2>1. /\ disk' # disk /\ disk'[s] # disk[s]
          /\ run.at = "open" \/ (run = Idle /\ agent.session.slot = s)
        <3>1. disk'[s] \notin {NoFile, disk[s]}
            BY <1>1 DEF Rewrites
        <3>2. disk'[s] # disk[s]
            BY <3>1
        <3>3. run.at = "open" \/ (run = Idle /\ agent.session.slot = s)
            BY <1>1 DEF Rewrites
        <3>4. QED
            BY <3>2, <3>3
    <2>2. DOMAIN disk = Slots
        BY <1>1 DEF UnlockInv, FilesInv
    <2>3. CASE run.at = "open"
        <3>1. Open
            BY <1>1, <2>1, <2>3, AtIdle
            DEF Next, Program, Operator, vars, TakePassphrase, TypePassphrase, Pick, HandOver,
                CannotHandOver, Answered, TimedOut, CarryOut, Quiet, TypePassword, Login, TypeCode, ListAliases, PickBlob, Fetch,
                LockAgent, RefuseWipe, ConfirmWipe, Wipe, Start, AgentSaves, AgentChanges,
                HintLost
        <3>2. run.slot \in Slots /\ disk[run.slot] # NoFile
            BY <1>1, <2>3 DEF UnlockInv, RunInv, Asking
        <3>3. PICK g : disk' = [disk EXCEPT ![run.slot] = g] /\ Replaces(disk[run.slot], g)
            BY <1>1, <2>1, <3>1, OpenInv
        <3>4. s = run.slot /\ disk'[s] = g
            BY <2>1, <2>2, <3>2, <3>3
        <3>5. QED
            BY <3>2, <3>3, <3>4 DEF Replaces, KeepsEntries
    <2>4. CASE run = Idle /\ agent.session.slot = s
        <3>1. AgentSaves
            BY <1>1, <2>1, <2>4, AtIdle
            DEF Next, Program, Operator, vars, TakePassphrase, TypePassphrase, Open, Pick,
                HandOver, CannotHandOver, Answered, TimedOut, CarryOut, TypePassword, Login,
                TypeCode, ListAliases, PickBlob, Fetch, LockAgent, RefuseWipe, ConfirmWipe, Wipe, Start, Quiet, AgentChanges,
                HintLost
        <3>2. PICK g : /\ disk' = [disk EXCEPT !.local = g]
                       /\ agent.session.slot = "local" =>
                              IsSealed(disk.local) /\ Replaces(disk.local, g)
            BY <1>1, <2>1, <3>1, SavesInv
        <3>3. s = "local" /\ disk'[s] = g
            BY <1>1, <2>1, <2>2, <3>2 DEF Slots
        <3>4. Replaces(disk.local, g) /\ IsSealed(disk.local)
            BY <2>4, <3>2, <3>3
        <3>5. disk.local # NoFile
            BY <3>4 DEF IsSealed, IsFile
        <3>6. QED
            BY <3>3, <3>4, <3>5 DEF Replaces, KeepsEntries
    <2>5. QED
        BY <2>1, <2>3, <2>4
<1>2. UnlockInv /\ [Next]_vars => \A s \in Slots : Rewrites(s) => KeepsEntries(s)
    BY <1>1
<1>3. RewriteKeepsEntries <=> [][\A s \in Slots : Rewrites(s) => KeepsEntries(s)]_vars
    BY DEF RewriteKeepsEntries, Rewrites, KeepsEntries
<1>4. QED
    BY <1>2, <1>3, InitUnlock, UnlockStays, PTL DEF Spec

\* A script without an alias gets the profile of last time.
THEOREM RememberedIsTaken == Spec => SameAgain
<1>1. UnlockInv /\ [Next]_vars =>
        (/\ Done("OK") /\ run.at = "answered" /\ run.asked # NoSession /\ run.slot = "local"
         /\ scriptable(run.inv) /\ run.inv.flags.alias = None
         /\ remembered # None
         => agent'.session.active = remembered)
    <2>1. SUFFICES ASSUME UnlockInv, [Next]_vars, Done("OK"), run.at = "answered",
                          run.asked # NoSession, run.slot = "local", scriptable(run.inv),
                          run.inv.flags.alias = None, remembered # None
                   PROVE  agent'.session.active = remembered
        OBVIOUS
    <2>2. agent' = agent
        BY <2>1, OnlyAnswered DEF Answered
    <2>3. agent.session = Session(run)
        BY <2>1 DEF UnlockInv, RunInv, Waiting
    <2>4. run.alias = remembered
        BY <2>1 DEF UnlockInv, ChoiceInv, Holding, Waiting
    <2>5. QED
        BY <2>2, <2>3, <2>4 DEF Session
<1>2. QED
    BY <1>1, InitUnlock, UnlockStays, PTL DEF Spec, SameAgain

\* What was reported is what the agent holds, whatever waits for it.
THEOREM ReportsHold == Spec => []ReportedHolds
<1>1. UnlockInv => ReportedHolds
    BY DEF UnlockInv, QueueInv, ReportedHolds
<1>2. QED
    BY <1>1, InitUnlock, UnlockStays, PTL DEF Spec
===============================================================================
