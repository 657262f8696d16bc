----------------------------- MODULE MCAgentServer -----------------------------
(* Small instances of AgentServer for TLC: one container with one profile. *)
EXTENDS AgentServer

JustRoot == {<<>>}
OneKey == [prefix |-> <<>>, kind |-> "Both"]
OneSet == CHOOSE s \in ProfileSet : TRUE
SomeAlias == CHOOSE a \in Alias : TRUE
SomeKek == CHOOSE k \in Kek : TRUE

UnlockRequest ==
    [op |-> "Unlock", set |-> OneSet, kek |-> SomeKek, alias |-> SomeAlias, ttl |-> None]

\* the requests of zz z, zz q, the TUI and of a client of another version
ControlOps ==
    {UnlockRequest, Garbled}
        \union [op : {"Lock", "Exit"}]
        \union [op : {"UpdateProfileSet"}, set : ProfileSet]
        \union [op : {"SetActiveAlias"}, alias : Alias]

\* the requests of transfers, completion and zz status
DataOps ==
    [op : {"GetProfile", "Ping", "Status"}]
        \union [op : {"UpdateProfile"}, alias : Alias, profile : Profile]
        \union [op : {"ListRemote"}, key : Key]
        \union [op : {"InvalidateRemote"}, prefix : Prefix]

Controller == CHOOSE c \in Client : TRUE

\* every kind of request, one connection of each sort
AllOps == [c \in Client |-> IF c = Controller THEN ControlOps ELSE DataOps]
===============================================================================
