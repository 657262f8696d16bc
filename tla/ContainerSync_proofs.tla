------------------------- MODULE ContainerSync_proofs --------------------------
(***************************************************************************)
(* A transfer pushes its token into the set it read, and the agent's RAM   *)
(* follows the file, for any profiles and any number of processes.         *)
(*                                                                         *)
(* For the first: the connection of a transfer that works is the one the   *)
(* agent serves, and what the agent holds is still what it handed out.     *)
(* It is kept because the agent changes its RAM for somebody else, or      *)
(* locks, only between two connections.  For the second: while the two     *)
(* differ, somebody is about to tell the agent, or already waits for it.   *)
(*                                                                         *)
(* Last, one write of the container: AtomicReplace implements              *)
(* ReplacedFile.  As long as replacements do not overlap, only one is      *)
(* under way, the temporary name is the inode it has open and not the      *)
(* container, and that inode is empty until it was written and the         *)
(* writer's from then on.  And nobody has the container itself open, once  *)
(* its last replacement has met no other.                                  *)
(***************************************************************************)
EXTENDS ContainerSync, AtomicReplace, TLAPS

Shape ==
    /\ DOMAIN pc = Process
    /\ DOMAIN copy = Process
    /\ DOMAIN using = Transfer

Works(t) == pc[t] = "working"

HeldWhileWorking ==
    \A t \in Transfer : Works(t) =>
        /\ serving = t
        /\ ram = copy[t]
        /\ Takes(t)

Inv == Shape /\ HeldWhileWorking

-------------------------------------------------------------------------------
LEMMA InitInv == Init => Inv
BY DEF Init, Inv, Shape, HeldWhileWorking, Works, Process

\* A step of one process that leaves the agent alone, and writes nobody else's
\* copy, disturbs no transfer unless it makes one work.
LEMMA OneMoves ==
    ASSUME Inv, NEW p \in Process, NEW next,
           pc' = [pc EXCEPT ![p] = next], next # "working",
           UNCHANGED <<ram, serving, using>>,
           UNCHANGED copy \/ (p \notin Transfer /\ \E s : copy' = [copy EXCEPT ![p] = s])
    PROVE  Inv'
<1>1. Shape'
    BY DEF Inv, Shape
<1>2. ASSUME NEW t \in Transfer, Works(t)'
      PROVE  Works(t) /\ copy'[t] = copy[t]
    <2>1. t \in Process /\ t # p
        BY <1>2 DEF Process, Works, Inv, Shape
    <2>2. QED
        BY <1>2, <2>1 DEF Works, Inv, Shape
<1>3. HeldWhileWorking'
    BY <1>2 DEF Inv, HeldWhileWorking, Takes
<1>4. QED
    BY <1>1, <1>3 DEF Inv

\* Between two connections no transfer works, and what the agent does with its
\* RAM then, without taking up a transfer, disturbs nobody.
LEMMA AgentMoves ==
    ASSUME Inv, serving = None, UNCHANGED <<serving, copy, using>>, DOMAIN pc' = Process,
           \A t \in Transfer : Works(t)' => Works(t)
    PROVE  Inv'
<1>1. \A t \in Transfer : ~Works(t)
    BY SyncAssumption DEF Inv, HeldWhileWorking
<1>2. QED
    BY <1>1 DEF Inv, Shape, HeldWhileWorking

LEMMA CloseKeeps ==
    ASSUME Inv, NEW p, Close(p)
    PROVE  DOMAIN pc' = Process /\ \A t \in Transfer : Works(t)' => Works(t)
BY DEF Inv, Shape, Close, Open, Works, Process

\* The end of a transfer frees the agent.
LEMMA FinishInv ==
    ASSUME Inv, NEW t \in Transfer, Works(t), Step(t, "working", "done"),
           UNCHANGED <<copy, using>>
    PROVE  Inv'
<1>1. \A u \in Transfer : Works(u) => u = t
    BY DEF Inv, HeldWhileWorking
<1>2. \A u \in Transfer : ~Works(u)'
    BY <1>1 DEF Step, Works, Inv, Shape, Process
<1>3. QED
    BY <1>2 DEF Inv, Shape, HeldWhileWorking, Step

LEMMA GetProfileInv ==
    ASSUME Inv, ServeGetProfile
    PROVE  Inv'
<1> DEFINE t == Next1.by
<1>1. serving = None
    BY DEF ServeGetProfile, MyTurn
<1>2. \A u \in Transfer : ~Works(u)
    BY <1>1, SyncAssumption DEF Inv, HeldWhileWorking
<1>3. CASE /\ ram # None /\ Open(t)
           /\ \E a \in DOMAIN ram : using' = [using EXCEPT ![t] = a]
           /\ copy' = [copy EXCEPT ![t] = ram]
           /\ serving' = t
           /\ pc' = [pc EXCEPT ![t] = "working"]
    <2>1. Shape'
        BY <1>3 DEF Inv, Shape
    <2>2. ASSUME NEW u \in Transfer, Works(u)'
          PROVE  serving' = u /\ ram' = copy'[u] /\ Takes(u)'
        <3>1. u = t /\ u \in Process
            BY <1>2, <1>3, <2>2 DEF Works, Inv, Shape, Process
        <3>2. ram' = ram
            BY DEF ServeGetProfile
        <3>3. QED
            BY <1>3, <3>1, <3>2 DEF Inv, Shape, Takes
    <2>3. QED
        BY <2>1, <2>2 DEF Inv, HeldWhileWorking
<1>4. CASE Close(t) /\ UNCHANGED <<using, copy, serving>>
    BY <1>1, <1>4, CloseKeeps, AgentMoves
<1>5. QED
    BY <1>3, <1>4 DEF ServeGetProfile

-------------------------------------------------------------------------------
LEMMA NextInv == Inv /\ [Next]_vars => Inv'
<1> SUFFICES ASSUME Inv, [Next]_vars PROVE Inv'
    OBVIOUS
<1> USE DEF Process
<1>1. CASE UNCHANGED vars
    BY <1>1 DEF vars, Inv, Shape, HeldWhileWorking, Works, Takes
<1>2. ASSUME NEW t \in Transfer, StartTransfer(t)
      PROVE  Inv'
    BY <1>2, OneMoves DEF StartTransfer, Step
<1>3. ASSUME NEW t \in Transfer, FinishTransfer(t) \/ FinishWithNewToken(t)
      PROVE  Inv'
    BY <1>3, FinishInv DEF FinishTransfer, FinishWithNewToken, Step, Works
<1>4. ASSUME NEW z \in Unlocker, ReadContainer(z)
      PROVE  Inv'
    BY <1>4, OneMoves, SyncAssumption DEF ReadContainer, Step
<1>5. ASSUME NEW z \in Unlocker, Rotate(z) \/ SendUnlock(z) \/ AbortUnlock(z)
      PROVE  Inv'
    BY <1>5, OneMoves DEF Rotate, SendUnlock, AbortUnlock, Step
<1>6. ASSUME NEW u \in Tui, NEW s, WriteCopy(u, s)
      PROVE  Inv'
    BY <1>6, OneMoves, SyncAssumption DEF WriteCopy, Step
<1>7. ASSUME NEW u \in Tui, OpenContainer(u)
      PROVE  Inv'
    BY <1>7, OneMoves, SyncAssumption DEF OpenContainer, Step
<1>8. ASSUME NEW u \in Tui, PushSet(u) \/ QuitTui(u)
      PROVE  Inv'
    BY <1>8, OneMoves DEF PushSet, QuitTui, Step
<1>9. ASSUME NEW u \in Tui, NEW a \in Alias, AddProfile(u, a) \/ DeleteProfile(u, a)
      PROVE  Inv'
    BY <1>6, <1>9 DEF AddProfile, DeleteProfile
<1>10. ASSUME NEW w \in Wiper, AskExit(w) \/ RemoveContainer(w)
      PROVE  Inv'
    BY <1>10, OneMoves DEF AskExit, RemoveContainer, Step
<1>11. ASSUME NEW p \in Process, GiveUp(p)
      PROVE  Inv'
    <2>1. PICK next \in {"remove", "done"} : pc' = [pc EXCEPT ![p] = next]
        BY <1>11 DEF GiveUp, Step
    <2>2. QED
        BY <1>11, <2>1, OneMoves DEF GiveUp
<1>12. CASE ServeUnlock
    BY <1>12, CloseKeeps, AgentMoves DEF ServeUnlock, MyTurn
<1>13. CASE ServeUpdateProfileSet
    BY <1>13, AgentMoves DEF ServeUpdateProfileSet, MyTurn, Works, Inv, Shape
<1>14. CASE ServeExit
    <2>1. DOMAIN pc' = Process /\ \A t \in Transfer : Works(t)' => Works(t)
        BY <1>14 DEF ServeExit, Works, Inv, Shape
    <2>2. QED
        BY <1>14, <2>1, AgentMoves DEF ServeExit, MyTurn
<1>15. CASE AutoLock
    BY <1>15, AgentMoves DEF AutoLock, Works, Inv, Shape
<1>16. QED
    BY <1>1, <1>2, <1>3, <1>4, <1>5, <1>7, <1>8, <1>9, <1>10, <1>11, <1>12, <1>13, <1>14,
       <1>15, GetProfileInv DEF Next

THEOREM Invariance == Spec => []Inv
BY InitInv, NextInv, PTL DEF Spec

\* No transfer overwrites a token another process has pushed since it read its
\* own: the connection held from GetProfile to UpdateProfile is a lock.
THEOREM TokenIsFresh == Spec => TokenPushIsFresh
<1> DEFINE Fresh == \A t \in Transfer :
                pc[t] = "working" /\ ram' # ram /\ pc'[t] = "done" =>
                    ram[using[t]] = copy[t][using[t]]
<1>1. Inv => Fresh
    BY DEF Inv, HeldWhileWorking, Works
<1>2. Inv /\ [Next]_vars => [Fresh]_vars
    BY <1>1
<1>3. QED
    BY <1>2, Invariance, PTL DEF Spec, TokenPushIsFresh
-------------------------------------------------------------------------------
(* What is waiting in the agent's socket, and why RAM and the file agree.  *)

\* Each operation is asked for by one kind of process.
Asked ==
    [by : Transfer, op : {"GetProfile"}]
        \union [by : Wiper, op : {"Exit"}]
        \union [by : Unlocker, op : {"Unlock"}, set : ProfileSet]
        \union [by : Tui, op : {"UpdateProfileSet"}, set : ProfileSet]

\* Whoever is to tell the agent about a set has one.
HasCopy ==
    /\ \A z \in Unlocker : pc[z] \in {"prompt", "rotated"} => copy[z] \in ProfileSet
    /\ \A u \in Tui : pc[u] \in {"open", "written"} => copy[u] \in ProfileSet

TypeInv == TypeOK /\ queue \in Seq(Asked) /\ HasCopy

Tells(r) == r.op \in {"Unlock", "UpdateProfileSet"}

Telling(q) == \E i \in 1 .. Len(q) : Tells(q[i])

\* While the file and RAM differ, somebody is going to tell the agent.
ToldLater ==
    ram # None /\ ~untold /\ file # ram =>
        \/ Telling(queue)
        \/ \E u \in Tui : pc[u] = "written"
        \/ \E z \in Unlocker : pc[z] = "rotated"

SyncInv == TypeInv /\ ToldLater

LEMMA SetsOfProfiles ==
    ASSUME NEW A \in SUBSET Alias, A # {}, NEW f \in [A -> 0 .. MAX_TOKEN]
    PROVE  f \in ProfileSet
BY DEF ProfileSet

LEMMA ProfileSetShape ==
    ASSUME NEW s \in ProfileSet
    PROVE  /\ DOMAIN s \in SUBSET Alias /\ DOMAIN s # {}
           /\ s \in [DOMAIN s -> 0 .. MAX_TOKEN]
BY DEF ProfileSet

LEMMA AskedRequests ==
    /\ \A r \in Asked : r.by \in Process
    /\ \A r \in Asked : r.op = "GetProfile" => r.by \in Transfer
    /\ \A r \in Asked : Tells(r) => r.set \in ProfileSet
BY DEF Asked, Tells, Process

\* The queue of TypeOK is the coarser of the two.
LEMMA QueueTyped ==
    ASSUME NEW q \in Seq(Asked)
    PROVE  q \in Seq([by : Process, op : {"GetProfile", "Exit"}]
            \union [by : Process, op : {"Unlock", "UpdateProfileSet"}, set : ProfileSet])
<1> DEFINE All == [by : Process, op : {"GetProfile", "Exit"}]
            \union [by : Process, op : {"Unlock", "UpdateProfileSet"}, set : ProfileSet]
<1>1. Asked \subseteq All
    BY DEF Asked, Process
<1> HIDE DEF All
<1>2. q \in Seq(All)
    BY <1>1
<1>3. QED
    BY <1>2 DEF All

\* A request joins the queue at its end ...
LEMMA Joins ==
    ASSUME queue \in Seq(Asked), NEW r \in Asked, Enqueue(r)
    PROVE  /\ queue' \in Seq(Asked)
           /\ Telling(queue) \/ Tells(r) => Telling(queue')
<1>1. queue' \in Seq(Asked) /\ Len(queue') = Len(queue) + 1 /\ queue'[Len(queue) + 1] = r
    BY DEF Enqueue
<1>2. \A i \in 1 .. Len(queue) : queue'[i] = queue[i]
    BY DEF Enqueue
<1>3. QED
    BY <1>1, <1>2 DEF Telling

\* ... and is served at its head.
LEMMA Leaves ==
    ASSUME queue \in Seq(Asked), queue # <<>>, queue' = Tail(queue)
    PROVE  /\ Next1 \in Asked /\ queue' \in Seq(Asked)
           /\ Telling(queue) => Tells(Next1) \/ Telling(queue')
<1>1. /\ Next1 \in Asked /\ queue' \in Seq(Asked)
      /\ Len(queue') = Len(queue) - 1 /\ Next1 = queue[1]
    BY DEF Next1
<1>2. \A i \in 1 .. Len(queue') : queue'[i] = queue[i + 1]
    BY DEF Next1
<1>3. ASSUME NEW i \in 1 .. Len(queue), Tells(queue[i]), ~Tells(Next1)
      PROVE  Telling(queue')
    <2>1. i # 1 /\ i - 1 \in 1 .. Len(queue')
        BY <1>1, <1>3
    <2>2. queue'[i - 1] = queue[i]
        BY <1>2, <2>1
    <2>3. QED
        BY <1>3, <2>1, <2>2 DEF Telling
<1>4. QED
    BY <1>1, <1>3 DEF Telling

LEMMA InitTyped == Init => TypeInv
<1> SUFFICES ASSUME Init PROVE TypeInv
    OBVIOUS
<1>1. <<>> \in Seq(Asked) /\ queue = <<>>
    BY DEF Init
<1>2. HasCopy
    BY DEF Init, HasCopy, Process
<1>3. /\ file \in ProfileSet \union {None} /\ ram \in ProfileSet \union {None}
      /\ issued \in 0 .. MAX_TOKEN /\ edits \in [Tui -> 0 .. MAX_EDITS]
    BY SyncAssumption DEF Init
<1>4. TypeOK
    BY <1>1, <1>3, QueueTyped DEF Init, TypeOK
<1>5. QED
    BY <1>1, <1>2, <1>4 DEF TypeInv

\* The types after a step that leaves the queue well formed and gives no process
\* a copy that is none.
LEMMA Typed ==
    ASSUME TypeInv, queue' \in Seq(Asked),
           file' \in ProfileSet \union {None}, ram' \in ProfileSet \union {None},
           serving' \in Transfer \union {None},
           pc' \in [Process -> {"idle", "prompt", "rotated", "waiting", "working", "open",
                "written", "remove", "done"}],
           copy' \in [Process -> ProfileSet \union {None}],
           using' \in [Transfer -> Alias \union {None}],
           issued' \in 0 .. MAX_TOKEN,
           edits' \in [Tui -> 0 .. MAX_EDITS],
           added' \in SUBSET Alias,
           untold' \in BOOLEAN,
           \A p \in Process : copy'[p] = copy[p] \/ copy'[p] \in ProfileSet,
           \A z \in Unlocker : pc'[z] \in {"prompt", "rotated"} =>
                pc[z] \in {"prompt", "rotated"} \/ copy'[z] \in ProfileSet,
           \A u \in Tui : pc'[u] \in {"open", "written"} =>
                pc[u] \in {"open", "written"} \/ copy'[u] \in ProfileSet
    PROVE  TypeInv'
<1>1. TypeOK'
    BY QueueTyped DEF TypeOK
<1>2. HasCopy'
    BY DEF TypeInv, HasCopy, Process
<1>3. QED
    BY <1>1, <1>2 DEF TypeInv

LEMMA TransferTyped ==
    ASSUME TypeInv, NEW t \in Transfer,
           StartTransfer(t) \/ FinishTransfer(t) \/ FinishWithNewToken(t)
    PROVE  TypeInv'
<1> USE Typed DEF TypeInv, TypeOK, Step
<1>0. t \in Process
    BY DEF Process
<1>1. CASE StartTransfer(t)
    <2>1. [by |-> t, op |-> "GetProfile"] \in Asked
        BY DEF Asked
    <2>2. queue' \in Seq(Asked)
        BY <1>1, <2>1, Joins DEF StartTransfer
    <2>3. QED
        BY <1>0, <1>1, <2>2 DEF StartTransfer, Process
<1>2. CASE FinishTransfer(t)
    BY <1>0, <1>2 DEF FinishTransfer, Process
<1>3. CASE FinishWithNewToken(t)
    <2>1. issued' \in 0 .. MAX_TOKEN /\ issued + 1 \in 0 .. MAX_TOKEN
        BY <1>3, SyncAssumption DEF FinishWithNewToken
    <2>2. ram' \in ProfileSet \union {None}
        <3>1. CASE Takes(t)
            <4>1. ram \in ProfileSet /\ ram \in [DOMAIN ram -> 0 .. MAX_TOKEN]
                BY <3>1, ProfileSetShape DEF Takes
            <4>2. ram' \in [DOMAIN ram -> 0 .. MAX_TOKEN]
                BY <1>3, <2>1, <3>1, <4>1 DEF FinishWithNewToken
            <4>3. QED
                BY <4>1, <4>2, ProfileSetShape, SetsOfProfiles
        <3>2. CASE ~Takes(t)
            BY <1>3, <3>2 DEF FinishWithNewToken
        <3>3. QED
            BY <3>1, <3>2
    <2>3. file' \in ProfileSet \union {None} /\ untold' \in BOOLEAN
        BY <1>3, <2>2 DEF FinishWithNewToken
    <2>4. QED
        BY <1>0, <1>3, <2>1, <2>2, <2>3 DEF FinishWithNewToken, Process
<1>4. QED
    BY <1>1, <1>2, <1>3

LEMMA UnlockerTyped ==
    ASSUME TypeInv, NEW z \in Unlocker,
           ReadContainer(z) \/ Rotate(z) \/ SendUnlock(z) \/ AbortUnlock(z)
    PROVE  TypeInv'
<1> USE Typed DEF TypeInv, TypeOK, Step
<1>0. z \in Process
    BY DEF Process
<1>1. CASE ReadContainer(z)
    BY <1>0, <1>1 DEF ReadContainer, Process
<1>2. CASE Rotate(z)
    BY <1>0, <1>2 DEF Rotate, Process
<1>3. CASE SendUnlock(z)
    <2>1. [by |-> z, op |-> "Unlock", set |-> copy[z]] \in Asked
        BY <1>3 DEF SendUnlock, HasCopy, Asked
    <2>2. queue' \in Seq(Asked)
        BY <1>3, <2>1, Joins DEF SendUnlock
    <2>3. QED
        BY <1>0, <1>3, <2>2 DEF SendUnlock, Process
<1>4. CASE AbortUnlock(z)
    BY <1>0, <1>4 DEF AbortUnlock, Process
<1>5. QED
    BY <1>1, <1>2, <1>3, <1>4

LEMMA WriteTyped ==
    ASSUME TypeInv, NEW u \in Tui, NEW s \in ProfileSet, WriteCopy(u, s), added' \in SUBSET Alias
    PROVE  TypeInv'
<1>0. u \in Process
    BY DEF Process
<1>1. edits' \in [Tui -> 0 .. MAX_EDITS]
    BY SyncAssumption DEF WriteCopy, TypeInv, TypeOK
<1>2. QED
    BY <1>0, <1>1, Typed DEF WriteCopy, TypeInv, TypeOK, Step, Process

LEMMA TuiTyped ==
    ASSUME TypeInv, NEW u \in Tui,
           \/ OpenContainer(u) \/ PushSet(u) \/ QuitTui(u)
           \/ \E a \in Alias : AddProfile(u, a) \/ DeleteProfile(u, a)
    PROVE  TypeInv'
<1>0. u \in Process
    BY DEF Process
<1>1. CASE OpenContainer(u)
    BY <1>0, <1>1, Typed DEF OpenContainer, Process, TypeInv, TypeOK, Step
<1>2. CASE PushSet(u)
    <2>1. [by |-> u, op |-> "UpdateProfileSet", set |-> copy[u]] \in Asked
        BY <1>2 DEF PushSet, HasCopy, Asked, TypeInv, Step
    <2>2. queue' \in Seq(Asked)
        BY <1>2, <2>1, Joins DEF PushSet, TypeInv
    <2>3. QED
        BY <1>0, <1>2, <2>2, Typed DEF PushSet, Process, TypeInv, TypeOK, Step
<1>3. CASE QuitTui(u)
    BY <1>0, <1>3, Typed DEF QuitTui, Process, TypeInv, TypeOK
<1>4. ASSUME NEW a \in Alias, AddProfile(u, a)
      PROVE  TypeInv'
    <2> DEFINE s == [x \in DOMAIN copy[u] \union {a} |-> IF x = a THEN 0 ELSE copy[u][x]]
    <2>1. copy[u] \in ProfileSet
        BY <1>0, <1>4 DEF AddProfile, TypeInv, TypeOK
    <2>2. s \in [DOMAIN copy[u] \union {a} -> 0 .. MAX_TOKEN]
        BY <2>1, ProfileSetShape, SyncAssumption
    <2>3. s \in ProfileSet
        BY <2>1, <2>2, ProfileSetShape, SetsOfProfiles
    <2>4. added' \in SUBSET Alias /\ WriteCopy(u, s)
        BY <1>4 DEF AddProfile, TypeInv, TypeOK
    <2>5. QED
        BY <2>3, <2>4, WriteTyped
<1>5. ASSUME NEW a \in Alias, DeleteProfile(u, a)
      PROVE  TypeInv'
    <2> DEFINE A == DOMAIN copy[u] \ {a}
               s == Restrict(copy[u], A)
    <2>1. copy[u] \in ProfileSet
        BY <1>0, <1>5 DEF DeleteProfile, TypeInv, TypeOK
    <2>2. A \in SUBSET Alias /\ A # {}
        BY <1>5, <2>1, ProfileSetShape DEF DeleteProfile
    <2>3. s \in [A -> 0 .. MAX_TOKEN]
        BY <2>1, ProfileSetShape DEF Restrict
    <2>4. s \in ProfileSet
        BY <2>2, <2>3, SetsOfProfiles
    <2>5. added' \in SUBSET Alias /\ WriteCopy(u, s)
        BY <1>5 DEF DeleteProfile, TypeInv, TypeOK
    <2>6. QED
        BY <2>4, <2>5, WriteTyped
<1>6. QED
    BY <1>1, <1>2, <1>3, <1>4, <1>5

LEMMA WiperTyped ==
    ASSUME TypeInv, NEW w \in Wiper, AskExit(w) \/ RemoveContainer(w)
    PROVE  TypeInv'
<1> USE Typed DEF TypeInv, TypeOK, Step
<1>0. w \in Process
    BY DEF Process
<1>1. CASE AskExit(w)
    <2>1. [by |-> w, op |-> "Exit"] \in Asked
        BY DEF Asked
    <2>2. queue' \in Seq(Asked)
        BY <1>1, <2>1, Joins DEF AskExit
    <2>3. QED
        BY <1>0, <1>1, <2>2 DEF AskExit, Process
<1>2. CASE RemoveContainer(w)
    BY <1>0, <1>2 DEF RemoveContainer, Process
<1>3. QED
    BY <1>1, <1>2

\* Only those who wait are answered.
LEMMA ClosedTyped ==
    ASSUME TypeInv, NEW p \in Process, Close(p)
    PROVE  /\ pc' \in [Process -> {"idle", "prompt", "rotated", "waiting", "working", "open",
                "written", "remove", "done"}]
           /\ \A q \in Process : pc'[q] \in {pc[q], "done"}
<1>1. CASE Open(p)
    <2>1. pc' = [pc EXCEPT ![p] = "done"] /\ pc[p] = "waiting"
        BY <1>1 DEF Close, Open
    <2>2. QED
        BY <2>1 DEF TypeInv, TypeOK
<1>2. CASE ~Open(p)
    BY <1>2 DEF TypeInv, TypeOK, Close
<1>3. QED
    BY <1>1, <1>2

LEMMA AgentTyped ==
    ASSUME TypeInv,
           ServeGetProfile \/ ServeUnlock \/ ServeUpdateProfileSet \/ ServeExit \/ AutoLock
    PROVE  TypeInv'
<1>1. CASE ServeGetProfile
    <2>1. /\ Next1 \in Asked /\ queue' \in Seq(Asked)
          /\ Next1.by \in Transfer /\ Next1.by \in Process
        BY <1>1, Leaves, AskedRequests DEF ServeGetProfile, TypeInv
    <2>2. CASE /\ ram # None /\ Open(Next1.by)
               /\ \E a \in DOMAIN ram : using' = [using EXCEPT ![Next1.by] = a]
               /\ copy' = [copy EXCEPT ![Next1.by] = ram]
               /\ serving' = Next1.by
               /\ pc' = [pc EXCEPT ![Next1.by] = "working"]
        <3>1. ram \in ProfileSet /\ DOMAIN ram \subseteq Alias
            BY <2>2, ProfileSetShape DEF TypeInv, TypeOK
        <3>2. using' \in [Transfer -> Alias \union {None}]
            BY <2>1, <2>2, <3>1 DEF TypeInv, TypeOK
        <3>3. QED
            BY <1>1, <2>1, <2>2, <3>1, <3>2, Typed
               DEF ServeGetProfile, TypeInv, TypeOK, Process
    <2>3. CASE Close(Next1.by) /\ UNCHANGED <<using, copy, serving>>
        BY <1>1, <2>1, <2>3, ClosedTyped, Typed DEF ServeGetProfile, TypeInv, TypeOK, Process
    <2>4. QED
        BY <1>1, <2>2, <2>3 DEF ServeGetProfile
<1>2. CASE ServeUnlock
    <2>1. queue' \in Seq(Asked) /\ Next1.set \in ProfileSet /\ Next1.by \in Process
        BY <1>2, Leaves, AskedRequests DEF ServeUnlock, TypeInv, Tells
    <2>2. QED
        BY <1>2, <2>1, ClosedTyped, Typed DEF ServeUnlock, TypeInv, TypeOK, Process
<1>3. CASE ServeUpdateProfileSet
    <2>1. queue' \in Seq(Asked) /\ Next1.set \in ProfileSet
        BY <1>3, Leaves, AskedRequests DEF ServeUpdateProfileSet, TypeInv, Tells
    <2>2. QED
        BY <1>3, <2>1, Typed DEF ServeUpdateProfileSet, TypeInv, TypeOK, Process
<1>4. CASE ServeExit
    <2>1. queue' \in Seq(Asked)
        <3>1. queue' = <<>> \/ queue' = Tail(queue)
            BY <1>4 DEF ServeExit
        <3>2. <<>> \in Seq(Asked)
            OBVIOUS
        <3>3. QED
            BY <1>4, <3>1, <3>2, Leaves DEF ServeExit, TypeInv
    <2>2. /\ pc' \in [Process -> {"idle", "prompt", "rotated", "waiting", "working", "open",
                "written", "remove", "done"}]
          /\ \A q \in Process : pc'[q] \in {pc[q], "remove", "done"}
        BY <1>4 DEF ServeExit, TypeInv, TypeOK
    <2>3. QED
        BY <1>4, <2>1, <2>2, Typed DEF ServeExit, TypeInv, TypeOK, Process
<1>5. CASE AutoLock
    BY <1>5, Typed DEF AutoLock, TypeInv, TypeOK, Process
<1>6. QED
    BY <1>1, <1>2, <1>3, <1>4, <1>5

LEMMA TypedStep == TypeInv /\ [Next]_vars => TypeInv'
<1> SUFFICES ASSUME TypeInv, [Next]_vars PROVE TypeInv'
    OBVIOUS
<1>1. CASE UNCHANGED vars
    BY <1>1 DEF vars, TypeInv, TypeOK, HasCopy
<1>2. ASSUME NEW p \in Process, GiveUp(p)
      PROVE  TypeInv'
    BY <1>2, Typed DEF GiveUp, Step, TypeInv, TypeOK, Process
<1>3. QED
    BY <1>1, <1>2, TransferTyped, UnlockerTyped, TuiTyped, WiperTyped, AgentTyped DEF Next

\* All variables of the protocol keep their types, and requests are asked for by
\* the processes that have them (the queue of accept and what is read from it).
THEOREM TypeCorrect == Spec => []TypeOK
<1>1. TypeInv => TypeOK
    BY DEF TypeInv
<1>2. QED
    BY <1>1, InitTyped, TypedStep, PTL DEF Spec

-------------------------------------------------------------------------------
(* Somebody always tells the agent.                                        *)

\* Others who are about to tell the agent stay when p moves.
StillTelling(p) ==
    /\ Telling(queue) => Telling(queue')
    /\ \A u \in Tui \ {p} : pc[u] = "written" => pc'[u] = "written"
    /\ \A z \in Unlocker \ {p} : pc[z] = "rotated" => pc'[z] = "rotated"

\* A step that changes neither the file nor RAM, of a process that was not the
\* one to tell the agent or goes on to.
LEMMA ToldStays ==
    ASSUME SyncInv, NEW p, UNCHANGED <<file, ram>>, StillTelling(p),
           untold => untold',
           p \in Tui /\ pc[p] = "written" => Telling(queue') \/ pc'[p] = "written" \/ untold',
           p \in Unlocker /\ pc[p] = "rotated" => Telling(queue') \/ pc'[p] = "rotated" \/ untold',
           untold \in BOOLEAN, untold' \in BOOLEAN
    PROVE  ToldLater'
BY DEF SyncInv, ToldLater, StillTelling

LEMMA OneProcess ==
    ASSUME SyncInv, NEW p \in Process, NEW next, pc' = [pc EXCEPT ![p] = next],
           Telling(queue) => Telling(queue')
    PROVE  StillTelling(p) /\ pc'[p] = next
BY DEF SyncInv, TypeInv, TypeOK, StillTelling, Process

LEMMA TransferTold ==
    ASSUME SyncInv, NEW t \in Transfer,
           StartTransfer(t) \/ FinishTransfer(t) \/ FinishWithNewToken(t)
    PROVE  ToldLater'
<1>0. t \in Process /\ t \notin Tui /\ t \notin Unlocker /\ untold \in BOOLEAN
    BY SyncAssumption DEF Process, SyncInv, TypeInv, TypeOK
<1>1. CASE StartTransfer(t)
    <2>1. [by |-> t, op |-> "GetProfile"] \in Asked
        BY DEF Asked
    <2>2. Telling(queue) => Telling(queue')
        BY <1>1, <2>1, Joins DEF StartTransfer, SyncInv, TypeInv
    <2>3. StillTelling(t)
        BY <1>0, <1>1, <2>2, OneProcess DEF StartTransfer, Step
    <2>4. QED
        BY <1>0, <1>1, <2>3, ToldStays DEF StartTransfer
<1>2. CASE FinishTransfer(t)
    <2>1. StillTelling(t)
        BY <1>0, <1>2, OneProcess DEF FinishTransfer, Step
    <2>2. QED
        BY <1>0, <1>2, <2>1, ToldStays DEF FinishTransfer
<1>3. CASE FinishWithNewToken(t)
    BY <1>3 DEF FinishWithNewToken, ToldLater
<1>4. QED
    BY <1>1, <1>2, <1>3

LEMMA UnlockerTold ==
    ASSUME SyncInv, NEW z \in Unlocker,
           ReadContainer(z) \/ Rotate(z) \/ SendUnlock(z) \/ AbortUnlock(z)
    PROVE  ToldLater'
<1>0. z \in Process /\ z \notin Tui /\ untold \in BOOLEAN
    BY SyncAssumption DEF Process, SyncInv, TypeInv, TypeOK
<1>1. CASE ReadContainer(z)
    <2>1. StillTelling(z) /\ pc[z] = "idle"
        BY <1>0, <1>1, OneProcess DEF ReadContainer, Step
    <2>2. QED
        BY <1>0, <1>1, <2>1, ToldStays DEF ReadContainer
<1>2. CASE Rotate(z)
    BY <1>0, <1>2 DEF Rotate, Step, ToldLater, SyncInv, TypeInv, TypeOK
<1>3. CASE SendUnlock(z)
    <2>1. [by |-> z, op |-> "Unlock", set |-> copy[z]] \in Asked
        BY <1>3 DEF SendUnlock, HasCopy, Asked, SyncInv, TypeInv
    <2>2. Telling(queue')
        BY <1>3, <2>1, Joins DEF SendUnlock, SyncInv, TypeInv, Tells
    <2>3. QED
        BY <2>2 DEF ToldLater
<1>4. CASE AbortUnlock(z)
    <2>1. StillTelling(z)
        BY <1>0, <1>4, OneProcess DEF AbortUnlock
    <2>2. QED
        BY <1>0, <1>4, <2>1, ToldStays DEF AbortUnlock
<1>5. QED
    BY <1>1, <1>2, <1>3, <1>4

LEMMA TuiTold ==
    ASSUME SyncInv, NEW u \in Tui,
           \/ OpenContainer(u) \/ PushSet(u) \/ QuitTui(u)
           \/ \E a \in Alias : AddProfile(u, a) \/ DeleteProfile(u, a)
    PROVE  ToldLater'
<1>0. u \in Process /\ u \notin Unlocker /\ untold \in BOOLEAN
    BY SyncAssumption DEF Process, SyncInv, TypeInv, TypeOK
<1>1. CASE OpenContainer(u)
    <2>1. StillTelling(u) /\ pc[u] = "idle"
        BY <1>0, <1>1, OneProcess DEF OpenContainer, Step
    <2>2. QED
        BY <1>0, <1>1, <2>1, ToldStays DEF OpenContainer
<1>2. CASE PushSet(u)
    <2>1. [by |-> u, op |-> "UpdateProfileSet", set |-> copy[u]] \in Asked
        BY <1>2 DEF PushSet, HasCopy, Asked, SyncInv, TypeInv, Step
    <2>2. Telling(queue')
        BY <1>2, <2>1, Joins DEF PushSet, SyncInv, TypeInv, Tells
    <2>3. QED
        BY <2>2 DEF ToldLater
<1>3. CASE QuitTui(u)
    <2>1. StillTelling(u)
        BY <1>0, <1>3, OneProcess DEF QuitTui
    <2>2. QED
        BY <1>0, <1>3, <2>1, ToldStays DEF QuitTui
<1>4. ASSUME NEW s, WriteCopy(u, s)
      PROVE  ToldLater'
    <2>1. pc'[u] = "written"
        BY <1>0, <1>4 DEF WriteCopy, Step, SyncInv, TypeInv, TypeOK
    <2>2. QED
        BY <2>1 DEF ToldLater
<1>5. QED
    BY <1>1, <1>2, <1>3, <1>4 DEF AddProfile, DeleteProfile

LEMMA WiperTold ==
    ASSUME SyncInv, NEW w \in Wiper, AskExit(w) \/ RemoveContainer(w)
    PROVE  ToldLater'
<1>0. w \in Process /\ untold \in BOOLEAN
    BY DEF Process, SyncInv, TypeInv, TypeOK
<1>1. CASE AskExit(w)
    <2>1. [by |-> w, op |-> "Exit"] \in Asked
        BY DEF Asked
    <2>2. Telling(queue) => Telling(queue')
        BY <1>1, <2>1, Joins DEF AskExit, SyncInv, TypeInv
    <2>3. StillTelling(w) /\ pc[w] = "idle"
        BY <1>0, <1>1, <2>2, OneProcess DEF AskExit, Step
    <2>4. QED
        BY <1>0, <1>1, <2>3, ToldStays DEF AskExit
<1>2. CASE RemoveContainer(w)
    BY <1>2 DEF RemoveContainer, ToldLater
<1>3. QED
    BY <1>1, <1>2

\* The agent takes up what it is told, and loses the rest only with its RAM.
LEMMA AgentTold ==
    ASSUME SyncInv,
           ServeGetProfile \/ ServeUnlock \/ ServeUpdateProfileSet \/ ServeExit \/ AutoLock
    PROVE  ToldLater'
<1>0. untold \in BOOLEAN
    BY DEF SyncInv, TypeInv, TypeOK
<1>1. CASE ServeGetProfile
    <2>1. Next1 \in Asked /\ (Telling(queue) => Telling(queue'))
        BY <1>1, Leaves DEF ServeGetProfile, SyncInv, TypeInv, Tells
    <2>2. Next1.by \in Process /\ (pc' = pc \/ Open(Next1.by))
        BY <1>1, <2>1, AskedRequests DEF ServeGetProfile, Close
    <2>3. StillTelling(Next1.by)
        <3>1. \/ pc' = pc
              \/ \E next \in {"working", "done"} : pc' = [pc EXCEPT ![Next1.by] = next]
            BY <1>1 DEF ServeGetProfile, Close
        <3>2. QED
            BY <2>1, <2>2, <3>1, OneProcess DEF StillTelling
    <2>4. pc[Next1.by] \in {"written", "rotated"} => pc' = pc
        BY <2>2 DEF Open
    <2>5. QED
        BY <1>0, <1>1, <2>3, <2>4, ToldStays DEF ServeGetProfile
<1>2. CASE ServeUnlock
    BY <1>2 DEF ServeUnlock, ToldLater
<1>3. CASE ServeUpdateProfileSet
    BY <1>3 DEF ServeUpdateProfileSet, ToldLater
<1>4. CASE ServeExit
    <2>1. CASE ram' = None
        BY <2>1 DEF ToldLater
    <2>2. CASE queue' = Tail(queue) /\ UNCHANGED <<ram, pc>>
        <3>1. Telling(queue) => Telling(queue')
            BY <1>4, <2>2, Leaves DEF ServeExit, SyncInv, TypeInv, Tells
        <3>2. QED
            BY <1>4, <2>2, <3>1 DEF ServeExit, SyncInv, ToldLater
    <2>3. QED
        BY <1>4, <2>1, <2>2 DEF ServeExit
<1>5. CASE AutoLock
    BY <1>5 DEF AutoLock, ToldLater
<1>6. QED
    BY <1>1, <1>2, <1>3, <1>4, <1>5

LEMMA ToldStep == SyncInv /\ [Next]_vars => ToldLater'
<1> SUFFICES ASSUME SyncInv, [Next]_vars PROVE ToldLater'
    OBVIOUS
<1>1. CASE UNCHANGED vars
    BY <1>1 DEF vars, SyncInv, ToldLater, Telling
<1>2. ASSUME NEW p \in Process, GiveUp(p)
      PROVE  ToldLater'
    <2>1. pc[p] = "waiting" /\ \E next : pc' = [pc EXCEPT ![p] = next]
        BY <1>2 DEF GiveUp, Step
    <2>2. StillTelling(p)
        BY <1>2, <2>1, OneProcess DEF GiveUp
    <2>3. QED
        BY <1>2, <2>1, <2>2, ToldStays DEF GiveUp, SyncInv, TypeInv, TypeOK
<1>3. QED
    BY <1>1, <1>2, TransferTold, UnlockerTold, TuiTold, WiperTold, AgentTold DEF Next

\* Once everybody who wrote the container has told the agent (PushSet, SendUnlock,
\* the UpdateProfile of a transfer), its RAM and the file agree, for any number of
\* transfers, unlocks, runs of the TUI and wipes.
THEOREM RamFollowsFile == Spec => []SyncedWhenTold
<1>1. Init => SyncInv
    BY InitTyped DEF Init, SyncInv, ToldLater
<1>2. SyncInv /\ [Next]_vars => SyncInv'
    BY TypedStep, ToldStep DEF SyncInv
<1>3. SyncInv => SyncedWhenTold
    BY DEF SyncInv, ToldLater, SyncedWhenTold, AllTold, Telling
<1>4. QED
    BY <1>1, <1>2, <1>3, PTL DEF Spec

-------------------------------------------------------------------------------
\* While nothing overlaps, w owns the temporary file.
OwnsTmp(w) ==
    /\ tmp # Nothing
    /\ fd[w] = tmp
    /\ stage[w] = "write" => data[tmp] = Empty
    /\ stage[w] # "write" => data[tmp] = w

AloneInv ==
    ~overlap =>
        /\ \A v, w \in Writer : InProgress(v) /\ InProgress(w) => v = w
        /\ \A w \in Writer : InProgress(w) => OwnsTmp(w)

\* Nobody has the container open once it is known who wrote it.
KnownInv ==
    last # Torn => \A w \in Writer : InProgress(w) => fd[w] # container

ReplaceInv == ReplaceTypeOK /\ tmp # container /\ AloneInv /\ KnownInv

-------------------------------------------------------------------------------
LEMMA ReplaceInitInv == ReplaceInit => ReplaceInv
<1> SUFFICES ASSUME ReplaceInit PROVE ReplaceInv
    OBVIOUS
<1>1. ReplaceTypeOK
    BY DEF ReplaceInit, ReplaceTypeOK
<1>2. tmp # container
    BY ReplaceAssumption DEF ReplaceInit
<1>3. \A w \in Writer : ~InProgress(w)
    BY DEF ReplaceInit, InProgress
<1>4. QED
    BY <1>1, <1>2, <1>3 DEF ReplaceInv, AloneInv, KnownInv

\* Moving one writer leaves everybody else where they are.
LEMMA StageMoves ==
    ASSUME ReplaceTypeOK, NEW w \in Writer, NEW here,
           NEW next \in {"open", "write", "chmod", "rename", "ok", "error"},
           Goes(w, here, next)
    PROVE  /\ stage' \in [Writer -> {"open", "write", "chmod", "rename", "ok", "error"}]
           /\ stage[w] = here /\ stage'[w] = next
           /\ \A v \in Writer : v # w => stage'[v] = stage[v]
BY DEF ReplaceTypeOK, Goes

\* What opening the temporary file does, whether or not it was there.
LEMMA OpenStep ==
    ASSUME ReplaceInv, NEW w \in Writer, OpenTmp(w)
    PROVE  /\ stage' \in [Writer -> {"open", "write", "chmod", "rename", "ok", "error"}]
           /\ stage[w] = "open" /\ stage'[w] = "write"
           /\ \A v \in Writer : v # w => stage'[v] = stage[v]
           /\ tmp' \in Inode /\ tmp' \in used' /\ used \subseteq used' /\ used' \subseteq Inode
           /\ tmp' # Nothing /\ tmp' # container
           /\ fd' = [fd EXCEPT ![w] = tmp']
           /\ data' = [data EXCEPT ![tmp'] = Empty]
           /\ overlap' = \E v \in Writer : InProgress(v)
           /\ UNCHANGED <<container, last>>
<1>1. /\ stage' \in [Writer -> {"open", "write", "chmod", "rename", "ok", "error"}]
      /\ stage[w] = "open" /\ stage'[w] = "write"
      /\ \A v \in Writer : v # w => stage'[v] = stage[v]
    BY StageMoves DEF ReplaceInv, OpenTmp
<1>2. /\ tmp' \in Inode /\ tmp' \in used' /\ used \subseteq used' /\ used' \subseteq Inode
      /\ tmp' # Nothing /\ tmp' # container
    BY ReplaceAssumption DEF ReplaceInv, ReplaceTypeOK, OpenTmp
<1>3. QED
    BY <1>1, <1>2 DEF OpenTmp

LEMMA OpenInv ==
    ASSUME ReplaceInv, NEW w \in Writer, OpenTmp(w)
    PROVE  ReplaceInv'
<1>1. ReplaceTypeOK'
    <2>1. overlap' \in BOOLEAN
        BY OpenStep
    <2>2. /\ data' \in [Inode -> Writer \union {Nothing, Empty, Torn}]
          /\ fd' \in [Writer -> used' \union {Nothing}]
        <3>1. /\ data \in [Inode -> Writer \union {Nothing, Empty, Torn}]
              /\ fd \in [Writer -> used \union {Nothing}]
            BY DEF ReplaceInv, ReplaceTypeOK
        <3>2. /\ tmp' \in Inode /\ tmp' \in used' /\ used \subseteq used'
              /\ fd' = [fd EXCEPT ![w] = tmp'] /\ data' = [data EXCEPT ![tmp'] = Empty]
            BY OpenStep
        <3>3. QED
            BY ONLY <3>1, <3>2
    <2>3. QED
        BY OpenStep, <2>1, <2>2 DEF ReplaceInv, ReplaceTypeOK
<1>2. AloneInv'
    <2>1. SUFFICES ASSUME ~overlap'
                   PROVE  /\ \A v, u \in Writer : InProgress(v)' /\ InProgress(u)' => v = u
                          /\ \A v \in Writer : InProgress(v)' => OwnsTmp(v)'
        BY DEF AloneInv
    <2>2. \A v \in Writer : ~InProgress(v)
        BY OpenStep, <2>1
    <2>3. \A v \in Writer : InProgress(v)' => v = w
        BY OpenStep, <2>2 DEF InProgress
    <2>4. OwnsTmp(w)'
        BY OpenStep DEF ReplaceInv, ReplaceTypeOK, OwnsTmp
    <2>5. QED
        BY <2>3, <2>4
<1>3. KnownInv'
    <2>1. SUFFICES ASSUME last # Torn, NEW v \in Writer, InProgress(v)'
                   PROVE  fd'[v] # container
        BY OpenStep DEF KnownInv
    <2>2. CASE v = w
        BY OpenStep, <2>2 DEF ReplaceInv, ReplaceTypeOK
    <2>3. CASE v # w
        <3>1. InProgress(v) /\ fd'[v] = fd[v]
            BY OpenStep, <2>1, <2>3 DEF ReplaceInv, ReplaceTypeOK, InProgress
        <3>2. QED
            BY <2>1, <3>1 DEF ReplaceInv, KnownInv
    <2>4. QED
        BY <2>2, <2>3
<1>4. QED
    BY OpenStep, <1>1, <1>2, <1>3 DEF ReplaceInv

LEMMA WriteInv ==
    ASSUME ReplaceInv, NEW w \in Writer, Write(w)
    PROVE  ReplaceInv'
<1>1. /\ stage' \in [Writer -> {"open", "write", "chmod", "rename", "ok", "error"}]
      /\ stage[w] = "write" /\ stage'[w] = "chmod"
      /\ \A v \in Writer : v # w => stage'[v] = stage[v]
    BY StageMoves DEF ReplaceInv, Write
<1>2. PICK content \in IF data[fd[w]] = Empty THEN {w} ELSE {w, Torn} :
            data' = [data EXCEPT ![fd[w]] = content]
    BY DEF Write
<1>3. UNCHANGED <<container, tmp, used, fd, overlap, last>>
    BY DEF Write
<1>4. \A v \in Writer : InProgress(v)' <=> InProgress(v)
    BY <1>1 DEF InProgress
<1>5. ReplaceTypeOK'
    <2>1. content \in Writer \union {Nothing, Empty, Torn}
        BY <1>2
    <2>2. data' \in [Inode -> Writer \union {Nothing, Empty, Torn}]
        BY <1>2, <2>1 DEF ReplaceInv, ReplaceTypeOK
    <2>3. QED
        BY <1>1, <1>3, <2>2 DEF ReplaceInv, ReplaceTypeOK
<1>6. AloneInv'
    <2>1. SUFFICES ASSUME ~overlap
                   PROVE  /\ \A v, u \in Writer : InProgress(v)' /\ InProgress(u)' => v = u
                          /\ \A v \in Writer : InProgress(v)' => OwnsTmp(v)'
        BY <1>3 DEF AloneInv
    <2>2. OwnsTmp(w) /\ \A v \in Writer : InProgress(v) => v = w
        BY <1>1, <2>1 DEF ReplaceInv, AloneInv, InProgress
    <2>3. \A v \in Writer : InProgress(v)' => v = w
        BY <1>4, <2>2
    <2>4. tmp \in Inode /\ fd[w] = tmp /\ content = w
        BY <1>1, <1>2, <2>2 DEF ReplaceInv, ReplaceTypeOK, OwnsTmp
    <2>5. data'[tmp] = w
        BY <1>2, <2>4 DEF ReplaceInv, ReplaceTypeOK
    <2>6. OwnsTmp(w)'
        BY <1>1, <1>3, <2>2, <2>5 DEF OwnsTmp
    <2>7. QED
        BY <2>3, <2>6
<1>7. KnownInv'
    BY <1>3, <1>4 DEF ReplaceInv, KnownInv
<1>8. QED
    BY <1>3, <1>5, <1>6, <1>7 DEF ReplaceInv

LEMMA ChmodInv ==
    ASSUME ReplaceInv, NEW w \in Writer, Chmod(w)
    PROVE  ReplaceInv'
<1>1. /\ stage' \in [Writer -> {"open", "write", "chmod", "rename", "ok", "error"}]
      /\ stage[w] = "chmod" /\ stage'[w] \in {"rename", "error"}
      /\ \A v \in Writer : v # w => stage'[v] = stage[v]
    BY StageMoves DEF ReplaceInv, Chmod
<1>2. UNCHANGED <<container, tmp, data, used, fd, overlap, last>>
    BY DEF Chmod
<1>3. ReplaceTypeOK'
    BY <1>1, <1>2 DEF ReplaceInv, ReplaceTypeOK
<1>4. \A v \in Writer : InProgress(v)' => InProgress(v)
    BY <1>1 DEF InProgress
<1>5. \A v \in Writer : OwnsTmp(v) => OwnsTmp(v)'
    BY <1>1, <1>2 DEF OwnsTmp
<1>6. AloneInv'
    BY <1>2, <1>4, <1>5 DEF ReplaceInv, AloneInv
<1>7. KnownInv'
    BY <1>2, <1>4 DEF ReplaceInv, KnownInv
<1>8. QED
    BY <1>2, <1>3, <1>6, <1>7 DEF ReplaceInv

\* What the rename does, whether or not the temporary file was there.
LEMMA RenameStep ==
    ASSUME ReplaceInv, NEW w \in Writer, Rename(w)
    PROVE  /\ stage' \in [Writer -> {"open", "write", "chmod", "rename", "ok", "error"}]
           /\ stage[w] = "rename" /\ stage'[w] \in {"ok", "error"}
           /\ \A v \in Writer : v # w => stage'[v] = stage[v]
           /\ stage'[w] = "ok" => /\ tmp # Nothing
                                  /\ container' = tmp
                                  /\ last' = IF overlap THEN Torn ELSE w
           /\ stage'[w] = "error" => UNCHANGED <<container, last>>
           /\ tmp' = Nothing
           /\ UNCHANGED <<data, used, fd, overlap>>
BY StageMoves DEF ReplaceInv, Rename

LEMMA RenameInv ==
    ASSUME ReplaceInv, NEW w \in Writer, Rename(w)
    PROVE  ReplaceInv'
<1>1. ReplaceTypeOK'
    <2>1. container' \in used' /\ last' \in Writer \union {Nothing, Torn}
        BY RenameStep DEF ReplaceInv, ReplaceTypeOK
    <2>2. QED
        BY RenameStep, <2>1 DEF ReplaceInv, ReplaceTypeOK
<1>2. tmp' # container'
    BY RenameStep, <1>1, ReplaceAssumption DEF ReplaceTypeOK
<1>3. \A v \in Writer : InProgress(v)' => v # w /\ InProgress(v)
    BY RenameStep DEF InProgress
<1>4. InProgress(w)
    BY RenameStep DEF InProgress
<1>5. ASSUME ~overlap PROVE \A v \in Writer : ~InProgress(v)'
    BY <1>3, <1>4, <1>5 DEF ReplaceInv, AloneInv
<1>6. AloneInv'
    BY RenameStep, <1>5 DEF AloneInv
<1>7. KnownInv'
    <2>1. CASE stage'[w] = "ok"
        BY RenameStep, <1>5, <2>1 DEF KnownInv
    <2>2. CASE stage'[w] = "error"
        BY RenameStep, <1>3, <2>2 DEF ReplaceInv, KnownInv
    <2>3. QED
        BY RenameStep, <2>1, <2>2
<1>8. QED
    BY <1>1, <1>2, <1>6, <1>7 DEF ReplaceInv

\* A writer that dies leaves its temporary file to the next one.
LEMMA FailInv ==
    ASSUME ReplaceInv, NEW w \in Writer, Fail(w)
    PROVE  ReplaceInv'
<1>1. /\ InProgress(w) /\ tmp' \in {tmp, Nothing}
      /\ stage' = [stage EXCEPT ![w] = "error"]
      /\ UNCHANGED <<container, used, fd, overlap, last>>
    BY DEF Fail
<1>2. ReplaceTypeOK'
    <2>1. data' \in [Inode -> Writer \union {Nothing, Empty, Torn}]
        BY DEF ReplaceInv, ReplaceTypeOK, Fail
    <2>2. QED
        BY <1>1, <2>1 DEF ReplaceInv, ReplaceTypeOK
<1>3. tmp' # container'
    BY <1>1, ReplaceAssumption DEF ReplaceInv, ReplaceTypeOK
<1>4. \A v \in Writer : InProgress(v)' => v # w /\ InProgress(v)
    BY <1>1 DEF ReplaceInv, ReplaceTypeOK, InProgress
<1>5. AloneInv'
    BY <1>1, <1>4 DEF ReplaceInv, AloneInv
<1>6. KnownInv'
    BY <1>1, <1>4 DEF ReplaceInv, KnownInv
<1>7. QED
    BY <1>2, <1>3, <1>5, <1>6 DEF ReplaceInv

LEMMA ReplaceNextInv == ReplaceInv /\ [ReplaceNext]_replaceVars => ReplaceInv'
<1> SUFFICES ASSUME ReplaceInv, [ReplaceNext]_replaceVars PROVE ReplaceInv'
    OBVIOUS
<1>1. CASE UNCHANGED replaceVars
    BY <1>1 DEF replaceVars, ReplaceInv, ReplaceTypeOK, AloneInv, KnownInv, OwnsTmp, InProgress
<1>2. CASE ReplaceNext
    BY <1>2, OpenInv, WriteInv, ChmodInv, RenameInv, FailInv DEF ReplaceNext
<1>3. QED
    BY <1>1, <1>2

THEOREM ReplaceInvariance == ReplaceSpec => []ReplaceInv
BY ReplaceInitInv, ReplaceNextInv, PTL DEF ReplaceSpec

\* Names keep referring to inodes that were given out.
THEOREM ReplaceTypeCorrect == ReplaceSpec => []ReplaceTypeOK
<1>1. ReplaceInv => ReplaceTypeOK
    BY DEF ReplaceInv
<1>2. QED
    BY <1>1, ReplaceInvariance, PTL

-------------------------------------------------------------------------------
(* The steps of AtomicReplace as steps of ReplacedFile.                    *)

Content == IF last = Torn THEN Torn ELSE data[container]
Underway == {w \in Writer : InProgress(w)}
Outcome == [w \in Writer |-> IF stage[w] \in {"ok", "error"} THEN stage[w] ELSE Nothing]

LEMMA BeginStep ==
    ASSUME ReplaceInv, NEW w \in Writer, OpenTmp(w)
    PROVE  File!Begin(w)
<1>1. Content' = Content
    BY OpenStep DEF ReplaceInv, ReplaceTypeOK, Content
<1>2. w \notin Underway /\ Underway' = Underway \union {w}
    BY OpenStep DEF Underway, InProgress
<1>3. Outcome' = Outcome /\ Outcome[w] = Nothing
    BY OpenStep DEF Outcome
<1>4. overlap' = (Underway # {})
    BY OpenStep DEF Underway
<1>5. QED
    BY <1>1, <1>2, <1>3, <1>4 DEF File!Begin, Content, Underway, Outcome

\* A writer that goes on to another file operation.
LEMMA ProgressStep ==
    ASSUME ReplaceInv, NEW w \in Writer, InProgress(w), InProgress(w)',
           \A v \in Writer : v # w => stage'[v] = stage[v],
           Content' = Content, overlap' = overlap
    PROVE  UNCHANGED File!vars
<1>1. Underway' = Underway
    BY DEF Underway, InProgress
<1>2. Outcome' = Outcome
    BY DEF Outcome, InProgress
<1>3. QED
    BY <1>1, <1>2 DEF File!vars, Content, Underway, Outcome

\* One that reports what became of it.
LEMMA EndStep ==
    ASSUME ReplaceInv, NEW w \in Writer, InProgress(w), stage'[w] \in {"ok", "error"},
           \A v \in Writer : v # w => stage'[v] = stage[v],
           overlap' = overlap
    PROVE  File!Ends(w, stage'[w])
<1>1. w \in Underway /\ Underway' = Underway \ {w}
    BY DEF Underway, InProgress
<1>2. Outcome' = [Outcome EXCEPT ![w] = stage'[w]]
    BY DEF Outcome
<1>3. QED
    BY <1>1, <1>2 DEF File!Ends, Underway, Outcome

LEMMA WriteStutters ==
    ASSUME ReplaceInv, NEW w \in Writer, Write(w)
    PROVE  UNCHANGED File!vars
<1>1. /\ stage[w] = "write" /\ stage'[w] = "chmod"
      /\ \A v \in Writer : v # w => stage'[v] = stage[v]
    BY StageMoves DEF ReplaceInv, Write
<1>2. InProgress(w) /\ InProgress(w)'
    BY <1>1 DEF InProgress
<1>3. UNCHANGED <<container, overlap, last>>
    BY DEF Write
<1>4. last # Torn => fd[w] # container
    BY <1>2 DEF ReplaceInv, KnownInv
<1>5. Content' = Content
    BY <1>3, <1>4 DEF ReplaceInv, ReplaceTypeOK, Write, Content
<1>6. QED
    BY <1>1, <1>2, <1>3, <1>5, ProgressStep

LEMMA ChmodStep ==
    ASSUME ReplaceInv, NEW w \in Writer, Chmod(w)
    PROVE  UNCHANGED File!vars \/ File!Fail(w)
<1>1. /\ stage[w] = "chmod" /\ stage'[w] \in {"rename", "error"}
      /\ \A v \in Writer : v # w => stage'[v] = stage[v]
    BY StageMoves DEF ReplaceInv, Chmod
<1>2. Content' = Content /\ overlap' = overlap
    BY DEF Chmod, Content
<1>3. InProgress(w)
    BY <1>1 DEF InProgress
<1>4. CASE stage'[w] = "rename"
    BY <1>1, <1>2, <1>3, <1>4, ProgressStep DEF InProgress
<1>5. CASE stage'[w] = "error"
    BY <1>1, <1>2, <1>3, <1>5, EndStep DEF File!Fail, File!Ends, Content
<1>6. QED
    BY <1>1, <1>4, <1>5

LEMMA RenameImplements ==
    ASSUME ReplaceInv, NEW w \in Writer, Rename(w)
    PROVE  File!Replace(w) \/ File!Fail(w)
<1>1. InProgress(w)
    BY RenameStep DEF InProgress
<1>2. File!Ends(w, stage'[w])
    BY <1>1, RenameStep, EndStep
<1>3. CASE stage'[w] = "ok"
    <2>1. Content' = IF overlap THEN Torn ELSE w
        <3>1. CASE overlap
            BY RenameStep, <1>3, <3>1 DEF Content
        <3>2. CASE ~overlap
            <4>1. data[tmp] = w
                BY RenameStep, <1>1, <3>2 DEF ReplaceInv, AloneInv, OwnsTmp
            <4>2. QED
                BY RenameStep, <1>3, <3>2, <4>1, ReplaceAssumption DEF Content
        <3>3. QED
            BY <3>1, <3>2
    <2>2. QED
        BY <1>2, <1>3, <2>1 DEF File!Replace, File!Ends, Content
<1>4. CASE stage'[w] = "error"
    <2>1. Content' = Content
        BY RenameStep, <1>4 DEF Content
    <2>2. QED
        BY <1>2, <1>4, <2>1 DEF File!Fail, File!Ends, Content
<1>5. QED
    BY RenameStep, <1>3, <1>4

LEMMA FailStep ==
    ASSUME ReplaceInv, NEW w \in Writer, Fail(w)
    PROVE  File!Fail(w)
<1>1. /\ InProgress(w)
      /\ stage'[w] = "error"
      /\ \A v \in Writer : v # w => stage'[v] = stage[v]
      /\ UNCHANGED <<container, overlap, last>>
    BY DEF Fail, ReplaceInv, ReplaceTypeOK
<1>2. last # Torn => fd[w] # container
    BY <1>1 DEF ReplaceInv, KnownInv
<1>3. Content' = Content
    BY <1>1, <1>2 DEF Fail, ReplaceInv, ReplaceTypeOK, Content
<1>4. QED
    BY <1>1, <1>3, EndStep DEF File!Fail, File!Ends, Content

LEMMA ReplaceInitImplements == ReplaceInit => File!Init
<1> SUFFICES ASSUME ReplaceInit PROVE File!Init
    OBVIOUS
<1>1. Content = Nothing
    BY ReplaceAssumption DEF ReplaceInit, Content
<1>2. Underway = {} /\ Outcome = [w \in Writer |-> Nothing]
    BY DEF ReplaceInit, Underway, Outcome, InProgress
<1>3. QED
    BY <1>1, <1>2 DEF File!Init, ReplaceInit, Content, Underway, Outcome

LEMMA ReplaceStepImplements ==
    ReplaceInv /\ [ReplaceNext]_replaceVars => [File!Next]_(File!vars)
<1> SUFFICES ASSUME ReplaceInv, [ReplaceNext]_replaceVars PROVE [File!Next]_(File!vars)
    OBVIOUS
<1>1. CASE UNCHANGED replaceVars
    BY <1>1 DEF replaceVars, File!vars, InProgress
<1>2. ASSUME NEW w \in Writer, OpenTmp(w) \/ Write(w) \/ Chmod(w) \/ Rename(w) \/ Fail(w)
      PROVE  [File!Next]_(File!vars)
    BY <1>2, BeginStep, WriteStutters, ChmodStep, RenameImplements, FailStep DEF File!Next
<1>3. QED
    BY <1>1, <1>2 DEF ReplaceNext

\* For any number of replacements, in any order of their file operations and
\* with any of them dying or failing: seen from outside, the container changes
\* only at the instant a replacement succeeds, to all of what was written, as
\* long as it has met no other.
THEOREM ReplacementIsAtomic == ReplaceSpec => ReplacesAtOnce
<1>1. ReplaceSpec => File!Spec
    BY ReplaceInvariance, ReplaceInitImplements, ReplaceStepImplements, PTL
    DEF ReplaceSpec, File!Spec
<1>2. QED
    BY <1>1 DEF ReplacesAtOnce
===============================================================================
