------------------------------- MODULE Unlock -------------------------------
(***************************************************************************)
(* zz z, zz q and zz w: one command at a time, from its command line to    *)
(* its exit code, with the files it finds and leaves behind.               *)
(*                                                                         *)
(* zz z opens a container (src/src/commands/z_unlock.rs), after fetching   *)
(* it from the account of an e-mail address when given one (z_remote.rs);  *)
(* zz q locks the agent (q_lock.rs) and zz w removes everything (w_wipe.rs)*)
(* A command pauses where it waits for the operator, the server or the     *)
(* agent.  The agent serves one connection at a time, in the order they    *)
(* came: a command waits for its answer until the read times out, and what *)
(* it wrote is carried out all the same, later.  Of its own the agent acts *)
(* between commands.  What happens when it saves or is asked for a session *)
(* during one is the subject of ContainerSync, what becomes of its socket  *)
(* of AgentLifecycle.                                                      *)
(*                                                                         *)
(* Two builds exist: "default", and "remote" with the feature of that name.*)
(***************************************************************************)
EXTENDS CommandLine, ContainerFile

CONSTANTS Commands,     \* the invocations: [argv, env, tty]
          PassFiles,    \* path of a passphrase file -> what is there
          Passphrases,  \* what an operator may type at the prompt
          Salts,        \* fresh salts to choose from
          Tokens,       \* what a provider may hand out on a refresh
          Containers,   \* what may be on disk when it starts
          Accounts,     \* what may be on the server
          MAX_EVENTS,   \* commands and events between them in a behaviour
          Bad           \* a sidecar that does not validate

VARIABLES
    build,      \* "default" or "remote"
    disk,       \* profiles-local.zz and profiles-remote.zz, or NoFile
    hint,       \* the sidecars: an alias; an e-mail address and an alias
    agent,      \* the agent that commands reach and the session it holds
    queue,      \* what was written to it and is not carried out, oldest first:
                \* the session of an Unlock, NoSession for a Lock
    account,    \* the server: alias -> blob
    run,        \* the command in progress
    last,       \* the exit code of the last command, None while one runs
    remembered, \* history: the alias the last local unlock left in the sidecar
    reported,   \* history: what the last answered command said the agent holds,
                \* {} once that may have changed
    events      \* commands started and events between them, for MAX_EVENTS

vars == <<build, disk, hint, agent, queue, account, run, last, remembered, reported, events>>

Slots   == {"local", "remote"}
NoAgent == [up |-> "no"]
NoSession == [slot |-> "none"]
Locked  == [up |-> "yes", session |-> NoSession]
Idle    == [at |-> "idle"]
Torn    == [header |-> "InvalidEnvelope"]
NoFile  == [header |-> "missing"]

Has(slot)    == disk[slot] # NoFile

\* A sidecar is used when it is there, short, printable and well-formed.
Readable(h)  == h \notin {None, Bad}
Hinted(slot) == Readable(hint[slot])

scriptable(inv) == inv.flags.output \in {"json", "quiet"}

Ask == "operator"

\* What a name of a profile is not: the marks used beside names.
Mark == {None, Bad, "USAGE", Ask}

\* A container, of this build or not.
IsFile(envelope) ==
    /\ envelope # NoFile
    /\ envelope.header \notin HeaderErrors /\ envelope.payload.is = "set" =>
          /\ Stored(envelope.payload.set)
          /\ ToSet(Aliases(envelope.payload.set)) \cap Mark = {}

ASSUME UnlockAssumption ==
    /\ "google_drive" \in KnownTags
    /\ \A envelope \in Containers : IsFile(envelope)
    /\ \A blobs \in Accounts : \A alias \in DOMAIN blobs : IsFile(blobs[alias])

\* MAX_EVENTS bounds the commands and the events between them.
Counted == events < MAX_EVENTS /\ events' = events + 1

\* What most steps of a command leave alone.
Quiet == UNCHANGED <<build, disk, hint, agent, queue, account, remembered, reported>>

\* A command ends with its exit code, or goes on.
Exit(code) == run' = Idle /\ last' = code

Goto(r, at, more) ==
    /\ run' = [f \in DOMAIN r \cup DOMAIN more |->
                  IF f = "at" THEN at ELSE IF f \in DOMAIN more THEN more[f] ELSE r[f]]
    /\ last' = None

-------------------------------------------------------------------------------
(***************************************************************************)
(* Which container.                                                        *)
(***************************************************************************)

\* Both containers are there and nothing was asked for: a script must say.
resolve_default_source(inv) ==
    CASE \A s \in Slots : ~Has(s)      -> "PROFILE_MISSING"
      [] Has("local") # Has("remote")  -> CHOOSE s \in Slots : Has(s)
      [] OTHER -> IF scriptable(inv) THEN "USAGE"
                  ELSE IF Hinted("remote") /\ ~Hinted("local") THEN "remote" ELSE "local"

Source(inv) ==
    IF inv.which # None THEN inv.which
    ELSE IF inv.flags.container # None THEN inv.flags.container
    ELSE resolve_default_source(inv)

\* The file is read before the passphrase is asked for.
Enter(r, slot) ==
    CASE slot \notin Slots                        -> Exit(slot)
      [] slot = "remote" /\ build = "default"     -> Exit("NOT_IMPLEMENTED")
      [] OTHER -> IF ~Has(slot) THEN Exit("PROFILE_MISSING")
                  ELSE Goto(r, "ask", [slot |-> slot, envelope |-> disk[slot]])

-------------------------------------------------------------------------------
(***************************************************************************)
(* The passphrase.                                                         *)
(***************************************************************************)

\* The checks in their order; only the two of ownership count as insecure.
read_passphrase_file(f) ==
    IF f = None \/ f.kind # "file" THEN "USAGE"   \* a link is never followed
    ELSE IF f.shared \/ f.foreign THEN "PASSPHRASE_FILE_INSECURE"
    ELSE IF f.content \in {"too large", "nul", "not utf-8", "empty"} THEN "USAGE"
    ELSE f.content

PassphraseErrors == {"USAGE", "PASSPHRASE_FILE_INSECURE"}

\* fault: a script that gives no passphrase file is prompted too.
ScriptsPrompted(r) ==
    IF r.slot = "local" /\ r.inv.flags.passphrase_file # None
    THEN read_passphrase_file(PassFiles[r.inv.flags.passphrase_file]) ELSE None

\* What obtain_passphrase gets without the operator, None when it prompts.
\* The remote container is always prompted for.
obtain_passphrase(r) ==
    IF r.slot = "remote" THEN None
    ELSE IF r.inv.flags.passphrase_file # None
    THEN read_passphrase_file(PassFiles[r.inv.flags.passphrase_file])
    ELSE IF scriptable(r.inv) THEN "USAGE" ELSE None

TakePassphrase ==
    /\ run.at = "ask"
    /\ LET p == IF obtain_passphrase(run) = None /\ ~run.tty THEN "USAGE"
                ELSE obtain_passphrase(run)
       IN  /\ p # None
           /\ IF p \in PassphraseErrors THEN Exit(p)
              ELSE Goto(run, "open", [passphrase |-> p])
    /\ Quiet

TypePassphrase ==
    /\ run.at = "ask" /\ run.tty /\ obtain_passphrase(run) = None
    /\ \E p \in Passphrases : Goto(run, "open", [passphrase |-> p])
    /\ Quiet

-------------------------------------------------------------------------------
(***************************************************************************)
(* The alias.                                                              *)
(***************************************************************************)

\* Without a terminal the picker reads an empty line.
pick_alias(aliases, default, tty) ==
    CASE Len(aliases) = 1            -> aliases[1]
      [] ~tty /\ Len(aliases) # 1    -> IF default = None THEN "USAGE" ELSE default
      [] OTHER                       -> Ask

\* fault: a script that names no alias gets the first one.
FirstAlias(r, aliases, cached) ==
    IF r.slot = "local" /\ scriptable(r.inv)
    THEN IF r.inv.flags.alias \in ToSet(aliases) THEN r.inv.flags.alias
         ELSE aliases[1]
    ELSE pick_alias(aliases, cached, r.tty)

choose_alias(r, aliases, cached) ==
    CASE r.slot = "local" /\ scriptable(r.inv) ->
            (CASE r.inv.flags.alias # None ->
                    IF r.inv.flags.alias \in ToSet(aliases)
                    THEN r.inv.flags.alias ELSE "USAGE"
               [] r.inv.flags.alias = None /\ cached # None -> cached
               [] OTHER -> IF Len(aliases) = 1 THEN aliases[1] ELSE "USAGE")
      [] OTHER -> pick_alias(aliases, cached, r.tty)

\* The sidecar counts when it validates and names a profile of the container.
CachedAlias(slot, set) ==
    LET alias == IF slot = "local" THEN hint.local ELSE hint.remote.alias
    IN  IF Hinted(slot) /\ contains_alias(set, alias) THEN alias ELSE None

\* fault: the agent is handed the key of before the rotation.
OldKek(opened, turned, written) == opened.kek

\* maybe_rotate_kek: a rotation that cannot be written leaves the old key.
maybe_rotate_kek(opened, turned, written) ==
    IF turned.ok /\ written THEN turned.kek ELSE opened.kek

\* A file that opens to opened is rotated, and a profile of it chosen.
Opened(opened, salt, written) ==
    LET turned == rotate_set_if_needed(opened.set, opened.kek, run.passphrase, salt)
        cached == CachedAlias(run.slot, opened.set)
        alias  == choose_alias(run, Aliases(opened.set), cached)
        kek    == maybe_rotate_kek(opened, turned, written)
    IN  /\ disk' = IF turned.ok /\ written
                   THEN [disk EXCEPT ![run.slot] = turned.envelope] ELSE disk
        /\ IF opened.set.profiles = <<>> THEN Exit("DECRYPT_FAILED")
           ELSE IF alias = "USAGE" THEN Exit("USAGE")
           ELSE Goto(run, IF alias = Ask THEN "pick" ELSE "hand",
                     [set |-> opened.set, kek |-> kek, alias |-> alias])

Open ==
    /\ run.at = "open"
    /\ \E opened \in {decrypt_set(run.envelope, run.passphrase)} :
          \/ ~opened.ok /\ Exit("DECRYPT_FAILED") /\ UNCHANGED disk
          \/ /\ opened.ok
             /\ \E salt \in Salts \ {opened.kek.salt}, written \in BOOLEAN :
                   Opened(opened, salt, written)
    /\ UNCHANGED <<build, hint, agent, queue, account, remembered, reported>>

\* A number in range, or Enter for the cached alias; anything else ends it.
Pick ==
    /\ run.at = "pick"
    /\ \/ \E alias \in ToSet(Aliases(run.set)) :
              Goto(run, "hand", [alias |-> alias])
       \/ Exit("USAGE")
    /\ Quiet

-------------------------------------------------------------------------------
(***************************************************************************)
(* The agent.                                                              *)
(***************************************************************************)

\* check_for_stale_agent: an agent of another build of zz is ended first, and
\* what waits for it goes with it.
Evicted(a) == IF a.up = "old" THEN NoAgent ELSE a

Session(r) == [set |-> r.set, kek |-> r.kek, active |-> r.alias, slot |-> r.slot]

\* The request is written: from here on it cannot be taken back.
Send(session) ==
    /\ queue'    = Append(IF Evicted(agent) = NoAgent THEN <<>> ELSE queue, session)
    /\ reported' = {}
    /\ Goto(run, "wait", [asked |-> session])

\* An agent that is not there is started.
HandOver ==
    /\ run.at = "hand"
    /\ agent' = IF Evicted(agent) = NoAgent THEN Locked ELSE agent
    /\ Send(Session(run))
    /\ UNCHANGED <<build, disk, hint, account, remembered>>

\* Not up within two seconds, no connection, or a request not written whole.
CannotHandOver ==
    /\ run.at = "hand"
    /\ agent' \in IF Evicted(agent) = NoAgent THEN {NoAgent, Locked} ELSE {agent}
    /\ queue' = IF Evicted(agent) = NoAgent THEN <<>> ELSE queue
    /\ Exit("AGENT_UNREACHABLE")
    /\ UNCHANGED <<build, disk, hint, account, remembered, reported>>

\* zz q starts no agent and ends none.
LockAgent ==
    /\ run.at = "lock"
    /\ \/ agent = NoAgent /\ Exit("OK") /\ reported' = {NoSession} /\ UNCHANGED queue
       \/ /\ agent # NoAgent
          /\ queue' = Append(queue, NoSession) /\ reported' = {}
          /\ Goto(run, "wait", [asked |-> NoSession])
       \/ /\ agent # NoAgent
          /\ Exit("AGENT_UNREACHABLE") /\ UNCHANGED <<queue, reported>>
    /\ UNCHANGED <<build, disk, hint, agent, account, remembered>>

\* handle_connection takes the connections in their order, and dispatches what
\* it reads there whether or not anyone still waits for the answer.
CarryOut ==
    /\ queue # <<>>
    /\ agent' = [agent EXCEPT !.session = Head(queue)]
    /\ queue' = Tail(queue)
    /\ IF run.at = "wait" /\ queue' = <<>> THEN Goto(run, "answered", <<>>)
       ELSE UNCHANGED <<run, last>>
    /\ UNCHANGED <<build, disk, hint, account, remembered, reported>>

\* Best effort; the remote sidecar is written for a fetched container only,
\* with the alias of the account.
Hints(r) ==
    IF r.slot = "local" THEN [hint EXCEPT !.local = r.alias]
    ELSE IF "email" \in DOMAIN r
    THEN [hint EXCEPT !.remote = [email |-> r.email, alias |-> r.blob]]
    ELSE hint

\* The old text or the new one, never a part.
write_atomic(old, new) == {old, new}

\* What a session is known by; its set changes with every refreshed token.
Identity(session) ==
    IF session = NoSession THEN NoSession
    ELSE [kek |-> session.kek, active |-> session.active]

\* The answer comes in time: Unlocked, or Locked.
Answered ==
    /\ run.at = "answered"
    /\ reported' = {Identity(run.asked)}
    /\ IF run.asked = NoSession THEN UNCHANGED <<hint, remembered>>
       ELSE /\ hint' \in write_atomic(hint, Hints(run))
            /\ remembered' = IF run.slot # "local" THEN remembered
                             ELSE IF hint'.local = run.alias THEN run.alias ELSE None
    /\ Exit("OK")
    /\ UNCHANGED <<build, disk, agent, queue, account>>

\* fault: to zz q an agent that does not answer is as good as none.
SilentIsLocked ==
    /\ run.at \in {"wait", "answered"}
    /\ IF run.asked = NoSession THEN Exit("OK") /\ reported' = {NoSession}
       ELSE Exit("AGENT_UNREACHABLE") /\ UNCHANGED reported
    /\ UNCHANGED <<build, disk, hint, agent, queue, account, remembered>>

\* The read times out after five seconds, the request carried out or not.
TimedOut ==
    /\ run.at \in {"wait", "answered"}
    /\ Exit("AGENT_UNREACHABLE")
    /\ Quiet

-------------------------------------------------------------------------------
(***************************************************************************)
(* The account: zz z <email>.                                              *)
(***************************************************************************)

\* What the server answers to a password, a code or a request; None is
\* an error, which everything but a 2xx is.
login           == {"list", "totp", None}     \* at once, or with a code
login_totp      == {"list", None}
list_profiles   == {DOMAIN account, None}
get_blob(alias) == {account[alias], None}

TypePassword ==
    /\ run.at = "password"
    /\ IF run.tty THEN Goto(run, "login", <<>>) ELSE Exit("USAGE")
    /\ Quiet

Login ==
    /\ run.at = "login"
    /\ \E answer \in login :
          IF answer = None THEN Exit("PROVIDER_ERROR") ELSE Goto(run, answer, <<>>)
    /\ Quiet

TypeCode ==
    /\ run.at = "totp"
    /\ \E answer \in login_totp :
          IF answer = None THEN Exit("PROVIDER_ERROR") ELSE Goto(run, answer, <<>>)
    /\ Quiet

\* One alias is taken without asking.
ListAliases ==
    /\ run.at = "list"
    /\ \E aliases \in list_profiles :
          IF aliases = None THEN Exit("PROVIDER_ERROR")
          ELSE IF aliases = {} THEN Exit("PROFILE_MISSING")
          ELSE IF Cardinality(aliases) = 1
          THEN \E alias \in aliases : Goto(run, "fetch", [blob |-> alias])
          ELSE Goto(run, "account", <<>>)
    /\ Quiet

PickBlob ==
    /\ run.at = "account"
    /\ \/ \E a \in DOMAIN account : Goto(run, "fetch", [blob |-> a])
       \/ Exit("USAGE")
    /\ Quiet

\* The blob replaces the container in place; a failed write leaves it torn.
\* Then as zz z remote.
Fetch ==
    /\ run.at = "fetch"
    /\ \/ \E blob \in get_blob(run.blob) :
             IF blob = None THEN Exit("PROVIDER_ERROR") /\ UNCHANGED disk
             ELSE /\ disk' = [disk EXCEPT !.remote = blob]
                  /\ Goto(run, "ask", [slot |-> "remote", envelope |-> blob])
       \/ /\ disk' \in {disk, [disk EXCEPT !.remote = Torn]}
          /\ Exit("PROFILE_MISSING")
    /\ UNCHANGED <<build, hint, agent, queue, account, remembered, reported>>

-------------------------------------------------------------------------------
(***************************************************************************)
(* zz w.                                                                   *)
(***************************************************************************)

\* --yes, or ZZ_DROP_CONFIRM_WIPE=yes.
Confirmed == run.inv.flags.yes \/ run.confirm

RefuseWipe ==
    /\ run.at = "wipe" /\ ~Confirmed
    /\ \/ scriptable(run.inv) /\ Exit("USAGE")
       \/ ~scriptable(run.inv) /\ ~run.tty /\ Exit("WIPE_CANCELLED")
    /\ Quiet

\* The operator types the word, or something else.
ConfirmWipe ==
    /\ run.at = "wipe" /\ ~Confirmed /\ ~scriptable(run.inv) /\ run.tty
    /\ \/ Goto(run, "wipe", [confirm |-> TRUE])
       \/ Exit("WIPE_CANCELLED")
    /\ Quiet

\* The sidecars are not among the files removed.  An agent that is busy may
\* outlive the Exit it is sent; without its socket no command reaches it again.
Wipe ==
    /\ run.at = "wipe" /\ Confirmed
    /\ disk' = [s \in Slots |-> NoFile]
    /\ agent' = NoAgent /\ queue' = <<>>
    /\ remembered' = None /\ reported' = {}
    /\ \E code \in {"OK", "USAGE"} : Exit(code)   \* the runtime directory stays
    /\ UNCHANGED <<build, hint, account>>

-------------------------------------------------------------------------------
(***************************************************************************)
(* A command starts.  The account needs ZZ_SERVER_URL and an address.      *)
(***************************************************************************)

EnterRemote(r, env) ==
    CASE build = "default"                    -> Exit("NOT_IMPLEMENTED")
      [] build = "remote" /\ ~env.ZZ_SERVER_URL -> Exit("USAGE")
      [] OTHER -> IF "email" \in DOMAIN r.inv
                  THEN Goto(r, "password", [email |-> r.inv.email])
                  ELSE Exit("NOT_IMPLEMENTED")

Start(c) ==
    /\ run = Idle /\ Counted
    /\ LET inv == Invocation(c.argv, c.env)
           r   == [at |-> "start", inv |-> inv, tty |-> c.tty,
                   confirm |-> c.env.ZZ_DROP_CONFIRM_WIPE]
       IN  CASE inv.verb = "ContainerUnlock" -> Enter(r, Source(inv))
             [] inv.verb = "RemoteUnlock"    -> EnterRemote(r, c.env)
             [] inv.verb = "Lock"            -> Goto(r, "lock", <<>>)
             [] inv.verb = "Wipe"            -> Goto(r, "wipe", <<>>)
             [] OTHER                        -> Exit("USAGE")
    /\ Quiet

-------------------------------------------------------------------------------
(***************************************************************************)
(* Between commands: the agent, and whoever edits the sidecars.            *)
(***************************************************************************)

\* A refreshed token of the active profile.
WithToken(e, token) ==
    IF e.tag = "google_drive" THEN [e EXCEPT !.body = token] ELSE e

Refreshed(session, token) ==
    LET ps == session.set.profiles IN
    [session.set EXCEPT !.profiles = [i \in DOMAIN ps |->
        IF ps[i].alias # session.active THEN ps[i]
        ELSE Rewritten(ps[i], [e \in ToSet(ps[i].providers) |-> WithToken(e, token)])]]

\* A session on its way whose container was replaced: it comes from no file.
Outdated(x) == IF x.slot = "local" THEN [x EXCEPT !.slot = "gone"] ELSE x

\* persist_now: to the local container, whichever one was unlocked.
AgentSaves ==
    /\ run = Idle /\ Counted /\ agent # NoAgent /\ agent.session # NoSession
    /\ \E token \in Tokens :
          LET set    == Refreshed(agent.session, token)
              sealed == encrypt_set_with_kek(set, agent.session.kek)
          IN  /\ agent' = [agent EXCEPT !.session.set = set]
              /\ sealed.ok
              /\ disk' \in {disk, [disk EXCEPT !.local = sealed.envelope]}
    /\ IF agent.session.slot = "local" THEN UNCHANGED <<queue, remembered>>
       ELSE /\ queue' = IF disk' = disk THEN queue
                        ELSE [i \in DOMAIN queue |-> Outdated(queue[i])]
            /\ remembered' = None
    /\ UNCHANGED <<build, hint, account, run, last, reported>>

\* It forgets its session, exits, or outlives an upgrade of the binary.
AgentChanges ==
    /\ run = Idle /\ Counted /\ agent # NoAgent
    /\ agent' \in {NoAgent, [agent EXCEPT !.session = NoSession],
                   [agent EXCEPT !.up = "old"]}
    /\ queue' = IF agent' = NoAgent THEN <<>> ELSE queue
    /\ reported' = {}
    /\ UNCHANGED <<build, disk, hint, account, run, last, remembered>>

HintLost ==
    /\ run = Idle /\ Counted
    /\ \E s \in Slots :
          /\ hint' = [hint EXCEPT ![s] = Bad]
          /\ remembered' = IF s = "local" THEN None ELSE remembered
    /\ UNCHANGED <<build, disk, agent, queue, account, run, last, reported>>

-------------------------------------------------------------------------------

Init ==
    /\ build \in {"default", "remote"}
    /\ disk \in [local : Containers \cup {NoFile}, remote : Containers \cup {NoFile}]
    /\ hint = [s \in Slots |-> None]
    /\ agent = NoAgent /\ queue = <<>>
    /\ account \in Accounts
    /\ run = Idle
    /\ last = "OK"
    /\ remembered = None /\ reported = {NoSession}
    /\ events = 0

\* The steps that wait for nobody.
Program ==
    \/ TakePassphrase \/ Open
    \/ HandOver \/ CannotHandOver \/ LockAgent \/ Answered \/ TimedOut
    \/ Login \/ ListAliases \/ Fetch
    \/ RefuseWipe \/ Wipe
    \/ run # Idle /\ ~run.tty /\ (TypePassword \/ TypeCode \/ PickBlob)

Operator ==
    \/ TypePassphrase \/ Pick \/ TypePassword \/ TypeCode \/ PickBlob
    \/ ConfirmWipe

Next ==
    \/ (Program \/ Operator \/ CarryOut) /\ UNCHANGED events
    \/ (\E c \in Commands : Start(c)) \/ AgentSaves \/ AgentChanges \/ HintLost

Spec == Init /\ [][Next]_vars /\ WF_vars(Program /\ UNCHANGED events)

-------------------------------------------------------------------------------
(***************************************************************************)
(* Properties.                                                             *)
(***************************************************************************)

Done(code) == run # Idle /\ run' = Idle /\ last' = code

\* The key and the set the agent is handed are those of the file as it is on
\* disk at that moment, also when the unlock has just rotated the file to new
\* parameters and a new salt, or has tried to and failed.
HandedKeyOpens ==
    [][Done("OK") /\ run.at = "answered" /\ run.asked # NoSession =>
          LET session == agent'.session
              again   == decrypt_set(disk'[session.slot], run.passphrase)
          IN  again.ok /\ again.kek = session.kek /\ again.set = session.set]_vars

Foreign(envelope) ==
    {e \in Entries(envelope.payload.set) : e.tag \notin KnownTags}

\* A container this build rewrites, by a rotation or from the session that was
\* opened from it, still holds every entry of a newer build under its own tag
\* and opens with the passphrase it had.
RewriteKeepsEntries ==
    [][\A s \in Slots :
          /\ disk'[s] \notin {NoFile, disk[s]}
          /\ \/ run.at = "open"
             \/ run = Idle /\ agent.session.slot = s
          => /\ disk[s] # NoFile
             /\ Foreign(disk[s]) = Foreign(disk'[s])
             /\ disk'[s].key.passphrase = disk[s].key.passphrase
             /\ decrypt_set(disk'[s], disk'[s].key.passphrase).ok]_vars

\* A script that names no alias reactivates the profile the last answered unlock
\* of the local container activated, whether an operator picked it or a script
\* did, as long as nobody touches container and sidecar in between.
SameAgain ==
    [][/\ Done("OK") /\ run.at = "answered" /\ run.asked # NoSession /\ run.slot = "local"
       /\ scriptable(run.inv) /\ run.inv.flags.alias = None
       /\ remembered # None
       => agent'.session.active = remembered]_vars

\* What the agent that commands reach holds.
Held == IF agent = NoAgent THEN NoSession ELSE Identity(agent.session)

\* What the last answered command reported, a session or none, is what the agent
\* holds until a later request is written to it or it forgets, ends or is
\* upgraded past: a command that fails before it writes costs nobody a session,
\* and no request that an earlier command gave up waiting for comes after.  Of a
\* request that was written and not answered in time nothing is claimed.
ReportedHolds == reported \subseteq {Held}

\* A command in a scriptable mode ends without anyone to answer it: always in
\* the build that is shipped, and without a terminal in the other one.
ScriptsEnd ==
    [](/\ run # Idle /\ scriptable(run.inv)
       /\ build = "default" \/ ~run.tty
       => <>(run = Idle))
===============================================================================
