# A verification project for zz-drop

TLA+ models of `zz-drop` (a CLI that moves files to a cloud account, an agent that
keeps the decrypted account profiles in RAM, and a setup TUI), the TLC runs that
check them, and theorems proved with TLAPS.

## 1. The system

| Part | State | Operations | Talks to |
|---|---|---|---|
| Agent state `src/agent/state.rs`, `list_cache.rs`, `remote_client.rs` | profile set, key, active alias, start of session, TTL, last activity, cached listings, warm provider client | one per request; expiry | container file, provider |
| Agent server `src/agent/server.rs` | listening socket, the one connection being served, exit flag | accept loop, `handle_connection`, `dispatch` | clients over a Unix socket |
| Agent clients `src/agent/client.rs`, `tui/src/agent_kill.rs` | a connection, timeouts of 5 s and 2 s | connect + token, request | the agent |
| Runtime files `src/agent/lock.rs`, `security.rs` | `agent.sock`, `agent.token`, `agent.lock` | create, remove, evict an agent of another build | agents and commands |
| Commands `src/commands/` | a transfer's batch, its exit code | `zz z` unlock, `zz q` lock, `zz w` wipe, `zz s/sa/d/da` transfers, `zz f` doctor | agent, provider, container |
| Container `core/src/profile/`, `core/src/crypto/` | the encrypted file with every inner profile | seal, open, rotate the key, replace atomically | agent, `zz z`, TUI |
| Setup TUI `tui/src/` | screens, the walk, request flags, login flows being polled, the unlocked set and key | configure, add and delete profiles, upload test, push, sign in, wipe | container, agent, providers, server |
| Providers `core/src/providers/` | OAuth tokens, cached folder ids | upload with collision policy, download, list, remove, token refresh, device and paste-code flows | HTTP |
| Completion `src/sacs/`, installer `core/src/completions/` | none; rc files and scripts | candidates for a TAB; install and remove the shell block | agent (`ListRemote`) |
| CLI grammar `src/cli/`, `src/runtime.rs`, output `src/output.rs` | global flags | parse, print | — |
| Remote unlock `core/src/api/`, `commands/z_remote.rs` | none | HTTP calls, behind the feature `remote`, which is off | a server |
| Sidecars `core/src/sidecar.rs` and others | last alias, last account | read with checks, replace | `zz z` |

What is hard here. Nothing but the agent's queue of connections orders the
processes: the runtime files and the container are read, written and removed
without a lock. The agent is single-threaded and blocks on one connection. Clients
give up and leave requests behind. Clocks end sessions, listings and tokens in the
middle of things. A process may die between any two steps. The TUI keeps in RAM
what it once read and steers its loop by flags that keys raise. Remote folders
change between two requests of one call.

What makes each part correct:

- *agent state*: nothing is left after a lock; what is cached belongs to the
  active profile; RAM and file agree unless somebody else wrote;
- *agent server*: every connection is served, sessions expire, Exit ends it;
- *lifecycle*: no stale socket, no agent that stays, secrets only to an agent of
  the same build;
- *container*: no update is lost, no torn file, no entry of a newer build dropped;
- *unlocking*: the agent gets a key that opens the file, scripts end and get the
  profile they were given before;
- *transfers*: the exit code tells what happened, a file that must not be
  overwritten is not, later listings show what was uploaded;
- *providers*: a listing is whole, a path names what is taken, no login is lost;
- *TUI*: answers reach the screen that asked, no screen waits for nothing, only
  complete profiles are stored and none is dropped unasked;
- *completion and command line*: words are read the same way by the parser and by
  the completer; an rc file is left as it was outside the block.

## 2. The modules

| Module | What it models |
|---|---|
| `AgentState` | the agent's data; one action per request, from `touch()` to the last assignment, the write of the container included |
| `AgentServer` (EXTENDS `AgentState`) | the accept loop, connections, clients that come and go; requests are `AgentState` actions |
| `AgentLifecycle` | several agents and commands on socket, token and lock file, one file operation per step |
| `ContainerSync` | who overwrites whom: transfers, `zz z`, TUI, wipe and the agent on one container |
| `AtomicReplace` | how the container is replaced: names, inodes, crashes, several writers |
| `ReplacedFile` | what a replacement promises: it takes effect at one instant or not at all; implemented by `AtomicReplace` |
| `ContainerFile` | sealing and opening a container: envelope, parameters, entries of unknown providers, rotation (operators) |
| `Unlock` (EXTENDS `CommandLine`, `ContainerFile`) | `zz z`, `zz q`, `zz w` from argument list to exit code, with sidecars, prompts and the server |
| `RemoteUpload` | `upload_to` of the four provider clients, several uploads of one name into one folder, one HTTP request per step |
| `RemoteDirectory` | what an upload promises: it takes effect at one instant or not at all; implemented by `RemoteUpload` |
| `ProviderClient` | the four clients below `RemoteFs`: tokens, cached root folder, paths, pages, downloads, removals, folders |
| `CommandLine` | global flags, environment, verbs, words (operators) |
| `Completion` (EXTENDS `CommandLine`) | client-side states, contexts, candidates, footer (operators) |
| `RemoteListing` (EXTENDS `Completion`) | the agent's list cache and the reply a TAB gets |
| `Transfers` (EXTENDS `RemoteListing`) | uploads and downloads from the command line to the exit code |
| `SetupWizard` | the configuration walk of the TUI with its login flows |
| `ContainerSession` | the containers in the TUI: unlock, pick, manage, add, delete, first save, wipe, push, sign in |
| `Installer` | completion scripts, aliases and rc blocks (operators) |
| `*_proofs` | the theorems about the module of that name; `Agent_proofs` is about `AgentState` and `AgentServer`, `ContainerSync_proofs` also about `AtomicReplace`, `Transfers_proofs` also about `RemoteListing`, `Commands_proofs` about `AgentLifecycle` and `Unlock` |
| `MC*` | values of constants for TLC, and checks of pure operators as `ASSUME`s that TLC evaluates |

`PROJECT.json` maps every definition to the lines it stands for. Definitions whose
comment starts with `fault:` are not part of a model: each is the mutated form of
the definition that follows it, used to show that a property would notice.

**AgentState.** `Inner` becomes the variables `profile_set` … `ttl`; `Option` is a
value or `None`. `Instant`s are ages: an age grows with `Tick` and stops two ticks
past the limit it is compared with, which loses nothing because it is only ever
compared with that limit. Two history variables, `foreign` and `unsaved`, remember
that another process wrote the file or that a write failed. A cached listing is
represented by whose it is, its age and whether it was cached before the last
Unlock. The reply is a parameter of each action so that `AgentServer` can send it.
A container is a set of profiles with distinct aliases and distinct ids (the code
that adds profiles checks aliases, and ids are made from the time of creation), and
`UpdateProfile` is enumerated for profiles that keep them distinct: the one caller
sends back the profile it was given.

**AgentServer.** A connection is a client end (`peer`), a buffered request
(`inbox`), a place in the `backlog` and possibly the turn (`serving`). `Close` is
anything that ends a client: done, timed out, crashed. Closing does not take back
what was written. The reply fails if the peer is gone (`Answer`), which ends the
turn before the exit flag is considered. `fetched` remembers the connection that was
given the profile and is still served: that is a transfer at work, which comes back
with the token it has refreshed (`FetchedIsHeld`). Token and uid checks succeed here; the token is in
`AgentLifecycle`.

**AgentLifecycle.** A file is the agent that wrote it. `Boot … WriteLock` are the
steps of `run()` before its loop, `RemoveSocket … RemoveLock` those after it. The
loop is abstracted to `Serve`, `AutoLock` and `LeaveLoop`, which may happen whenever
their condition may be reached, since clocks are left out. Each command is a little
program over `cpc`. The binary is assumed not to be replaced while an agent boots.

**ContainerSync.** Contents are the token of each profile, numbered as issued, so
that "older" and "newer" are visible. `queue` is the agent's backlog with the
requests in it.

**AtomicReplace.** `container` and `tmp` are names bound to inodes, `fd` what each
writer has open; contents are who wrote them, `Empty` once truncated, or `Torn`. The
refinement mapping shows `ReplacedFile` the content of the inode that `container`
names, who is under way, and what each reported.

**ContainerFile and Unlock.** Cryptography is ideal: a key is what it was derived
from. An envelope has a header that is refused or not, parameters, a salt, the key
it was sealed with and a payload; entries under tags this build does not know are
carried through RAM as in `shield_unknown_providers`. `Unlock` runs one command at a
time; it stops only where the operator, the server or the agent is asked. A request
is written (`HandOver`, `LockAgent`) and from then on is in `queue`, whoever waits
for it: the agent takes it when its turn comes (`CarryOut`), also long after the
command has given up on the answer and ended in AGENT_UNREACHABLE (`TimedOut`). That
it is busy meanwhile, with a transfer or another command, is what lets requests pile
up. `reported` is what the last answered command said the agent holds, until that may
have changed (`ReportedHolds`). Between
commands the agent saves a refreshed token, locks, ends or outlives an upgrade, and
sidecars get damaged. The operator may type any passphrase, number or nothing.
`agent` is the one commands reach: an agent that outlives the Exit of a wipe has no
socket any more (`AgentLifecycle`).

**RemoteUpload.** One behaviour uses one `provider`, chosen by `Init`. An upload
ensures the folder (`EnsureFolder`, or `FindFolder` and `CreateFolder`), reads the
local file, looks whether the name is taken (`Check`) and writes (`Put`); which of
these steps a client makes, and what its service does with a name that is taken
(`Replaced`, `Refused`), is where the four differ. The services themselves are
modelled as the clients rely on them: Nextcloud replaces, Google Drive allows two
files and two folders of one name, OneDrive and Dropbox refuse when told to. `zz`
always passes the policy rename (`collision_policy_for`), other users of the client
library pass any. Uploads run at once when they come from several machines; those
of one machine are serialised by the agent's connection. One folder level stands
for a path, which is walked in the same way at each level; files are never deleted.

**RemoteDirectory.** `Store` puts a file under a name at one instant. What it may
replace is the promise: anything when told to overwrite; otherwise nothing that was
there when the upload began, on Nextcloud, and nothing at all on the others. The
refinement maps `provider` to the three kinds of service and forgets ids.

**ProviderClient.** A call is a chain of requests (`begin`, `root`, `walk`, `leaf`,
`get`, `remove`, `page` …); before most of them `ensure_fresh_token` looks at the
clock and may ask for a new token. Entries have ids, and other devices add, remove
and rename between any two requests. A command builds its client from the
session's profile and reports what changed; the agent's own client for completion
lives on and reports nothing. Four history variables remember what the path named
during the call. The service keeps accepting a refresh token after it handed out
another (Google and Dropbox never rotate them, Microsoft keeps the old ones valid
for their lifetime): this is an assumption about the services.

**CommandLine, Completion, RemoteListing, Transfers.** An argument is a token, not
its characters: a word, a verb with its letters, an atom, a flag. `RemoteListing`
holds the remote folder, the cache with ages in ticks, and the trees of the last
TTL as a ghost. A `job` of `Transfers` is the work left and what came of the rest;
the agent serves one connection, so no TAB and no session change falls into a job,
but time and other devices do. Each item may fail in every way the code
distinguishes, folders left behind and replies lost included. A name is a stem from
`Stem` with its extensions, so that packing and unpacking lead to other names: a
`.zst` is unpacked over the file of the name without it, or cut short, and a bundle
where nothing has its name, perhaps in part. A fetch never writes over a local
folder. A name with a dot in front hides what lies below it (`Visible`).

**SetupWizard and ContainerSession.** The TUI is one thread: a key handler edits
the `App` and raises flags; the loop serves flags first, then polls, then reads a
key. One action is a key on a screen, or the service of one flag with both of its
outcomes. The two modules share the border: the walk is one screen in
`ContainerSession`, containers are three screens in `SetupWizard`. `Builds` selects
the build with the feature `remote`, where the push flow is compiled in.

**Installer.** rc files are sequences of tokens (newline, markers, names of zsh
frameworks, words); one script, one alias, one rc file. `install` and `uninstall`
are functions from home to home, their failures sets of homes.

## 3. The runs

| Run | Question | Bounds and why they are enough |
|---|---|---|
| `agent_state` | do all requests together keep RAM, caches and file consistent? | two aliases, two ids, two credentials: every "same" and "other" case; limits of 0–1 ticks, both sides of each comparison |
| `agent_server` | does the loop serve everybody, keep the session of a transfer at work, end sessions and end itself when it should? | two connections, one that controls the session and one that uses it: one served, one waiting with a request written; the idle limit is below the TTL, as 300 s is below 600 s |
| `agent_lifecycle` | what do two commands and three agents do to the files, and does everything come to rest? | two commands interleave at every pair of steps; one agent of an old build and one new agent per command; crashes and slow answers |
| `container_sync` | do pushes repair every interleaving of writers? | two transfers, one `zz z`, one TUI, one wipe, two tokens, one edit |
| `atomic_replace` | does the container change at one instant, whole, whatever dies or fails? | three writers, four inodes (one per writer and the original): two that meet, and one that comes after |
| `remote_upload` | do uploads of one name keep their promises on every service? | two uploads with any policies and a file that may be there before; one renaming, so that the candidates run out; two seconds of clock; failed requests and lost replies |
| `unlock` | what do `zz z`, `zz q` and `zz w` leave behind in each mode, and does the agent hold what they report? | commands of every form; containers at and below the policy, with an entry of a newer build; an account with none, one and three blobs, a legacy one and one with absurd parameters among them; three commands and events in a row: an unlock, something in between, and an unlock again; two requests left behind by commands that gave up, and a third command that is answered |
| `transfers` | is the exit code honest, does every upload keep its copy, does a TAB see it? | eleven command lines, one of every form, some with several words, a pattern and a name that is fetched and unpacked over (`zz dx d/* a.zst a`); a remote folder with a file, the same one packed, and a folder with a file and a dotfile; a local folder, and a name that collides twice; a listing cap of 2 below what the folder may hold; one command, one change by another device; ages up to the TTL |
| `provider_client` | what do chains of requests end in while tokens expire and others change the folder? | one command and the client the agent keeps; pages of one entry; a token that lives for three ticks with a skew of two, an answer under way for one; in all three ticks, changes or calls beyond the first. Once others have changed something, calls do not overlap (`Start`, `OthersChange`): two calls that race are covered with an otherwise quiet folder |
| `setup_wizard` | do answers reach the screen that asked, are only complete settings stored? | one device-flow provider, one pasted-code provider and Nextcloud: the second device-flow provider has the same code; three ticks of lifetime, intervals of one and two |
| `container_session` | does what the TUI remembers fit the files when a profile is written? | up to four profiles in the default build, three in the other: one of the file, one of the remote container, and one or two made in the walk; one torn file at a time |
| `added_profile_kept` | (expects a violation) is a profile added in the TUI safe from token pushes? | one transfer, one TUI, one edit |

All of the variables a property mentions change in these runs: each property has a
mutant of the code that violates it under the same bounds.

Deadlock is checked in `agent_state`, where time can always pass. The other models
stop when their processes have ended or their bounds are used up.

The operators are compared with what they promise by assumptions that TLC evaluates
with the run of the same MC module: `MCTransfers` (flags may stand anywhere, every
word is used once, letters are a set, exclusions; a completed word is read as what
it was offered as; the footer counts what was cut off; verbs offered are verbs
known), over all lines of up to three arguments; `MCSetupWizard` (an install
settles, keeps the rest of the rc file, is repaired by the next after any failure,
and the check agrees with it), over rc files with and without block, own lines,
final newline and stray end markers; `MCProviderClient` (a PROPFIND answer is read
back entry by entry).

### Statements of the documentation that do not hold

One is a run that ends in a counterexample, `added_profile_kept`: a transfer that
outlasts the session pushes its token, which writes the agent's old set over the
file; the TUI's push, queued behind it, is refused because the session has expired
by then. `PROJECT.json` quotes the statement.

The others were met while modelling. What a property says is worded so that it
holds of the code; where it excepts one of these cases, its comment says so.

*Agent and its files*

- `Unlock` does not drop the completion caches (`state.rs:94`; docs/agent.md:141–143):
  a second `zz z` with another profile is served the listings of the first one for
  up to a minute. `CachesFollowActive` says what is left.
- After a crash the socket file is still there; `zz z` tests only for the file
  (`z_unlock.rs:520`), starts no agent and fails, every time (docs/agent.md:93).
- The TTL is looked at between connections only, and a transfer is one connection:
  secrets outlive the TTL during a long transfer (`server.rs:128`).
- A completion that misses the list cache renews the session, which docs/agent.md
  says only `GetProfile` and unlock do (`state.rs:408`).
- `wait_for_socket` returns when the socket exists, which is before the token is
  written, so a lone `zz z` may fail and has to be repeated (`z_unlock.rs:639`).
- The reply to `Exit` is written before the flag is raised, and the TUI's wipe does
  not wait for it: an Exit may be dispatched and the agent stays (`server.rs:219`).
- A `zz z` or `zz q` that the agent does not answer within 5 s ends in
  AGENT_UNREACHABLE, and what it wrote is carried out all the same when the agent gets
  to it (`client.rs:72`, `server.rs:209`): a session is then replaced or locked by a
  command that reported failure. `ReportedHolds` claims nothing of such a request but
  that it is not carried out after a later one was answered.
- Of two `zz z` at once one may unlock an agent whose socket the other agent
  removes; `zz q`, seeing no socket, then reports success (`q_lock.rs:10`).
- The agent writes to the local container whatever was unlocked; in the remote
  build a session of the remote container overwrites the local one
  (`server.rs:117`, `state.rs:38`).

*Container*

- All writers share one temporary name: two at once can leave a torn container
  (`rotation.rs:56`, comment at 53–55).
- A transfer in progress writes the container again after `zz w` removed it
  (docs/agent.md:95–98). `zz w` leaves both sidecars (`w_wipe.rs:40–44`;
  docs/security.md:56), and a file it cannot remove stays with exit code 0; the
  TUI's wipe says so neither (`cli.rs:1079–1087`).
- The first save, the rewrite before a push, the mirror and the download write in
  place (`format.rs:557–578`, `app.rs:1083`): cut short they leave a torn file.
  After a restart it counts as a container, no passphrase opens it, and Configure
  leads to the unlock screen only; `zz w` is the way out.
- A rotation lowers a parameter that was above the policy (`policy.rs:12–14`). If
  the hand-over after a rotation fails, an older session's next save writes the
  container back under the weaker key. Unknown fields inside known entries are
  dropped on re-encryption (unknown entries are kept: `RewriteKeepsEntries`).

*TUI*

- A wipe leaves the set and the key in RAM (`app.rs:158–161` says "Cleared on
  lock/wipe/escape", `apply_wipe_done` at 1911 does not): set-up after it, given up
  on the alias screen, leads to the picker, and adding a profile there writes the
  wiped profiles back. `ProfilesKept` ends at a wipe.
- Adding and deleting always write the local container, also when the remote one is
  open (`cli.rs:784–787`): the profile is not in the file the interface shows, and
  on the manage screen of the remote build the active profile may not be in the set.
- `wizard_mode` AddInnerProfile, `last_test_outcome`, `alias_override` and
  `post_login_target` survive the walk that set them. The passphrase stage Saved
  survives a failed push, CreateRemote a later re-push, which then mirrors the local
  container over the remote one. A retry after a failed rewrite pushes the blob
  that was not rewritten.
- In the default build the Account screen, reached from the saved passphrase, can
  only be left by ending the program. The Nextcloud login poll has no expiry. A
  probe whose deletion fails leaves its marker in the remote folder.
- Adding a second Dropbox profile uses the folder "zz-drop" where the first one has
  none. `push_blob` is said to retry on a version conflict (`tui/src/api_client.rs:62–65`)
  and does not.

*Transfers, listings, completion*

- The collision policy is asked for by the set-up, shown and stored, but
  `collision_policy_for` returns rename for every profile (`upload.rs:438`;
  docs/setup.md:67–68).
- An upload drops the listings of its destination, not those of the folders a
  recursive upload made below it, and none when part of the batch failed
  (`mod.rs:341`). Keys that are spelled differently are not dropped either.
- `zz d a/x b/x` writes both to `x`. A dotfile that is skipped and a file that is not
  decompressed are reported in JSON as failed, with exit code 0
  (docs/scriptable.md:264). `zz dx a a.zst` unpacks `a.zst` over the `a` it has just
  fetched, and `zz d 'd/*'` leaves out the dotfiles the pattern matches; both end in
  ok. `ExitIsHonest` says what is owed then (`Rivals`, `Wanted`). A staged file that cannot be written stays behind.
- At `docs/` the completer asks for the parent folder (`complete.rs:710–719`;
  comments at 450–453, docs/sacs.md:398). For the verbless form it offers remote
  folders as destinations, and the parser reads every word as a source. `truncated`
  is dropped on the way to the shell. A TAB on Google Drive or OneDrive creates the
  root folder.
- `runtime.rs` and `main.rs` say that flags are taken from the front only; they are
  taken anywhere. `FlagError` says that `ZZ_CONTAINER` conflicts with a flag; the
  flag wins.

*Unlocking in scripts, remote unlock*

- A passphrase file that is no regular file, too large, unreadable or holds a NUL
  ends in exit code 2, not 11 (docs/scriptable.md:342–351).
- The remote unlock prompts in scriptable mode (docs/scriptable.md:391–393) and
  stores the server's alias as the inner alias; with several aliases the picker
  still asks (`z_unlock.rs:554`). A failed unlock leaves the downloaded container
  beside the old sidecar.

*Providers*

- Nextcloud takes 405 and 409 of MKCOL for "is there already" and never creates the
  root folder itself (`mod.rs:151`); Dropbox takes any `path/conflict` for that
  (`rest.rs:151–157`), a file of the name included.
- A cached root folder id is never checked again. Two Drive folders of one name
  hide each other's files. Further pages of a listing are asked for without
  `ensure_fresh_token` and may end in 401. A PROPFIND is sent twice.

*Installer*

- An rc file with a start marker but no end marker gets a second block, and the next
  install or uninstall deletes what stands between the two (`rc_block.rs:142–148`;
  comment at 3–6). The framework is found in the block's own text after its user
  removed it. A symlinked rc file becomes a plain file. `status` ignores the alias.
  `--check-completions` takes `--uninstall` and ignores it.
  Text on the line of the end marker is moved to a line of its own by an update. Read,
  not modelled (texts are tokens): `remove_block` slices the two bytes before the block
  out of a string (`rc_block.rs:101`), which panics where they start inside a character,
  as in a line that ends in `é` with no blank line before the block.

## 4. Fairness

`AgentServer!Fairness`: the process runs (`Loop`, `Serve`, `EndConnection` are
weakly fair: the loop polls every 100 ms and blocks only on the connection it
serves); the clock ticks; every client closes in the end, because its reads and
writes have timeouts and a transfer is a finite number of HTTP calls with timeouts.
Nothing makes clients come, or stop coming: `AgentExits` has that as its premise.

`AgentLifecycle!Fairness`: each process runs on. `AutoLock` and `LeaveLoop` are
weakly fair because only finitely many commands are run: a session that nobody
renews reaches its TTL and a locked agent its idle limit. Crashes, time-outs and
the start of commands are never required to happen.

`RemoteUpload!FairSpec`: every request is answered or times out.

`Unlock!Spec`: the steps that wait for nobody are taken (`Program`); the operator
need never answer, which is why `ScriptsEnd` says something.

`SetupWizard!Fairness`: the loop turns and the clock of a device code ticks.
`PollLogin` is left out: that the user ever logs in elsewhere is not owed.

## 5. The proofs

Every theorem holds for every value of the constants that the assumptions named
below allow; TLC evaluates these assumptions in the runs. The runs of section 3 show
the same properties on small instances.

`Agent_proofs` proves, for every set of aliases, ids, credentials, keys and
folders and every TTL, the type invariant and the safety invariants of
`AgentState`. None of these is inductive alone: that a locked agent holds nothing is
needed to know that an alias which is set belongs to a set that is held; that the
alias resolves is needed for "the cached listing is that of the active profile" after
an update; that the key is there is needed to know what `persist` wrote. Their
conjunction with the type invariant, `IInv`, is inductive. One lemma per action shows
that it keeps each conjunct it can disturb; the theorem combines them. The
assumptions are `LimitsAssumption` (limits are natural numbers) and `NoneAssumption`
(`None` is none of the values it stands beside).

It goes on to show that every step of the server is a step of `AgentState`
or leaves its variables alone (`StepIsStateStep`): a served request is one of its
actions, an accepted connection is no more than a `touch`. Hence `ServerSpec => Spec`,
and everything above holds of the server with its clients as well. On top of it:
after an answered Exit nobody is served; a transfer that was given the profile finds
the session held when it comes back, because expiry, exit and the requests of others
wait for its connection to end (`FetchedStep`), and no request of its own but a Lock
or a whole new set takes the active profile away (`KeepsActive`); and which requests
make a session younger. The assumption is `ServerAssumption` (requests are
requests, `None` is none of them).

`Commands_proofs` is about the commands, first about many of them at once
(`AgentLifecycle`): `zz z` reads the lock file long before it uses the socket,
and yet never unlocks an agent of another build. An agent of the earlier build never
binds again; while the socket is its, so is the lock file (`LockFileInv`), because
everybody who removes or overwrites that has removed or replaced the socket before
(`AgentsInv`, `CommandsInv`). From these the connection of a `zz z` that passed the
test is one to its own build. The second theorem is about the socket that stays: as
long as nobody has died without its clean-up, a socket file is that of an agent which
is between its `bind` and its own `remove_file`, or a command that has just killed an
agent has the removal as its next step (`Attended`). A write of the token fails only
where the directory is gone, and the socket with it (`SocketInDir`), so an agent that
fails while starting leaves none either.

Then about one command and what it reads and writes (`Unlock`). A container and the
set in RAM are two forms of one thing: entries of newer builds are carried in RAM and
restored in the file. `ShieldStored` and `RestoreLoaded` prove that either way and
back is the identity, for sets of any size and any tags; `Opens`, `Seals`, `Rotates`
and `Refreshes` say what opening, sealing, rotating and a refreshed token keep. The
invariant `UnlockInv` says that what a command has taken out of the file is what the
file still opens to under the passphrase given (`RunInv`), that a session of the local
container agrees with the file in names, carried entries and passphrase
(`SessionInv`), and that a remembered name is in the sidecar and in the container
(`RememberedInv`); `ChoiceInv` follows a script from the sidecar to the name it
hands over. `AgentSaves` may write the local container from a session of the remote
one; that is why a rewrite is claimed to keep the entries only where the session came
from the same container. For what a command reports the invariant is about the queue
(`QueueInv`): a command that waits has written the last request of it, what waits
longer was left behind by others, and something is reported only when nothing is left
to be carried out. Since the agent takes requests in the order they came, an answer
says that all the earlier ones are done with. What the queue holds is a session as
good as the one held (`Appended`, `Taken`, `Outdates`), so that the invariants of the
session carry over when it is taken. The assumptions are `ContainerFileAssumption` (limits are numbers, the policy is within
them) and `UnlockAssumption`: Google Drive is a provider this build knows, a container
that starts the behaviour or is on the server was written by a build of the program,
which restores carriers before it writes, and names of profiles are none of the marks
used beside them.

`ContainerSync_proofs`: the connection a transfer keeps from GetProfile to
UpdateProfile works as a lock. While a transfer works, it is the one being served and
RAM is what it was given (`HeldWhileWorking`), since the agent changes RAM for others,
or locks, only between two connections. That RAM and the file agree once everyone has
told is not inductive: what is, is that while they differ there is somebody to tell
(`ToldLater`), a request with a set in the queue, a TUI that has written or a `zz z`
that has rotated. It rests on the types (`TypeInv`): requests in the queue carry sets,
and each operation is asked for by one kind of process.

The same module shows that `AtomicReplace` implements `ReplacedFile`, step by step
(`ReplaceStepImplements`): opening begins, the rename replaces, an error or a death
fails, and the steps between stutter. A writer that meets no other owns the temporary
file: it is empty until written and holds the writer's content from then on
(`AloneInv`), and whatever a dead writer left under the name is truncated. Nobody
still has the container open once its last replacement met no other (`KnownInv`), so
nothing is written into it afterwards. That part is needed because writers that meet
share one inode: then the rename of one puts a file in place that the other still
writes to. The assumption is `ReplaceAssumption`.

`RemoteUpload_proofs`: names that were taken stay taken (`NameInv`), so a name found
free was free when the upload began; an id stays with its name (`TargetInv`), so
replacing by id replaces under the same name; and every upload stores one content
(`ContentInv`), so dropping the ids confuses nothing. With these each step of
`RemoteUpload` is a step of `RemoteDirectory` or a stutter (`StepImplements`), and
what was reported stays stored.

`ContainerSession_proofs`: what the screens of the containers rely on. A stage that
takes no key has its request up, and the request fits the session (`Waiting`); a
manage screen has a container in RAM and an active profile (`Unlocked`); the default
build has one container (`OneContainer`), and until a wipe the set in RAM is the one
in its file, and no walk creates a container where one is (`Remembered`). That is
what keeps an addition, or a first save, from dropping a profile. Keys find no request up (`Quiet`) and no second one
is raised (`Alone`). The assumption is `SessionAssumption`.

`SetupWizard_proofs`: at most one request is up, on the screen that raised it, and a
key comes between it and its service only when a poll raised it (`Flags`); a stage
that polls is shown and a stage that waits has its request (`Waits`). For what is
stored a second invariant says what a Nextcloud walk has filled in by each screen,
which provider a setup screen is for and what the Done screen confirms (`Walked`):
the save looks at tokens only, so that a Nextcloud profile is complete because of the
way that leads to it. The assumption is `WizardAssumption`: the providers are those
of the code.

The same module proves the laws of the block in the rc file (`Installer`), for texts
of any length over any set of tokens and for any body without markers:
`WriteSettles`, `WriteKeepsTheRest` and `RemoveRestores`. The operators compute with
positions; that the block `find_block` finds is the one between two texts
(`Embedded`) reduces each of them to a case of `write_block` (`AfterWrite`). The
hypothesis `NoStrayStart` says that a start marker stands in a block, without which
the laws fail (section 3). The proof found what the run's files do not hold: text that
follows the end marker on its line gets a newline in front when the block is updated,
so that it is moved to a line of its own.

`ProviderClient_proofs` has two arguments. The one about tokens (`Fresh`): what
clients, session and answers under way hold is accepted, and a profile takes a token
for fresh at most the time longer than it is that the answer was under way; the
skew covers that and the way of the request. The other (`Whole`) follows a call
through its requests. What it has resolved is on the way of its path, as many
segments along as are done, or the path was lost meanwhile (`PlaceOf`); an id about
to be taken had the path (`TargetOf`); what was in the folder throughout and is not
listed yet has an id behind the cursor (`PagesOf`), since a page leaves larger ids
than it takes and new entries get larger ones. These rest on the tree (`ThingsInv`),
on the root folder a profile knows (`RootInv`), on what a stage says of its call
(`StageInv`) and on the history covering the present (`HistoryInv`); lemmas about
`Along` say how additions, removals and new names change where a path leads. The
attempt changed the property: a file and a folder of one name on Drive hide each
other just as two folders do, which a run with one change of others did not reach
(`missing` now counts it). The assumption is `ProviderAssumption`.

`Transfers_proofs` is about the variables of `RemoteListing` and `Transfers`
together. Its type invariant says of the remote folder that no two files of a folder
have one name and that every folder is in its parent. On it rest four arguments.

- *Listings.* Every listing the cache still serves is one of the tree of as many
  ticks ago as the listing is old (`CacheFresh`), and that tree is in `past`. A
  change of the tree adds to `past`, a tick ages both, so that what a TAB is given is
  a tree of the last TTL, or marked as cut off.
- *Copies.* What a job reports as uploaded is in the remote folder (`CopyInv`): a
  later upload of the batch finds a name that is free and removes nothing.
- *Listings after an upload.* A job that ended with ok has dropped what was kept of
  its destination and of the folders on the way; whatever is kept of them since lists
  the present tree (`ListedSince`).
- *The exit code.* While no other device interferes and nothing has failed, each
  thing asked for is where it was to go, or some item of the work left serves it
  (`Accounted`); and each item left fetches only what was asked for, to where it was
  asked for (`Aligned`). The plan of a command line accounts for all of it
  (`PlanAccounts`), whatever words, patterns and folders it names. Each step serves
  what its item owes: an item for a folder passes what lies below on to the items it
  leaves (`BelowThrough`), and `StepServed` combines the cases. No item undoes
  another: two files below a folder never go to one place (`PlacesDiffer`), and two
  words of one last name are rivals of which either settles both. When no work is
  left, ok means that everything is settled.

The attempt changed the model twice: `Rivals` and `Wanted` as they are now, and that
fetching refuses to write over a folder, came of steps that could not be proved and
of which TLC then found the counterexample on a larger instance. The run's command
lines include them since. The assumptions are `ListingAssumption` and
`TransfersAssumption` (limits are numbers, files and words have their shape, `None`
is none of them).

Model-checked only: all liveness (`ConnectedIsServed`, `ExpiredSessionEnds`,
`AgentExits`, `ComesToRest`, `EveryUploadEnds`, `DeviceLoginEnds`, `ScriptsEnd`), the
assumptions about operators except the laws of the rc block, and the disagreement with
the documentation.

Out of the prover's reach: liveness and ENABLED; induction over data, so that what a
fold computes for every argument list or PROPFIND answer cannot be proved; and
RECURSIVE operators, which no module here uses. A recursive function over numbers is
within reach where what is claimed of it is a set of numbers: `Along` is, by the
least number outside that set (`Induction`).

## 6. What is not modelled

- *Cryptography and formats*: encryption and key derivation (ideal in
  `ContainerFile`), framing bytes, archive formats, HTTP, JSON and XML, except the
  events of a PROPFIND answer; PKCE. The functions `encrypt_profile` and
  `decrypt_profile` of the earlier format are called by nothing but tests.
- *Looks*: rendering of the TUI and of the command line, colours, wording, the
  toggles of what is shown, the diagnostic log, `config.toml`.
- *Side shows*: `zz f` reports and opens a browser and changes nothing; the warning
  printed when the container is newer than at unlock; registration and enrolment of
  a second factor on the server, which no command and no screen calls.
- *Clocks*: a wall clock that is set back (the list cache uses `SystemTime`). Ages
  only grow.
- *Left out of a module*: the TUI's connections in `AgentLifecycle` (they are in
  `ContainerSync`); Dropbox's parents that are missing and its empty root in
  `ProviderClient`, where a service lists entries in the order of their ids.
- *Sizes*: an upload is one request; files above a provider's limit for that are
  refused by the client before anything is sent (there are no upload sessions).

## 7. What could come next

Every part of the system that changes state has a module, and every safety property
a run checks has a theorem. What could be added is an abstract specification of a
session as docs/agent.md draws it (locked, unlocked, gone), refined by `AgentServer`.
