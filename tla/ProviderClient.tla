---------------------------- MODULE ProviderClient ----------------------------
(***************************************************************************)
(* The four provider clients below RemoteFs: access tokens that expire and *)
(* are refreshed, the cached id of the root folder, paths resolved segment *)
(* by segment, listings that come in pages, downloads and removals.  Every *)
(* HTTP request is a step, so other devices can change the folder and time *)
(* can pass between any two of them.  A command builds a client from the   *)
(* profile of the session and reports what changed; the agent keeps one    *)
(* for completion and reports nothing.  Uploads proper are in RemoteUpload.*)
(*                                                                         *)
(* Sources: core/src/providers/{google_drive,onedrive,dropbox}/rest.rs,    *)
(* nextcloud/{mod,webdav}.rs, oauth/{device_flow,paste_code}.rs,           *)
(* src/commands/{mod,remote_fs}.rs, src/agent/remote_client.rs.  The       *)
(* services are external.                                                  *)
(***************************************************************************)
EXTENDS Integers, Sequences, FiniteSets, SequencesExt

CONSTANTS
    Client,           \* client objects
    Kept,             \* those the agent keeps for completion
    Call,             \* what each is asked for: records of op, dirs and leaf
    EXPIRY_SKEW,      \* EXPIRY_SKEW_SECS
    REFRESH_TIMEOUT,  \* seconds until a token request is given up
    TRANSIT,          \* seconds until a request is at the service
    LIFETIME,         \* expires_in of an access token
    PAGE_SIZE,        \* entries the service puts on a page
    RootName,         \* root_folder
    Names,            \* names below it
    MAX_CLOCK,        \* bound: time that passes
    MAX_CHANGES,      \* bound: changes other devices make
    MAX_CALLS,        \* bound: calls of all clients
    MAX_EVENTS,       \* bound: all of these together
    None

\* Ids are numbers, Top is the folder of the account.
Top == 0

\* What a client is asked for; the part of a profile it works with; and what the
\* token endpoint answers.
Asked == [op : {"list", "download", "delete", "ensure"}, dirs : Seq(Names), leaf : Names]
Account == [access : Nat, expires_at : Nat, refresh : Nat, root_id : Nat \union {None}]
TokenAnswer == [access : Nat, refresh : Nat \union {None}]

ASSUME ProviderAssumption ==
    /\ Kept \subseteq Client
    /\ \A n \in {EXPIRY_SKEW, REFRESH_TIMEOUT, TRANSIT, MAX_CLOCK, MAX_CHANGES, MAX_CALLS, MAX_EVENTS} : n \in Nat
    /\ LIFETIME \in Nat /\ LIFETIME > EXPIRY_SKEW /\ PAGE_SIZE \in Nat \ {0}
    /\ REFRESH_TIMEOUT + TRANSIT <= EXPIRY_SKEW
    /\ RootName \notin Names /\ {"d", "f"} \subseteq Names
    /\ \A c \in Client : Call[c] \subseteq Asked
    /\ None \notin Nat /\ None \notin Names
    /\ None \notin Asked /\ None \notin Account /\ None \notin TokenAnswer

VARIABLES
    provider, \* the service
    things,   \* its files and folders: records of id, name, in and folder
    issued,   \* access tokens: when each expires
    accepted, \* refresh tokens the service accepts
    clock,    \* SystemTime::now
    session,  \* the provider profile in the session of the agent
    pc,       \* the next request of each client
    call,     \* what it was asked for
    profile,  \* the profile it was built from, refreshed
    dirty,    \* profile_dirty
    rest,     \* directory segments still to resolve
    here,     \* the folder or file resolved so far
    got,      \* the entries listed so far, with the cursor; or the file written
    checked,  \* ensure_fresh_token has passed for the pending request
    reply,    \* the answer of the token endpoint, under way
    sent,     \* when the pending request was sent
    result,   \* what the last call returned
    named,    \* history: the ids the path had during the call
    lasting,  \* history: names there during the whole call
    ever,     \* history: names there at some time during the call
    missing,  \* history: at some time nothing was there, or two things of a name
    used      \* bound: changes and calls so far

Bounded == clock + used.changes + used.calls < MAX_EVENTS

\* Bound: once other devices have changed something, calls do not overlap.
Busy(C) == \E c \in C : pc[c] # "idle"

own == <<pc, call, profile, dirty, rest, here, got, checked, reply, sent, result>>
history == <<named, lasting, ever, missing>>
vars == <<provider, things, issued, accepted, clock, session, own, history, used>>

HasTokens == provider # "nextcloud"
ById == provider \in {"google_drive", "onedrive"}

Children(T, id) == {t \in T : t.in = id}
Folders(T, id, name) == {t \in Children(T, id) : t.name = name /\ t.folder}

\* The folders the segments of a path lead to from some roots, one after the
\* other; those the whole path leads to; and the things a path names.
Along(T, roots, dirs) ==
    LET at[n \in 0 .. Len(dirs)] ==
            IF n = 0 THEN roots ELSE UNION {{t.id : t \in Folders(T, id, dirs[n])} : id \in at[n - 1]}
    IN  at
Reached(T, roots, dirs) == Along(T, roots, dirs)[Len(dirs)]
RootIds(T, p) ==
    IF p.root_id = None THEN {t.id : t \in Folders(T, Top, RootName)}
    ELSE {t.id : t \in {t \in T : t.id = p.root_id}}
Named(T, p, k) ==
    {t \in T : t.in \in Reached(T, RootIds(T, p), k.dirs) /\ t.name = k.leaf}

-------------------------------------------------------------------------------
\* What the clients make of a reply: status and what the body mentions.
google_classify(status, body) ==
    CASE status = 401 -> "unauthorized"
      [] status = 403 -> IF body = "rateLimitExceeded" THEN "rate_limited" ELSE "unauthorized"
      [] status = 404 -> "not_found"
      [] status = 409 -> "conflict"
      [] status = 429 -> "rate_limited"
      [] OTHER -> "server_error"

onedrive_classify(status, body) ==
    CASE status \in {401, 403} -> "unauthorized"
      [] status = 404 -> "not_found"
      [] status = 409 -> "conflict"
      [] status = 429 -> "rate_limited"
      [] OTHER -> "server_error"

dropbox_classify(status, body) ==
    CASE status \in {401, 403} -> "unauthorized"
      [] status = 409 -> IF body = "not_found" THEN "not_found" ELSE "conflict"
      [] status = 429 -> "rate_limited"
      [] OTHER -> "server_error"

nextcloud_classify(status, body) ==
    CASE status \in {401, 403} -> "unauthorized"
      [] status = 404 -> "not_found"
      [] status = 409 -> "conflict"
      [] OTHER -> "server_error"

classify(status, body) ==
    CASE provider = "google_drive" -> google_classify(status, body)
      [] provider = "onedrive" -> onedrive_classify(status, body)
      [] provider = "dropbox" -> dropbox_classify(status, body)
      [] OTHER -> nextcloud_classify(status, body)

\* How the services say that something is not there, or there already.
Absent == IF provider = "dropbox" THEN classify(409, "not_found") ELSE classify(404, "other")
Taken == IF provider = "dropbox" THEN classify(409, "path/conflict") ELSE classify(409, "other")

\* What may go wrong with any request; callers tell only not_found apart.
Trouble ==
    {IF r = "not_found" THEN r ELSE "failed" :
        r \in {classify(403, "rateLimitExceeded"), classify(429, "other"), classify(500, "other"),
               IF provider = "dropbox" THEN classify(409, "restricted") ELSE classify(507, "other")}}

-------------------------------------------------------------------------------
\* The body of a PROPFIND answer, as the events of the XML reader: opening tags,
\* "end" for any closing tag but that of a response, and text with its value.
Tag(t) == [tag |-> t, value |-> None]
Text(v) == [tag |-> "text", value |-> v]
Reading == [saw |-> FALSE, inside |-> FALSE, href |-> None, size |-> None, dir |-> FALSE,
            state |-> None, entries |-> <<>>]

ReadEvent(r, e) ==
    CASE e.tag = "multistatus" -> [r EXCEPT !.saw = TRUE]
      [] e.tag = "response" -> [r EXCEPT !.inside = TRUE, !.href = None, !.size = None, !.dir = FALSE]
      [] e.tag \in {"href", "getcontentlength"} /\ r.inside -> [r EXCEPT !.state = e.tag]
      [] e.tag = "collection" /\ r.inside -> [r EXCEPT !.dir = TRUE]
      [] e.tag = "/response" ->
            [r EXCEPT !.inside = FALSE, !.dir = FALSE, !.state = None, !.href = None,
                      !.size = IF r.href = None THEN @ ELSE None,
                      !.entries = IF r.href = None THEN @
                        ELSE Append(@, [name |-> r.href, size |-> r.size, folder |-> r.dir])]
      [] e.tag = "end" -> [r EXCEPT !.state = None]
      [] e.tag = "text" /\ r.state = "href" -> [r EXCEPT !.href = e.value]
      [] e.tag = "text" /\ r.state = "getcontentlength" -> [r EXCEPT !.size = e.value]
      [] OTHER -> r

\* The first response is the folder itself.
parse_propfind_multistatus(events) ==
    LET r == FoldLeft(ReadEvent, Reading, events) IN
    IF ~r.saw THEN None ELSE IF r.entries = <<>> THEN <<>> ELSE Tail(r.entries)

-------------------------------------------------------------------------------
NewProfile(expires) == [access |-> 1, expires_at |-> expires, refresh |-> 1, root_id |-> None]

Init ==
    /\ provider \in {"nextcloud", "google_drive", "onedrive", "dropbox"}
    /\ \E root \in BOOLEAN :
        things = IF ~root THEN {} ELSE
            {[id |-> 1, name |-> RootName, in |-> Top, folder |-> TRUE],
             [id |-> 2, name |-> "d", in |-> 1, folder |-> TRUE],
             [id |-> 3, name |-> "f", in |-> 1, folder |-> FALSE],
             [id |-> 4, name |-> "f", in |-> 2, folder |-> FALSE]}
    /\ clock = 0
    /\ \E expires \in IF HasTokens THEN {EXPIRY_SKEW, LIFETIME} ELSE {LIFETIME} :
        issued = <<expires>> /\ session = NewProfile(expires)
    /\ accepted = {1}
    /\ pc = [c \in Client |-> "idle"]
    /\ call = [c \in Client |-> None]
    /\ profile = [c \in Client |-> None]
    /\ dirty = [c \in Client |-> FALSE]
    /\ rest = [c \in Client |-> <<>>]
    /\ here = [c \in Client |-> None]
    /\ got = [c \in Client |-> {}]
    /\ checked = [c \in Client |-> FALSE]
    /\ reply = [c \in Client |-> None]
    /\ sent = [c \in Client |-> 0]
    /\ result = [c \in Client |-> None]
    /\ named = [c \in Client |-> {}]
    /\ lasting = [c \in Client |-> {}]
    /\ ever = [c \in Client |-> {}]
    /\ missing = [c \in Client |-> FALSE]
    /\ used = [changes |-> 0, calls |-> 0, ids |-> 4]

-------------------------------------------------------------------------------
service == <<provider, things, issued, accepted, session>>

\* The call goes on with another request; the previous one is answered.
Go(c, next) ==
    /\ pc' = [pc EXCEPT ![c] = next]
    /\ checked' = [checked EXCEPT ![c] = FALSE]
    /\ sent' = [sent EXCEPT ![c] = clock]
    /\ UNCHANGED result

Return(c, r) ==
    /\ pc' = [pc EXCEPT ![c] = "report"]
    /\ checked' = [checked EXCEPT ![c] = FALSE]
    /\ sent' = [sent EXCEPT ![c] = 0]
    /\ result' = [result EXCEPT ![c] = r]

At(c, here_) == pc[c] = here_ /\ reply[c] = None

\* Requests that ensure_fresh_token is called for.  The pages of a listing and
\* the use of a cached root folder are not among them.
TokenFirst(c) ==
    /\ HasTokens
    /\ pc[c] \in {"begin", "root", "mkroot", "walk", "mkdir", "leaf", "get", "remove"}
    /\ pc[c] = "root" => profile[c].root_id = None

\* fault: a token is used up to its last second
needs_refresh_late(c) == clock >= profile[c].expires_at

needs_refresh(c) == clock + EXPIRY_SKEW >= profile[c].expires_at

FreshToken(c) ==
    /\ TokenFirst(c) /\ reply[c] = None /\ ~checked[c]
    /\ ~needs_refresh(c)
    /\ checked' = [checked EXCEPT ![c] = TRUE]
    /\ sent' = [sent EXCEPT ![c] = clock]
    /\ UNCHANGED <<service, clock, pc, call, profile, dirty, rest, here, got, reply, result>>

\* refresh: the token endpoint answers 200 to a refresh token it accepts, with a
\* new refresh token or without.
RefreshIssued(c) ==
    /\ TokenFirst(c) /\ reply[c] = None /\ ~checked[c]
    /\ needs_refresh(c)
    /\ profile[c].refresh \in accepted
    /\ issued' = Append(issued, clock + LIFETIME)
    /\ \/ UNCHANGED accepted /\ reply' = [reply EXCEPT ![c] = [access |-> Len(issued'), refresh |-> None]]
       \/ /\ accepted' = accepted \union {Cardinality(accepted) + 1}
          /\ reply' = [reply EXCEPT ![c] =
                [access |-> Len(issued'), refresh |-> Cardinality(accepted) + 1]]
    /\ sent' = [sent EXCEPT ![c] = clock]
    /\ UNCHANGED <<provider, things, session, clock, pc, call, profile, dirty, rest, here, got, checked, result>>

\* ... invalid_grant: map_oauth makes it an expired token.
RefreshRefused(c) ==
    /\ TokenFirst(c) /\ reply[c] = None /\ ~checked[c]
    /\ needs_refresh(c)
    /\ profile[c].refresh \notin accepted
    /\ Return(c, "token_expired")
    /\ UNCHANGED <<service, clock, call, profile, dirty, rest, here, got, reply>>

\* fault: the missing refresh token is taken over, too
apply_refresh_all(p, r) ==
    [p EXCEPT !.access = r.access, !.expires_at = clock + LIFETIME, !.refresh = r.refresh]

apply_refresh(p, r) ==
    [p EXCEPT !.access = r.access, !.expires_at = clock + LIFETIME,
              !.refresh = IF r.refresh = None THEN @ ELSE r.refresh]

RefreshApplied(c) ==
    /\ reply[c] # None
    /\ profile' = [profile EXCEPT ![c] = apply_refresh(@, reply[c])]
    /\ dirty' = [dirty EXCEPT ![c] = TRUE]
    /\ checked' = [checked EXCEPT ![c] = TRUE]
    /\ reply' = [reply EXCEPT ![c] = None]
    /\ sent' = [sent EXCEPT ![c] = clock]
    /\ UNCHANGED <<service, clock, pc, call, rest, here, got, result>>

-------------------------------------------------------------------------------
\* The request of c is at the service: with a token it takes, or it is refused.
Ready(c, here_) == At(c, here_) /\ (TokenFirst(c) => checked[c])
Expired(c) == HasTokens /\ clock >= issued[profile[c].access]
TokenValid(c) == ~Expired(c) /\ accepted # {}
Send(c, here_) == Ready(c, here_) /\ TokenValid(c)

Request == {"root", "mkroot", "walk", "mkdir", "leaf", "get", "remove", "probe", "page"}
IsRequest(c) ==
    /\ pc[c] \in Request
    /\ pc[c] = "root" => profile[c].root_id = None

Unauthorized(c) ==
    /\ \E r \in Request : Ready(c, r) /\ IsRequest(c) /\ ~TokenValid(c)
    /\ Return(c, classify(401, "other"))
    /\ UNCHANGED <<service, clock, call, profile, dirty, rest, here, got, reply>>

\* No connection, throttled, an error of the service; for a token request, too.
Fails(c) ==
    /\ pc[c] \in Request \/ TokenFirst(c)
    /\ \E r \in Trouble : Return(c, r)
    /\ reply' = [reply EXCEPT ![c] = None]
    /\ UNCHANGED <<service, clock, call, profile, dirty, rest, here, got>>

\* RemoteFs over the four clients: the request a call begins with.
FirstRequest(k) ==
    CASE k.op = "list" -> IF HasTokens THEN "begin" ELSE "probe"
      [] k.op = "ensure" /\ ~ById -> IF provider = "nextcloud" /\ k.dirs = <<>>
                                     THEN "report" ELSE "mkdir"
      [] k.op # "list" /\ ById -> "root"
      [] k.op = "download" /\ ~ById -> "get"
      [] k.op = "delete" /\ ~ById -> "remove"

\* A new client of the session's profile (build_remote), or the one the agent kept.
Start(c, k, kept) ==
    /\ pc[c] = "idle"
    /\ used.calls < MAX_CALLS /\ Bounded
    /\ used.changes > 0 => ~Busy(Client)
    /\ kept => c \in Kept /\ profile[c] # None
    /\ c \in Kept => k.op = "list"
    /\ call' = [call EXCEPT ![c] = k]
    /\ profile' = [profile EXCEPT ![c] = IF kept THEN @ ELSE session]
    /\ dirty' = [dirty EXCEPT ![c] = kept /\ @]
    /\ rest' = [rest EXCEPT ![c] =
            IF provider = "dropbox" THEN <<RootName>> \o k.dirs ELSE k.dirs]
    /\ here' = [here EXCEPT ![c] = None]
    /\ got' = [got EXCEPT ![c] = {}]
    /\ pc' = [pc EXCEPT ![c] = FirstRequest(k)]
    /\ result' = [result EXCEPT ![c] = IF pc'[c] = "report" THEN "ok" ELSE None]
    /\ sent' = [sent EXCEPT ![c] = clock]
    /\ used' = [used EXCEPT !.calls = @ + 1]
    /\ UNCHANGED <<service, clock, checked, reply>>

\* list_at begins with ensure_fresh_token.
Begin(c) ==
    /\ Ready(c, "begin")
    /\ Go(c, IF ById THEN "root" ELSE "page")
    /\ UNCHANGED <<service, clock, call, profile, dirty, rest, here, got, reply>>

\* With the folder reached: the next segment, or what the call is about.
Reach(c, id, left) ==
    /\ here' = [here EXCEPT ![c] = id]
    /\ rest' = [rest EXCEPT ![c] = left]
    /\ \/ left # <<>> /\ Go(c, "walk")
       \/ left = <<>> /\ call[c].op = "list" /\ Go(c, "page")
       \/ left = <<>> /\ call[c].op = "ensure" /\ Return(c, "ok")
       \/ left = <<>> /\ call[c].op \in {"download", "delete"} /\ Go(c, "leaf")

\* ensure_root_folder: an id once found is never looked at again.
CachedRoot(c) ==
    /\ At(c, "root")
    /\ profile[c].root_id # None
    /\ Reach(c, profile[c].root_id, rest[c])
    /\ UNCHANGED <<service, clock, call, profile, dirty, got, reply>>

KeepRoot(c, id) ==
    /\ profile' = [profile EXCEPT ![c].root_id = id]
    /\ dirty' = [dirty EXCEPT ![c] = TRUE]
    /\ Reach(c, id, rest[c])

\* find_or_create_folder_under, find_or_create_folder_at_root: Drive asks for
\* folders of that name, OneDrive for what is at the path.
FindRoot(c) ==
    /\ Send(c, "root")
    /\ profile[c].root_id = None
    /\ \/ \E t \in Folders(things, Top, RootName) : KeepRoot(c, t.id)
       \/ /\ Folders(things, Top, RootName) = {}
          /\ Go(c, "mkroot")
          /\ UNCHANGED <<profile, dirty, rest, here>>
    /\ UNCHANGED <<service, clock, call, got, reply>>

NewFolder(id, name) == [id |-> used.ids + 1, name |-> name, in |-> id, folder |-> TRUE]
TakenIn(id, name) == \E t \in Children(things, id) : t.name = name
Exists(id) == id = Top \/ \E t \in things : t.id = id /\ t.folder

\* Whether the service creates the folder: Drive always, the others only when
\* the name is free.
Creates(id, name) == Exists(id) /\ (provider = "google_drive" \/ ~TakenIn(id, name))

CreateRoot(c) ==
    /\ Send(c, "mkroot")
    /\ \/ /\ Creates(Top, RootName)
          /\ things' = things \union {NewFolder(Top, RootName)}
          /\ used' = [used EXCEPT !.ids = @ + 1]
          /\ KeepRoot(c, used.ids + 1)
       \/ /\ ~Creates(Top, RootName)
          /\ Return(c, Taken)
          /\ UNCHANGED <<things, used, profile, dirty, rest, here>>
    /\ UNCHANGED <<provider, issued, accepted, session, clock, call, got, reply>>

Descend(c, id) == Reach(c, id, Tail(rest[c]))

\* resolve_dir_segments, ensure_dir_segments: one find_in_folder a segment.
Walk(c) ==
    /\ Send(c, "walk")
    /\ \/ \E t \in Folders(things, here[c], Head(rest[c])) : Descend(c, t.id)
       \/ /\ Folders(things, here[c], Head(rest[c])) = {}
          /\ \/ /\ call[c].op = "ensure" /\ Exists(here[c])
                /\ Go(c, "mkdir")
             \/ /\ call[c].op # "ensure" \/ ~Exists(here[c])
                /\ Return(c, IF provider = "onedrive" /\ TakenIn(here[c], Head(rest[c]))
                             THEN Taken ELSE Absent)
          /\ UNCHANGED <<rest, here>>
    /\ UNCHANGED <<service, clock, call, profile, dirty, got, reply>>

\* create_folder_under.
CreateFolder(c) ==
    /\ ById
    /\ Send(c, "mkdir")
    /\ \/ /\ Creates(here[c], Head(rest[c]))
          /\ things' = things \union {NewFolder(here[c], Head(rest[c]))}
          /\ used' = [used EXCEPT !.ids = @ + 1]
          /\ Descend(c, used.ids + 1)
       \/ /\ ~Creates(here[c], Head(rest[c]))
          /\ Return(c, IF Exists(here[c]) THEN Taken ELSE Absent)
          /\ UNCHANGED <<things, used, rest, here>>
    /\ UNCHANGED <<provider, issued, accepted, session, clock, call, profile, dirty, got, reply>>

\* Dropbox and Nextcloud: the segments above the one to be created.
Above(c) ==
    LET all == <<RootName>> \o call[c].dirs IN SubSeq(all, 1, Len(all) - Len(rest[c]))

\* create_folder_idempotent, MKCOL: that the name is taken, and by MKCOL that
\* the folder above is missing, passes for success.
MakeFolder(c) ==
    /\ ~ById
    /\ Send(c, "mkdir")
    /\ \/ \E id \in Reached(things, {Top}, Above(c)) :
            /\ Creates(id, Head(rest[c]))
            /\ things' = things \union {NewFolder(id, Head(rest[c]))}
            /\ used' = [used EXCEPT !.ids = @ + 1]
       \/ /\ \A id \in Reached(things, {Top}, Above(c)) : ~Creates(id, Head(rest[c]))
          /\ UNCHANGED <<things, used>>
    /\ rest' = [rest EXCEPT ![c] = Tail(@)]
    /\ IF Len(rest[c]) = 1 THEN Return(c, "ok") ELSE Go(c, "mkdir")
    /\ UNCHANGED <<provider, issued, accepted, session, clock, call, profile, dirty, here, got, reply>>

\* fault: the query leaves out the folder
Found_anywhere(c) == {t \in things : t.name = call[c].leaf}

\* find_in_folder, asking for files and folders.
Found(c) == {t \in Children(things, here[c]) : t.name = call[c].leaf}

\* resolve_file_path: its last segment.
Leaf(c) ==
    /\ Send(c, "leaf")
    /\ \/ /\ Found(c) = {}
          /\ Return(c, Absent)
          /\ UNCHANGED here
       \/ \E t \in Found(c) :
            /\ here' = [here EXCEPT ![c] = t.id]
            /\ IF provider = "onedrive" /\ call[c].op = "download" /\ t.folder
               THEN Return(c, Taken)
               ELSE Go(c, IF call[c].op = "download" THEN "get" ELSE "remove")
    /\ UNCHANGED <<service, clock, call, profile, dirty, rest, got, reply>>

\* What the request is about: an id, or what is at the path by now.
Target(c) ==
    IF ById THEN {t \in things : t.id = here[c]}
    ELSE {t \in things : t.in \in Reached(things, {Top}, <<RootName>> \o call[c].dirs)
                         /\ t.name = call[c].leaf}

\* download_from: the body is read as a whole, then the local file is written;
\* that may stop halfway.  Folders have no content.
Get(c) ==
    /\ Send(c, "get")
    /\ \/ Target(c) = {} /\ Return(c, Absent) /\ UNCHANGED got
       \/ \E t \in Target(c) :
            \/ t.folder /\ Return(c, IF ById THEN classify(403, "other") ELSE Taken) /\ UNCHANGED got
            \/ /\ ~t.folder
               /\ \/ Return(c, "ok") /\ got' = [got EXCEPT ![c] = {t.id}]
                  \/ Return(c, "local_io") /\ got' = [got EXCEPT ![c] = {"torn"}]
    /\ UNCHANGED <<service, clock, call, profile, dirty, rest, here, reply>>

\* The thing of that id and what is below it: in every set with both.
Beneath(T, id) ==
    {t \in T : \A S \in SUBSET T :
        (\A u \in T : u.id = id \/ (\E s \in S : s.id = u.in) => u \in S) => t \in S}

\* delete_at: moved to the trash or gone, with what is below it.
Delete(c) ==
    /\ Send(c, "remove")
    /\ \/ Target(c) = {} /\ Return(c, Absent) /\ UNCHANGED <<things, got>>
       \/ \E t \in Target(c) :
            /\ things' = things \ Beneath(things, t.id)
            /\ got' = [got EXCEPT ![c] = {t.id}]
            /\ Return(c, "ok")
    /\ UNCHANGED <<provider, issued, accepted, session, clock, call, profile, dirty, rest, here, reply>>

\* PROPFIND is sent twice: the first answer gives the status ...
Probe(c) ==
    /\ Send(c, "probe")
    /\ IF Reached(things, {Top}, <<RootName>> \o call[c].dirs) = {}
       THEN Return(c, Absent) ELSE Go(c, "page")
    /\ UNCHANGED <<service, clock, call, profile, dirty, rest, here, got, reply>>

\* The folder a page is of: the first request of Dropbox and the second PROPFIND
\* name it by its path, a cursor or an id stays with the folder.
PageOf(c) ==
    IF here[c] # None THEN {id \in {here[c]} : Exists(id)}
    ELSE Reached(things, {Top}, <<RootName>> \o call[c].dirs)

After(id, cursor) == {t \in Children(things, id) : t.id > cursor}
Cursor(c) == IF got[c] = {} THEN 0 ELSE (CHOOSE e \in got[c] : \A f \in got[c] : f.id <= e.id).id

\* PAGE_SIZE entries from the cursor on, in the service's order; a PROPFIND
\* answers with all of them.
PageFrom(id, cursor) ==
    IF provider = "nextcloud" THEN After(id, cursor)
    ELSE {t \in After(id, cursor) :
            Cardinality({u \in After(id, cursor) : u.id < t.id}) < PAGE_SIZE}

\* fault: the first page is taken for all of them
HasMore_never(id, cursor) == FALSE

\* nextPageToken, @odata.nextLink, has_more.
HasMore(id, cursor) == After(id, cursor) # PageFrom(id, cursor)

\* ... and a page at a time.  Drive knows no folder that is gone, but may answer
\* a query about one in the trash with nothing.
Page(c) ==
    /\ Send(c, "page")
    /\ \/ \E id \in PageOf(c) :
            /\ got' = [got EXCEPT ![c] = @ \union
                    {[id |-> t.id, name |-> t.name, folder |-> t.folder] : t \in PageFrom(id, Cursor(c))}]
            /\ here' = [here EXCEPT ![c] = id]
            /\ IF HasMore(id, Cursor(c)) THEN Go(c, "page") ELSE Return(c, "ok")
       \/ /\ PageOf(c) = {}
          /\ \/ Return(c, IF HasTokens THEN Absent ELSE "failed")
             \/ provider = "google_drive" /\ Return(c, "ok")
          /\ UNCHANGED <<got, here>>
    /\ UNCHANGED <<service, clock, call, profile, dirty, rest, reply>>

-------------------------------------------------------------------------------
\* What the client of a command changed; nothing of a Nextcloud account ever is.
pending_provider_update(c) == IF HasTokens /\ dirty[c] THEN profile[c] ELSE None

\* The command sends that to the session, without minding whether it works.  The
\* agent does not.
Report(c) ==
    /\ pc[c] = "report"
    /\ pc' = [pc EXCEPT ![c] = "idle"]
    /\ \/ /\ c \notin Kept /\ pending_provider_update(c) # None
          /\ session' = pending_provider_update(c)
       \/ UNCHANGED session
    /\ call' = [call EXCEPT ![c] = None]
    /\ rest' = [rest EXCEPT ![c] = <<>>]
    /\ here' = [here EXCEPT ![c] = None]
    /\ got' = [got EXCEPT ![c] = {}]
    /\ result' = [result EXCEPT ![c] = None]
    /\ profile' = [profile EXCEPT ![c] = IF c \in Kept THEN @ ELSE None]
    /\ dirty' = [dirty EXCEPT ![c] = c \in Kept /\ @]
    /\ UNCHANGED <<provider, things, issued, accepted, clock, checked, reply, sent>>

Patience(c) == IF reply[c] # None THEN REFRESH_TIMEOUT ELSE TRANSIT

Tick ==
    /\ clock < MAX_CLOCK /\ Bounded
    /\ \A c \in Client : pc[c] \notin {"idle", "report"} => clock - sent[c] < Patience(c)
    /\ clock' = clock + 1
    /\ UNCHANGED <<service, own>>

\* Other devices add, remove and rename.
OthersChange ==
    /\ used.changes < MAX_CHANGES /\ Bounded
    /\ \E c \in Client : ~Busy(Client \ {c})
    /\ \/ \E t \in things : things' = things \ Beneath(things, t.id) /\ used' = [used EXCEPT !.changes = @ + 1]
       \/ \E t \in things, n \in Names :
            /\ ~t.folder /\ ~TakenIn(t.in, n)
            /\ things' = (things \ {t}) \union {[t EXCEPT !.name = n]}
            /\ used' = [used EXCEPT !.changes = @ + 1]
       \/ \E id \in {Top} \union {t.id : t \in things}, f \in BOOLEAN :
          \E n \in IF id = Top THEN {RootName} ELSE Names :
            /\ Exists(id) /\ ~TakenIn(id, n)
            /\ things' = things \union {[id |-> used.ids + 1, name |-> n, in |-> id, folder |-> f]}
            /\ used' = [used EXCEPT !.changes = @ + 1, !.ids = @ + 1]
    /\ UNCHANGED <<provider, issued, accepted, session, clock, own>>

\* The user withdraws the app's access on the web page of the service.
Revoke ==
    /\ HasTokens /\ accepted # {}
    /\ used.changes < MAX_CHANGES /\ Bounded
    /\ accepted' = {}
    /\ used' = [used EXCEPT !.changes = @ + 1]
    /\ UNCHANGED <<provider, things, issued, session, clock, own>>

-------------------------------------------------------------------------------
\* What a call could have found: kept up to date over every step.
NamesIn(T, id) == {t.name : t \in Children(T, id)}

\* Drive allows folders with one name; a client takes any of them.
Ambiguous(T) == \E t, u \in T : t # u /\ t.folder /\ u.folder /\ t.in = u.in /\ t.name = u.name

Remember(c) ==
    LET idle == pc'[c] = "idle"
        first == pc[c] = "idle"
        k == call'[c]
        lists == k.op = "list"
        at == Reached(things', RootIds(things', profile'[c]), k.dirs)
        all == UNION {NamesIn(things', id) : id \in at}
        common == IF Ambiguous(things') THEN {} ELSE all
        ids == {t.id : t \in Named(things', profile'[c], k)}
    IN  IF idle THEN [named |-> {}, lasting |-> {}, ever |-> {}, missing |-> FALSE] ELSE
        [named |-> IF lists THEN {} ELSE ids \union IF first THEN {} ELSE named[c],
         lasting |-> IF ~lists THEN {} ELSE IF first THEN common ELSE common \intersect lasting[c],
         ever |-> IF ~lists THEN {} ELSE all \union IF first THEN {} ELSE ever[c],
         missing |-> Ambiguous(things') \/ (IF lists THEN at = {} ELSE ~\E id \in ids : ids = {id})
                     \/ (~first /\ missing[c])]

Remembered ==
    \E now \in {[c \in Client |-> Remember(c)]} :
        /\ named' = [c \in Client |-> now[c].named]
        /\ lasting' = [c \in Client |-> now[c].lasting]
        /\ ever' = [c \in Client |-> now[c].ever]
        /\ missing' = [c \in Client |-> now[c].missing]

Step(c) ==
    \/ FreshToken(c) \/ RefreshIssued(c) \/ RefreshRefused(c) \/ RefreshApplied(c)
    \/ Unauthorized(c) \/ Fails(c) \/ Begin(c) \/ CachedRoot(c) \/ FindRoot(c) \/ Walk(c)
    \/ Leaf(c) \/ Get(c) \/ Probe(c) \/ Page(c) \/ Report(c)

Next ==
    /\ \/ \E c \in Client : Step(c) /\ UNCHANGED used
       \/ Tick /\ UNCHANGED used
       \/ \E c \in Client : Delete(c) /\ UNCHANGED used
       \/ \E c \in Client : CreateRoot(c) \/ CreateFolder(c) \/ MakeFolder(c)
       \/ \E c \in Client, kept \in BOOLEAN : \E k \in Call[c] : Start(c, k, kept)
       \/ OthersChange \/ Revoke
    /\ Remembered

Spec == Init /\ [][Next]_vars

-------------------------------------------------------------------------------
TypeOK ==
    /\ \A t, u \in things : t.id = u.id => t = u
    /\ \A t \in things : Exists(t.in) /\ t.id <= used.ids
    /\ provider # "google_drive" =>
        \A t, u \in things : t.in = u.in /\ t.name = u.name => t = u
    /\ session.access \in 1 .. Len(issued)
    /\ \A c \in Client : profile[c] # None => profile[c].access \in 1 .. Len(issued)
    /\ \A c \in Client : pc[c] = "report" <=> result[c] # None /\ pc[c] # "idle"

\* A listing that succeeds has every entry that was in the folder all the time
\* and none that never was, however many pages it takes and whatever other
\* devices do in between: no page is lost, and no error passes for an end.  (Two
\* folders of one name, which Drive allows, hide each other's entries.)
ListingIsHonest ==
    \A c \in Client :
        pc[c] = "report" /\ result[c] = "ok" /\ call[c].op = "list" =>
            LET names == {e.name : e \in got[c]} IN
            lasting[c] \subseteq names /\ names \subseteq ever[c]

\* A path is resolved by a series of requests and the thing then taken by its id,
\* while other devices change the folder: what is downloaded or removed had the
\* path at some time during the call, and a call says that there is nothing only
\* if there was nothing at some time during the call (below the root folder it
\* knows, and unless Drive had two things of the name): no other answer of a
\* service is taken for that.
TakesTheOneNamed ==
    \A c \in Client : pc[c] = "report" =>
        /\ result[c] = "ok" /\ call[c].op \in {"download", "delete"} => got[c] \subseteq named[c]
        /\ result[c] = "not_found" /\ call[c].op # "ensure" => missing[c]

\* The account stays usable without a new login: what clients and session keep
\* is a refresh token the service accepts, also after answers without one.
StaysAuthorised ==
    accepted # {} =>
        /\ session.refresh \in accepted
        /\ \A c \in Client : profile[c] # None => profile[c].refresh \in accepted

\* EXPIRY_SKEW covers the time a token was on its way to the client and the time
\* the request is on its way to the service: only further pages of a listing,
\* which are asked for without looking, may arrive with an expired token.
FreshOnArrival ==
    \A c \in Client :
        Ready(c, pc[c]) /\ IsRequest(c) /\ Expired(c) => pc[c] = "page"
===============================================================================
