---------------------------- MODULE SetupWizard ----------------------------
(***************************************************************************)
(* The configuration walk of the text interface: the screens between       *)
(* Welcome and Done, the provider logins they start, the probe and the     *)
(* save (src/tui/src/app.rs, cli.rs, wizard.rs, upload_test.rs and the     *)
(* OAuth clients of src/core/src/providers).                               *)
(*                                                                         *)
(* The program is one thread.  A key handler only edits the App and raises *)
(* request flags; each turn of the loop serves at most one raised flag     *)
(* with a blocking call and starts over, then polls the login that is      *)
(* waiting for its user, then reads one key.  A flag is therefore served   *)
(* before the next key, except the one a poll raises: the poll falls       *)
(* through to the key of the same turn.                                    *)
(*                                                                         *)
(* Opening, managing and pushing containers is ContainerSession's subject; *)
(* here it is the screens Welcome, ContainerPicker, ProfileManage and      *)
(* PushFlow, with what they do to the walk.                                *)
(***************************************************************************)
EXTENDS Naturals, FiniteSets

CONSTANTS
  DeviceKinds,   \* providers set up by a device flow (GoogleDrive, OneDrive)
  PasteKinds,    \* providers set up by a pasted code (Dropbox)
  Builds,        \* builds to consider: TRUE is the one with the feature remote
  ExpiresIn,     \* ticks of five seconds a device code lives
  MaxInterval    \* bound: ticks at which slow_down answers stop counting

OAuthKinds == DeviceKinds \cup PasteKinds

ASSUME WizardAssumption ==
  /\ DeviceKinds \subseteq {"GoogleDrive", "OneDrive"}
  /\ PasteKinds \subseteq {"Dropbox"}
  /\ Builds \subseteq BOOLEAN
  /\ ExpiresIn \in Nat \ {0}
  /\ MaxInterval \in Nat \ {0}

Kinds == OAuthKinds \cup {"Nextcloud"}

SetupScreen == [GoogleDrive |-> "SetupGoogleDrive", OneDrive |-> "SetupOneDrive",
                Dropbox |-> "SetupDropbox"]

Screens == {"Welcome", "Provider", "NextcloudServer", "NextcloudAuth",
            "NextcloudLoginFlow", "RemoteFolder", "Collision", "TestUpload",
            "InnerAlias", "ProfilePassphrase", "Done", "ContainerPicker",
            "ProfileManage", "PushFlow"} \cup {SetupScreen[k] : k \in OAuthKinds}

VARIABLES
  remote,    \* the build has the feature remote
  screen,    \* App::screen
  mode,      \* App::wizard_mode
  kind,      \* WizardState::provider_kind
  form,      \* what the Nextcloud fields hold, as far as their guards look
  slot,      \* gdrive_setup, onedrive_setup and dropbox_setup
  login,     \* stage of the Nextcloud login flow
  outcome,   \* WizardState::last_test_outcome
  back,      \* test_upload_back holds ProfileManage
  inner,     \* App::inner_alias_state
  pass,      \* App::passphrase_stage
  requests,  \* the request flags raised
  tail,      \* the poll of this turn raised a flag, its key is still to come
  exists,    \* App::local_exists
  session,   \* the container in RAM: none, open, or with an active profile
  unsaved,   \* ghost: the settings of this walk are not stored yet
  stored     \* ghost: every profile stored so far was complete

walkVars == <<kind, form, slot, login, outcome, back>>
endVars == <<inner, pass, exists, session, unsaved, stored>>
vars == <<remote, screen, mode, walkVars, requests, tail, endVars>>

Modes == {"CreateLocal", "CreateRemote", "AddInnerProfile"}

DeviceStages == {"NotStarted", "Initiating", "Polling", "Fetching", "Done", "Failed"}

PasteStages == {"NotStarted", "Initiating", "AwaitingPaste", "Exchanging", "Fetching",
                "Done", "Failed"}

SlotStages == DeviceStages \cup PasteStages

LoginStages == {"NotStarted", "Initiating", "Polling", "Done", "Failed"}

PassStages == {"Editing", "WeakWarning", "Encrypting", "Saved", "Failed"}

\* One flag of App; the flags of a provider carry its kind.
Requests == {<<"Test", "-">>, <<"Save", "-">>, <<"AddInner", "-">>, <<"LoginInit", "-">>}
              \cup ({"Init", "Exchange", "Email"} \X OAuthKinds)

\* The default of the setup states: an interval of one tick and no token.  The
\* pasted-code slot leaves the three clocks alone.
NewSlot == [stage |-> "NotStarted", access |-> FALSE, refresh |-> FALSE,
            age |-> 0, wait |-> 0, interval |-> 1]

NewForm == [server |-> FALSE, auth |-> "AppPassword", creds |-> FALSE, folder |-> FALSE]

Init ==
  /\ remote \in Builds
  /\ screen = "Welcome"
  /\ mode = "CreateLocal"
  /\ kind = "Nextcloud"
  /\ form = NewForm
  /\ slot = [k \in OAuthKinds |-> NewSlot]
  /\ login = "NotStarted"
  /\ outcome = "none"
  /\ back = FALSE
  /\ inner = "Editing"
  /\ pass = "Editing"
  /\ requests = {}
  /\ tail = FALSE
  /\ exists \in BOOLEAN
  /\ session = "none"
  /\ unsaved = FALSE
  /\ stored = TRUE

-----------------------------------------------------------------------------
(* What the loop and the handlers share.                                   *)

\* A key is read when no flag is left to serve in this turn.
KeyOn(s) == screen = s /\ (requests = {} \/ tail) /\ tail' = FALSE

GoTo(s) == screen' = s

\* The settings of the selected provider are all there: what the clients and
\* the profile builders of the probe and of the save ask for.
Complete ==
  IF kind \in OAuthKinds
  THEN slot[kind].access /\ slot[kind].refresh
  ELSE form.server /\ form.creds /\ form.folder

\* hydrate_from_inner: the settings of a stored profile of kind k.  The wizard
\* stores every Nextcloud account as an app password.
Hydrate(k) ==
  /\ kind' = k
  /\ IF k \in OAuthKinds
     THEN /\ slot' = [slot EXCEPT ![k] = [NewSlot EXCEPT !.stage = "Done",
                                            !.access = TRUE, !.refresh = TRUE]]
          /\ UNCHANGED form
     ELSE /\ form' = [server |-> TRUE, auth |-> "AppPassword", creds |-> TRUE,
                      folder |-> TRUE]
          /\ UNCHANGED slot

\* start_add_inner_profile: a fresh state, but only Google Drive's slot.
StartAddInnerProfile ==
  /\ kind' = "Nextcloud"
  /\ form' = NewForm
  /\ outcome' = "none"
  /\ slot' = [k \in OAuthKinds |-> IF k = "GoogleDrive" THEN NewSlot ELSE slot[k]]
  /\ mode' = "AddInnerProfile"
  /\ unsaved' = TRUE
  /\ GoTo("Provider")
  /\ UNCHANGED <<login, back>>

-----------------------------------------------------------------------------
(* Where a walk begins: Welcome, the picker and the manage screen.         *)

\* Configure with no local container.  Nothing of an earlier walk is reset.
ConfigureCreate ==
  /\ KeyOn("Welcome") /\ ~exists
  /\ mode' = "CreateLocal" /\ unsaved' = TRUE /\ GoTo("Provider")
  /\ UNCHANGED <<remote, walkVars, requests, inner, pass, exists, session, stored>>

\* Configure with a local container: once unlocked, its set is in RAM without
\* an active profile, and the walk starts afresh.
ConfigureAdd ==
  /\ KeyOn("Welcome") /\ exists
  /\ StartAddInnerProfile
  /\ session' = "open"
  /\ UNCHANGED <<remote, requests, inner, pass, exists, stored>>

\* ConfigureRemote, once signed in.
ConfigureRemote ==
  /\ KeyOn("Welcome") /\ remote
  /\ mode' = "CreateRemote" /\ unsaved' = TRUE /\ GoTo("Provider")
  /\ UNCHANGED <<remote, walkVars, requests, inner, pass, exists, session, stored>>

OpenContainer ==
  /\ KeyOn("Welcome") /\ exists
  /\ session' = "open" /\ GoTo("ContainerPicker")
  /\ UNCHANGED <<remote, mode, walkVars, requests, inner, pass, exists, unsaved, stored>>

\* A profile whose provider this version does not know hydrates nothing.
PickProfile ==
  /\ KeyOn("ContainerPicker")
  /\ \/ \E k \in Kinds : Hydrate(k)
     \/ UNCHANGED <<kind, form, slot>>
  /\ session' = "active" /\ GoTo("ProfileManage")
  /\ UNCHANGED <<remote, mode, login, outcome, back, requests, inner, pass,
                 exists, unsaved, stored>>

LockContainer ==
  /\ KeyOn("ContainerPicker")
  /\ session' = "none" /\ GoTo("Welcome")
  /\ UNCHANGED <<remote, mode, walkVars, requests, inner, pass, exists, unsaved, stored>>

\* The keys of the manage screen that touch the walk.
ManageAdd ==
  /\ KeyOn("ProfileManage")
  /\ StartAddInnerProfile
  /\ UNCHANGED <<remote, requests, inner, pass, exists, session, stored>>

ManageTest ==
  /\ KeyOn("ProfileManage")
  /\ back' = TRUE /\ GoTo("TestUpload")
  /\ UNCHANGED <<remote, mode, kind, form, slot, login, outcome, requests, endVars>>

ManageLeave ==
  /\ KeyOn("ProfileManage")
  /\ GoTo("Welcome")
  /\ UNCHANGED <<remote, mode, walkVars, requests, endVars>>

\* A wipe drops the active profile and keeps the set.
ManageWipe ==
  /\ KeyOn("ProfileManage")
  /\ exists' = FALSE /\ session' = "open" /\ GoTo("Welcome")
  /\ UNCHANGED <<remote, mode, walkVars, requests, inner, pass, unsaved, stored>>

-----------------------------------------------------------------------------
(* The screens of the walk.                                                *)

OnlyScreen == UNCHANGED <<remote, mode, walkVars, requests, endVars>>

\* The arrows of the provider list.
ProviderMove ==
  /\ KeyOn("Provider")
  /\ kind' \in Kinds \ {kind}
  /\ UNCHANGED <<remote, screen, mode, form, slot, login, outcome, back, requests, endVars>>

\* handle_provider, Enter: a provider with a login starts it from scratch.
ProviderEnter ==
  /\ KeyOn("Provider")
  /\ IF kind \in OAuthKinds
     THEN /\ GoTo(SetupScreen[kind])
          /\ slot' = [slot EXCEPT ![kind] = NewSlot]
          /\ requests' = requests \cup {<<"Init", kind>>}
     ELSE /\ GoTo("NextcloudServer")
          /\ UNCHANGED <<slot, requests>>
  /\ UNCHANGED <<remote, mode, kind, form, login, outcome, back, endVars>>

ProviderBack == KeyOn("Provider") /\ GoTo("Welcome") /\ OnlyScreen

\* Typing commits the field on each key, whatever it holds.
EditServer ==
  /\ KeyOn("NextcloudServer")
  /\ form' = [form EXCEPT !.server = ~@]
  /\ UNCHANGED <<remote, screen, mode, kind, slot, login, outcome, back, requests, endVars>>

ServerEnter == KeyOn("NextcloudServer") /\ form.server /\ GoTo("NextcloudAuth") /\ OnlyScreen

ServerBack == KeyOn("NextcloudServer") /\ GoTo("Provider") /\ OnlyScreen

EditAuth ==
  /\ KeyOn("NextcloudAuth")
  /\ \/ form' = [form EXCEPT !.creds = ~@]
     \/ form' = [form EXCEPT !.auth =
                   IF @ = "LoginFlow" THEN "AppPassword" ELSE "LoginFlow"]
  /\ UNCHANGED <<remote, screen, mode, kind, slot, login, outcome, back, requests, endVars>>

\* handle_auth, Enter: an app password must be complete, a login flow starts.
AuthEnter ==
  /\ KeyOn("NextcloudAuth")
  /\ \/ /\ form.auth = "AppPassword" /\ form.creds
        /\ GoTo("RemoteFolder")
        /\ UNCHANGED <<login, requests>>
     \/ /\ form.auth = "LoginFlow" /\ form.server
        /\ GoTo("NextcloudLoginFlow")
        /\ login' = "Initiating"
        /\ requests' = requests \cup {<<"LoginInit", "-">>}
  /\ UNCHANGED <<remote, mode, kind, form, slot, outcome, back, endVars>>

AuthBack == KeyOn("NextcloudAuth") /\ GoTo("NextcloudServer") /\ OnlyScreen

\* handle_login_flow: Enter when done, Esc drops the flow, r starts it again.
LoginFlowKey ==
  /\ KeyOn("NextcloudLoginFlow")
  /\ \/ /\ login = "Done" /\ GoTo("RemoteFolder") /\ UNCHANGED <<login, requests>>
     \/ /\ login' = "NotStarted" /\ GoTo("NextcloudAuth") /\ UNCHANGED requests
     \/ /\ login = "Failed" /\ login' = "Initiating"
        /\ requests' = requests \cup {<<"LoginInit", "-">>}
        /\ UNCHANGED screen
  /\ UNCHANGED <<remote, mode, kind, form, slot, outcome, back, endVars>>

EditFolder ==
  /\ KeyOn("RemoteFolder")
  /\ form' = [form EXCEPT !.folder = ~@]
  /\ UNCHANGED <<remote, screen, mode, kind, slot, login, outcome, back, requests, endVars>>

FolderEnter == KeyOn("RemoteFolder") /\ form.folder /\ GoTo("Collision") /\ OnlyScreen

FolderBack == KeyOn("RemoteFolder") /\ GoTo("NextcloudAuth") /\ OnlyScreen

\* The setup screens: Enter leaves a finished login.
SetupEnter(k) ==
  /\ KeyOn(SetupScreen[k]) /\ slot[k].stage = "Done"
  /\ GoTo("Collision") /\ OnlyScreen

\* fault: the login goes on
SetupEscKeepsSlot(k) ==
  /\ KeyOn(SetupScreen[k])
  /\ requests' = requests \ ({"Init", "Exchange", "Email"} \X {k})
  /\ GoTo("Provider")
  /\ UNCHANGED <<remote, mode, kind, form, slot, login, outcome, back, endVars>>

\* Esc forgets the login, with the flags it had raised.
SetupEsc(k) ==
  /\ KeyOn(SetupScreen[k])
  /\ slot' = [slot EXCEPT ![k] = NewSlot]
  /\ requests' = requests \ ({"Init", "Exchange", "Email"} \X {k})
  /\ GoTo("Provider")
  /\ UNCHANGED <<remote, mode, kind, form, login, outcome, back, endVars>>

SetupRetry(k) ==
  /\ KeyOn(SetupScreen[k]) /\ slot[k].stage = "Failed"
  /\ slot' = [slot EXCEPT ![k] = [NewSlot EXCEPT !.stage = "Initiating"]]
  /\ requests' = requests \cup {<<"Init", k>>}
  /\ UNCHANGED <<remote, screen, mode, kind, form, login, outcome, back, endVars>>

\* Enter with a plausible pasted code.
PasteEnter(k) ==
  /\ KeyOn(SetupScreen[k]) /\ slot[k].stage = "AwaitingPaste"
  /\ slot' = [slot EXCEPT ![k].stage = "Exchanging"]
  /\ requests' = requests \cup {<<"Exchange", k>>}
  /\ UNCHANGED <<remote, screen, mode, kind, form, login, outcome, back, endVars>>

CollisionEnter == KeyOn("Collision") /\ GoTo("TestUpload") /\ OnlyScreen

\* Screen::previous knows one way back, whatever the provider.
CollisionBack == KeyOn("Collision") /\ GoTo("RemoteFolder") /\ OnlyScreen

\* handle_test_upload: Enter runs the probe until it has succeeded, then goes
\* back to the manage screen or on to the alias.
TestEnter ==
  /\ KeyOn("TestUpload")
  /\ \/ /\ outcome # "Ok"
        /\ requests' = requests \cup {<<"Test", "-">>}
        /\ UNCHANGED <<screen, back, inner>>
     \/ /\ outcome = "Ok" /\ back
        /\ back' = FALSE /\ GoTo("ProfileManage")
        /\ UNCHANGED <<requests, inner>>
     \/ /\ outcome = "Ok" /\ ~back
        /\ inner' = "Editing" /\ GoTo("InnerAlias")
        /\ UNCHANGED <<requests, back>>
  /\ UNCHANGED <<remote, mode, kind, form, slot, login, outcome, pass,
                 exists, session, unsaved, stored>>

TestBack ==
  /\ KeyOn("TestUpload")
  /\ back' = FALSE
  /\ GoTo(IF back THEN "ProfileManage" ELSE "Collision")
  /\ UNCHANGED <<remote, mode, kind, form, slot, login, outcome, requests, endVars>>

\* handle_inner_alias, Enter.  A refused alias stays; the first set-up goes on
\* to the passphrase; an addition raises its request.
AliasEnter ==
  /\ KeyOn("InnerAlias") /\ inner # "Saving"
  /\ \/ inner' = "Failed" /\ UNCHANGED <<screen, requests>>
     \/ /\ mode # "AddInnerProfile"
        /\ inner' = "Editing" /\ GoTo("ProfilePassphrase") /\ UNCHANGED requests
     \/ /\ mode = "AddInnerProfile"
        /\ inner' = "Saving" /\ UNCHANGED screen
        /\ requests' = requests \cup {<<"AddInner", "-">>}
  /\ UNCHANGED <<remote, mode, walkVars, pass, exists, session, unsaved, stored>>

AliasBack ==
  /\ KeyOn("InnerAlias") /\ inner # "Saving"
  /\ inner' = "Editing"
  /\ GoTo(CASE session = "active" -> "ProfileManage"
            [] session = "open" -> "ContainerPicker"
            [] session = "none" -> "Welcome")
  /\ UNCHANGED <<remote, mode, walkVars, requests, pass, exists, session, unsaved, stored>>

\* handle_passphrase, stage by stage.
PassphraseKey ==
  /\ KeyOn("ProfilePassphrase")
  /\ \/ /\ pass = "Editing" /\ pass' = "WeakWarning"
        /\ UNCHANGED <<screen, requests>>
     \/ /\ pass \in {"Editing", "WeakWarning"} /\ pass' = "Encrypting"
        /\ requests' = requests \cup {<<"Save", "-">>}
        /\ UNCHANGED screen
     \/ /\ pass \in {"WeakWarning", "Failed"} /\ pass' = "Editing"
        /\ UNCHANGED <<screen, requests>>
     \/ /\ pass = "Editing" /\ GoTo("TestUpload")
        /\ UNCHANGED <<pass, requests>>
     \/ /\ pass = "Saved" /\ screen' \in {"Done", "PushFlow"}
        /\ UNCHANGED <<pass, requests>>
  /\ UNCHANGED <<remote, mode, walkVars, inner, exists, session, unsaved, stored>>

\* return_to_welcome_after_done.
DoneEnter ==
  /\ KeyOn("Done")
  /\ pass' = "Editing" /\ mode' = "CreateLocal" /\ GoTo("Welcome")
  /\ UNCHANGED <<remote, walkVars, requests, inner, exists, session, unsaved, stored>>

\* The push flow ends in Done when pushed, in Welcome when given up after a
\* failure.  In the default build its first request is never served.
PushFlowEnd ==
  /\ KeyOn("PushFlow") /\ remote
  /\ screen' \in {"Done", "Welcome"}
  /\ OnlyScreen

-----------------------------------------------------------------------------
(* The loop: one raised flag served, its blocking call with each answer.   *)

Serve(r) ==
  /\ r \in requests /\ ~tail
  /\ requests' = requests \ {r}
  /\ UNCHANGED <<remote, tail>>

ProbeSteps == <<"ensure", "marker", "upload", "cleanup">>

\* start_probe, mark_probe_*_ok and fail_probe_*: the marks when the probe ends
\* at step `failed`, one past the last when none fails.
ProbeMarks(failed) ==
  [i \in DOMAIN ProbeSteps |->
     IF i < failed THEN "Ok" ELSE IF i = failed THEN "Err" ELSE "Skip"]

ProbeOutcome(failed) ==
  IF \A i \in DOMAIN ProbeSteps : ProbeMarks(failed)[i] = "Ok" THEN "Ok" ELSE "Failed"

\* run_probe_ensure and the three steps after it: incomplete settings fail at
\* the first, complete ones may fail at each.
ProbeEnds == IF Complete THEN 1 .. 5 ELSE {1}

ServeTest ==
  /\ Serve(<<"Test", "-">>)
  /\ outcome' \in {ProbeOutcome(failed) : failed \in ProbeEnds}
  /\ UNCHANGED <<screen, mode, kind, form, slot, login, back, endVars>>

\* fault: a missing refresh token is not noticed
SaveLooksAtAccess == kind \in OAuthKinds => slot[kind].access

\* save_profile_with_alias_at refuses a provider without tokens; it does not
\* look at the fields of Nextcloud.
SaveMaySucceed == kind \in OAuthKinds => Complete

Store == stored' = (stored /\ Complete)

\* run_save_profile, apply_save_done and apply_save_failed.
ServeSave ==
  /\ Serve(<<"Save", "-">>)
  /\ \/ /\ SaveMaySucceed /\ Store
        /\ exists' = TRUE /\ unsaved' = FALSE
        /\ pass' = "Saved"
        /\ session' = IF session = "active" THEN "open" ELSE session
        /\ GoTo(IF mode = "CreateRemote" THEN "PushFlow" ELSE screen)
     \/ /\ pass' = "Failed" /\ UNCHANGED <<screen, exists, session, unsaved, stored>>
  /\ UNCHANGED <<mode, walkVars, inner>>

\* perform_add_inner_profile, apply_inner_added (which hydrates the walk from
\* the profile just added) and apply_inner_failed.
ServeAddInner ==
  /\ Serve(<<"AddInner", "-">>)
  /\ \/ /\ SaveMaySucceed /\ session # "none" /\ Store
        /\ unsaved' = FALSE /\ session' = "active"
        /\ inner' = "Editing" /\ GoTo("Done")
        /\ Hydrate(kind)
     \/ /\ inner' = "Failed"
        /\ UNCHANGED <<screen, session, unsaved, stored, kind, form, slot>>
  /\ UNCHANGED <<mode, login, outcome, back, pass, exists>>

\* apply_login_flow_init, _init_failed, _done and _failed: the stage after an
\* answer.
LoginAfter(answer) ==
  CASE answer = "address" -> "Polling"
    [] answer = "password" -> "Done"
    [] answer = "error" -> "Failed"

ServeLoginInit ==
  /\ Serve(<<"LoginInit", "-">>)
  /\ login' \in {LoginAfter("address"), LoginAfter("error")}
  /\ UNCHANGED <<screen, mode, kind, form, slot, outcome, back, endVars>>

OnlySlot == UNCHANGED <<screen, mode, kind, form, login, outcome, back, endVars>>

\* What a token answer leaves in the slot; the provider may grant no refresh
\* token.
Granted(s, r) == [s EXCEPT !.stage = "Fetching", !.access = TRUE, !.refresh = r \/ @]

Refused(s) == [s EXCEPT !.stage = "Failed"]

\* The answers of a provider: a code with an interval, tokens, a demand to slow
\* down, the account, and any failure.
Code(interval) == [is |-> "code", interval |-> interval]
Tokens(refresh) == [is |-> "tokens", refresh |-> refresh]
SlowDown == [is |-> "slow_down"]
Account == [is |-> "account"]
Failure == [is |-> "failure"]

\* The methods apply_gdrive_* and apply_onedrive_*, and the bump_*_interval: the
\* slot of a device login after an answer.  An interval of zero counts as one.
DeviceAfter(s, answer) ==
  CASE answer.is = "code" ->
         [s EXCEPT !.stage = "Polling", !.age = 0, !.wait = 0,
                   !.interval = IF answer.interval = 0 THEN 1 ELSE answer.interval]
    [] answer.is = "tokens" -> Granted(s, answer.refresh)
    [] answer.is = "slow_down" -> [s EXCEPT !.interval = @ + 1]
    [] answer.is = "account" -> [s EXCEPT !.stage = "Done"]
    [] answer.is = "failure" -> Refused(s)

\* The methods apply_dropbox_*: the code here is the address to open.
PasteAfter(s, answer) ==
  CASE answer.is = "code" -> [s EXCEPT !.stage = "AwaitingPaste"]
    [] answer.is = "tokens" -> Granted(s, answer.refresh)
    [] answer.is = "account" -> [s EXCEPT !.stage = "Done"]
    [] answer.is = "failure" -> Refused(s)

After(k, answer) ==
  slot' = [slot EXCEPT ![k] = IF k \in DeviceKinds THEN DeviceAfter(@, answer)
                                                  ELSE PasteAfter(@, answer)]

\* initiate of the device flow.
ServeDeviceInit(k) ==
  /\ Serve(<<"Init", k>>)
  /\ \/ \E asked \in {0, 1} : After(k, Code(asked))
     \/ After(k, Failure)
  /\ OnlySlot

\* The authorize address of the pasted code, built without a request.
ServePasteInit(k) ==
  /\ Serve(<<"Init", k>>)
  /\ After(k, Code(0))
  /\ OnlySlot

\* fault: nobody asks for the account
ServeExchangeOnly(k) ==
  /\ Serve(<<"Exchange", k>>)
  /\ (\E r \in BOOLEAN : After(k, Tokens(r))) \/ After(k, Failure)
  /\ OnlySlot

ServeExchange(k) ==
  /\ <<"Exchange", k>> \in requests /\ ~tail
  /\ \/ /\ \E r \in BOOLEAN : After(k, Tokens(r))
        /\ requests' = (requests \ {<<"Exchange", k>>}) \cup {<<"Email", k>>}
     \/ /\ After(k, Failure)
        /\ requests' = requests \ ({"Init", "Exchange", "Email"} \X {k})
  /\ OnlySlot /\ UNCHANGED <<remote, tail>>

ServeEmail(k) ==
  /\ Serve(<<"Email", k>>)
  /\ (slot[k].access /\ After(k, Account)) \/ After(k, Failure)
  /\ OnlySlot

-----------------------------------------------------------------------------
(* The loop: the logins that wait for their user.                          *)

\* run_login_flow_poll, every two seconds.  It has no expiry.
PollLogin ==
  /\ requests = {} /\ login = "Polling"
  /\ \/ /\ login' = LoginAfter("password")
        /\ form' = [form EXCEPT !.creds = TRUE, !.auth = "LoginFlow"]
     \/ login' = LoginAfter("error") /\ UNCHANGED form
  /\ UNCHANGED <<remote, screen, mode, kind, slot, outcome, back, requests, tail, endVars>>

\* A device code that has expired ends its login before anything is asked.
ExpireDevice(k) ==
  /\ requests = {} /\ slot[k].stage = "Polling" /\ slot[k].age >= ExpiresIn
  /\ After(k, Failure)
  /\ UNCHANGED <<remote, requests, tail>> /\ OnlySlot

\* poll_once, when the interval has passed: pending, slow_down, tokens, or any
\* error, a denial and a network failure alike.
PollDevice(k) ==
  /\ requests = {} /\ slot[k].stage = "Polling" /\ slot[k].age < ExpiresIn
  /\ slot[k].wait >= slot[k].interval
  /\ LET polled == [slot[k] EXCEPT !.wait = 0]
     IN \/ /\ \/ slot' = [slot EXCEPT ![k] = polled]
              \/ /\ polled.interval < MaxInterval
                 /\ slot' = [slot EXCEPT ![k] = DeviceAfter(polled, SlowDown)]
              \/ slot' = [slot EXCEPT ![k] = Refused(polled)]
           /\ UNCHANGED <<requests, tail>>
        \/ /\ \E r \in BOOLEAN : slot' = [slot EXCEPT ![k] = DeviceAfter(polled, Tokens(r))]
           /\ requests' = {<<"Email", k>>} /\ tail' = TRUE
  /\ OnlySlot /\ UNCHANGED remote

\* fault: the clock of the code starts again with each poll
TickSincePoll(k) ==
  /\ requests = {} /\ slot[k].stage = "Polling" /\ slot[k].age < ExpiresIn
  /\ LET w == IF slot[k].wait < MaxInterval THEN slot[k].wait + 1 ELSE slot[k].wait
     IN slot' = [slot EXCEPT ![k].age = w, ![k].wait = w]
  /\ UNCHANGED <<remote, requests, tail>> /\ OnlySlot

\* Five seconds without a key; the key of the turn that polled is not pressed.
Tick(k) ==
  /\ requests = {} /\ slot[k].stage = "Polling" /\ slot[k].age < ExpiresIn
  /\ slot' = [slot EXCEPT ![k].age = @ + 1, ![k].wait = IF @ < MaxInterval THEN @ + 1 ELSE @]
  /\ UNCHANGED <<remote, requests, tail>> /\ OnlySlot

\* event::poll times out: the turn ends without a key.
NoKey == tail /\ tail' = FALSE /\ UNCHANGED <<remote, screen, mode, walkVars, requests, endVars>>

-----------------------------------------------------------------------------

Key ==
  \/ ConfigureCreate \/ ConfigureAdd \/ ConfigureRemote \/ OpenContainer
  \/ PickProfile \/ LockContainer \/ ManageAdd \/ ManageTest \/ ManageLeave \/ ManageWipe
  \/ ProviderMove \/ ProviderEnter \/ ProviderBack
  \/ EditServer \/ ServerEnter \/ ServerBack \/ EditAuth \/ AuthEnter \/ AuthBack
  \/ LoginFlowKey \/ EditFolder \/ FolderEnter \/ FolderBack
  \/ CollisionEnter \/ CollisionBack \/ TestEnter \/ TestBack
  \/ AliasEnter \/ AliasBack \/ PassphraseKey \/ DoneEnter \/ PushFlowEnd
  \/ \E k \in OAuthKinds : SetupEnter(k) \/ SetupEsc(k) \/ SetupRetry(k)
  \/ \E k \in PasteKinds : PasteEnter(k)

Loop ==
  \/ ServeTest \/ ServeSave \/ ServeAddInner \/ ServeLoginInit \/ PollLogin \/ NoKey
  \/ \E k \in OAuthKinds : ServeEmail(k)
  \/ \E k \in PasteKinds : ServePasteInit(k) \/ ServeExchange(k)
  \/ \E k \in DeviceKinds : ServeDeviceInit(k) \/ ExpireDevice(k) \/ PollDevice(k)

Next == Key \/ Loop \/ \E k \in DeviceKinds : Tick(k)

\* The loop never stops turning and the clock never stops.  PollLogin is left
\* out of what is owed: an answer other than "not yet" depends on the server.
Fairness ==
  /\ WF_vars(ServeTest) /\ WF_vars(ServeSave) /\ WF_vars(ServeAddInner)
  /\ WF_vars(ServeLoginInit) /\ WF_vars(NoKey)
  /\ \A k \in OAuthKinds : WF_vars(ServeEmail(k))
  /\ \A k \in PasteKinds : WF_vars(ServePasteInit(k)) /\ WF_vars(ServeExchange(k))
  /\ \A k \in DeviceKinds :
       WF_vars(ServeDeviceInit(k)) /\ WF_vars(Tick(k)) /\ WF_vars(ExpireDevice(k))

Spec == Init /\ [][Next]_vars /\ Fairness

-----------------------------------------------------------------------------
(* Properties.                                                             *)

TypeOK ==
  /\ remote \in Builds
  /\ screen \in Screens
  /\ mode \in Modes
  /\ kind \in Kinds
  /\ form \in [server : BOOLEAN, auth : {"AppPassword", "LoginFlow"},
               creds : BOOLEAN, folder : BOOLEAN]
  /\ \A k \in DeviceKinds : slot[k].stage \in DeviceStages
  /\ \A k \in PasteKinds : slot[k].stage \in PasteStages
  /\ slot \in [OAuthKinds -> [stage : SlotStages, access : BOOLEAN, refresh : BOOLEAN,
                              age : 0 .. ExpiresIn, wait : 0 .. MaxInterval,
                              interval : 1 .. MaxInterval]]
  /\ login \in LoginStages
  /\ outcome \in {"none", "Ok", "Failed"}
  /\ back \in BOOLEAN
  /\ inner \in {"Editing", "Saving", "Failed"}
  /\ pass \in PassStages
  /\ requests \subseteq Requests
  /\ tail \in BOOLEAN
  /\ exists \in BOOLEAN
  /\ session \in {"none", "open", "active"}
  /\ unsaved \in BOOLEAN
  /\ stored \in BOOLEAN

\* The screen that raised a flag.
OwnerOf(r) ==
  CASE r[1] = "Test" -> "TestUpload"
    [] r[1] = "Save" -> "ProfilePassphrase"
    [] r[1] = "AddInner" -> "InnerAlias"
    [] r[1] = "LoginInit" -> "NextcloudLoginFlow"
    [] OTHER -> SetupScreen[r[2]]

\* A login is polled only while its screen is shown (the loop looks at the
\* stage alone): a user who has gone elsewhere is not signed in behind his back.
PollsWhatIsShown ==
  /\ login = "Polling" => screen = "NextcloudLoginFlow"
  /\ \A k \in OAuthKinds : slot[k].stage = "Polling" => screen = SetupScreen[k]

\* No answer is applied to a walk that has moved on: whenever a flag is up it is
\* the only one, and the screen that raised it is still shown.  (Leaving a setup
\* screen in the turn whose poll brought the tokens must take the flag down.)
\* And a stage that takes no key but Esc has its flag up: nobody waits for a call
\* that will never be made.
BusyIsServed ==
  /\ \A r \in requests : requests = {r} /\ screen = OwnerOf(r)
  /\ \A k \in OAuthKinds :
       /\ screen = SetupScreen[k]
       /\ slot[k].stage \in {"NotStarted", "Initiating", "Exchanging", "Fetching"}
       => \E n \in {"Init", "Exchange", "Email"} : <<n, k>> \in requests
  /\ screen = "NextcloudLoginFlow" /\ login \in {"NotStarted", "Initiating"}
       => <<"LoginInit", "-">> \in requests
  /\ screen = "ProfilePassphrase" /\ pass = "Encrypting" => <<"Save", "-">> \in requests
  /\ screen = "InnerAlias" /\ inner = "Saving" => <<"AddInner", "-">> \in requests

\* What is stored can be used: no profile without its tokens or its account.  In
\* the default build the Done screen closes the walk it confirms: what was
\* configured is stored by then.
StoredIsComplete ==
  /\ stored
  /\ ~remote /\ screen = "Done" => ~unsaved

\* A device login ends even if the user never answers on the other device and
\* the provider only ever says pending or slow_down.
DeviceLoginEnds ==
  \A k \in DeviceKinds : slot[k].stage = "Polling" ~> slot[k].stage # "Polling"
=============================================================================
