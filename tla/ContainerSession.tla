-------------------------- MODULE ContainerSession --------------------------
(***************************************************************************)
(* The containers as the text interface handles them: opening one, picking *)
(* and managing a profile, adding and deleting profiles, the first save,   *)
(* the wipe, and the exchange of containers with the server                *)
(* (src/tui/src/app.rs, cli.rs and upload_test.rs).                        *)
(*                                                                         *)
(* The interface keeps a copy of the container in RAM and flags that say   *)
(* which files exist; neither is read again from the disk while it runs.   *)
(* What matters is whether that memory still fits the files when a profile *)
(* is written.                                                             *)
(*                                                                         *)
(* The screens from the choice of a provider to the probe are SetupWizard's*)
(* subject and one screen here.  The key of a container is left out: it is *)
(* in RAM exactly when the set is.  The agent and other processes are      *)
(* ContainerSync's subject.                                                *)
(***************************************************************************)
EXTENDS Naturals

CONSTANTS
  Builds,       \* builds to consider: TRUE is the one with the feature remote
  MaxProfiles   \* bound: profiles made before a run ends, two of them at its
                \* start; one less in the remote build, which has more to do

ASSUME SessionAssumption ==
  /\ Builds \subseteq BOOLEAN
  /\ MaxProfiles \in Nat
  /\ MaxProfiles >= 3

VARIABLES
  remote,    \* the build has the feature remote
  disk,      \* the container files: what they hold, nothing without a file
  server,    \* the container the server holds for the account
  made,      \* profiles made so far; a profile is its number
  screen,    \* App::screen
  mode,      \* App::wizard_mode
  exists,    \* App::local_exists and remote_exists
  source,    \* App::unlock_source
  cached,    \* App::cached_source
  ram,       \* App::unlocked_set and unlocked_kek; no profiles for None
  active,    \* App::unlocked_profile, 0 for None
  manage,    \* App::manage_stage
  pass,      \* App::passphrase_stage
  inner,     \* App::inner_alias_state
  saved,     \* App::saved_path
  push,      \* App::push_flow
  back,      \* App::push_back
  target,    \* App::post_login_target
  token,     \* App::cached_session_token
  requests,  \* the request flags raised
  wiped      \* ghost: there has been a wipe

fileVars == <<disk, server, made, wiped>>
lockVars == <<exists, source, cached, ram, active, manage>>
walkVars == <<mode, pass, inner, saved>>
pushVars == <<push, back, target, token>>
vars == <<remote, screen, requests, fileVars, lockVars, walkVars, pushVars>>

Sources == {"Local", "Remote"}
Profiles == 1 .. MaxProfiles
None == "none"

\* What a file holds that was cut short while it was written: no profile, but a
\* file all the same.
Torn == {0}

\* A file written in place, when that fails.  Bound: one torn file at a time.
FailedWrite(s) ==
  \/ UNCHANGED disk
  \/ /\ Torn \notin {disk["Local"], disk["Remote"], server}
     /\ disk' = [disk EXCEPT ![s] = Torn]

\* PushFlowState::default.  Of the list of aliases it counts whether there is one.
NewPush == [mode |-> "Push", stage |-> "AccountForm", session |-> FALSE, listed |-> FALSE]

PushStages == {"AccountForm", "AccountSending", "TotpForm", "TotpSending", "PushForm",
               "PushFetching", "PushSending", "Done", "Failed"}

ManageStages == {"Locked", "Unlocking", "Viewing", "WipeConfirm", "Wiping",
                 "DeleteInnerConfirm", "DeletingInner"}

PushModes == {"Push", "SignIn"}

PushRequests == {"Login", "Totp", "List", "Rewrite", "Send", "Download"}

\* App::new: the flags are what the disk says at the start.
Fresh ==
  /\ screen = "Welcome" /\ mode = "CreateLocal"
  /\ exists = [s \in Sources |-> disk[s] # {}]
  /\ source = "Local" /\ cached = None /\ ram = {} /\ active = 0
  /\ manage = "Locked" /\ pass = "Editing" /\ inner = "Editing" /\ saved = None
  /\ push = NewPush /\ back = None /\ target = None /\ token = FALSE
  /\ requests = {}

Init ==
  /\ remote \in Builds
  /\ disk \in [Sources -> {{}, {1}, {2}}]
  /\ disk["Local"] # {2}
  /\ disk["Remote"] \in IF remote THEN {{}, {2}} ELSE {{}}
  /\ server \in IF remote THEN {{}, {2}} ELSE {{}}
  /\ made = 2
  /\ wiped = FALSE
  /\ Fresh

-----------------------------------------------------------------------------
(* What the handlers share.                                                *)

\* The loop of the default build has no code for the requests of the push flow.
Served == IF remote THEN requests ELSE requests \ PushRequests

\* A key is read when nothing is left to serve.
KeyOn(s) == screen = s /\ Served = {} /\ UNCHANGED remote

GoTo(s) == screen' = s

Raise(r) == requests' = requests \cup {r}

\* active_profile_path.
ActivePath ==
  CASE exists[source] -> source
    [] ~exists[source] /\ exists["Remote"] -> "Remote"
    [] ~exists[source] /\ ~exists["Remote"] /\ exists["Local"] -> "Local"
    [] OTHER -> None

\* A new profile, as far as the bound goes.
MakeProfile ==
  /\ made < IF remote THEN MaxProfiles - 1 ELSE MaxProfiles
  /\ made' = made + 1

\* saved_path follows the active path where there is one.
RememberPath == saved' = IF ActivePath = None THEN saved ELSE ActivePath

\* enter_push_flow_with_alias_list: a session of this run is used again.
EnterPush(m, b) ==
  /\ back' = b /\ target' = None
  /\ IF token
     THEN /\ push' = [NewPush EXCEPT !.mode = m, !.stage = "PushFetching", !.session = TRUE]
          /\ Raise("List") /\ GoTo("PushProfile")
     ELSE /\ push' = [NewPush EXCEPT !.mode = m]
          /\ GoTo("Account") /\ UNCHANGED requests
  /\ UNCHANGED token

\* exit_push_flow_to.
ExitPush(s) ==
  /\ push' = NewPush
  /\ requests' = requests \ PushRequests
  /\ GoTo(s)

\* start_add_inner_profile.
StartAddInnerProfile == mode' = "AddInnerProfile" /\ GoTo("Wizard")

-----------------------------------------------------------------------------
(* Welcome.                                                                *)

\* welcome_items_active, without the installer of completions and Quit.
welcome_items_active ==
  {"Configure"}
    \cup (IF exists["Local"] THEN {"OpenLocal"} ELSE {})
    \cup (IF remote THEN {"ConfigureRemote", "SignIn"} ELSE {})
    \cup (IF remote /\ exists["Remote"] THEN {"OpenRemote"} ELSE {})

\* handle_welcome: Enter on an item.
Choose(item) == KeyOn("Welcome") /\ item \in welcome_items_active

OpenItem(s) == IF s = "Local" THEN "OpenLocal" ELSE "OpenRemote"

\* fault: the stage of an earlier unlock stays
OpenProfileAsIs(s) ==
  /\ Choose(OpenItem(s))
  /\ source' = s /\ active' = 0 /\ cached' = None /\ ram' = {} /\ GoTo("ProfileUnlock")
  /\ UNCHANGED <<manage, exists, requests, fileVars, walkVars, pushVars>>

\* open_profile: the container still in RAM is opened without its passphrase.
OpenProfile(s) ==
  /\ Choose(OpenItem(s))
  /\ source' = s /\ active' = 0 /\ manage' = "Locked"
  /\ \/ /\ cached = s /\ ram # {}
        /\ GoTo("ContainerPicker") /\ UNCHANGED <<cached, ram>>
     \/ /\ ~(cached = s /\ ram # {})
        /\ cached' = None /\ ram' = {} /\ GoTo("ProfileUnlock")
  /\ UNCHANGED <<exists, requests, fileVars, walkVars, pushVars>>

\* Configure: a container that is there must be unlocked to be added to.
Configure ==
  /\ Choose("Configure")
  /\ \/ /\ exists["Local"]
        /\ mode' = "AddInnerProfile"
        /\ source' = "Local" /\ active' = 0 /\ cached' = None /\ manage' = "Locked"
        /\ GoTo("ProfileUnlock")
     \/ /\ ~exists["Local"]
        /\ mode' = "CreateLocal" /\ GoTo("Wizard")
        /\ UNCHANGED <<source, active, cached, manage>>
  /\ UNCHANGED <<exists, ram, pass, inner, saved, requests, fileVars, pushVars>>

\* ConfigureRemote: the login comes before the walk.
ConfigureRemote ==
  /\ Choose("ConfigureRemote")
  /\ mode' = "CreateRemote"
  /\ IF token
     THEN /\ push' = [NewPush EXCEPT !.session = TRUE]
          /\ target' = None /\ GoTo("Wizard") /\ UNCHANGED back
     ELSE /\ push' = NewPush
          /\ back' = "Welcome" /\ target' = "Wizard" /\ GoTo("Account")
  /\ UNCHANGED <<token, pass, inner, saved, requests, fileVars, lockVars>>

SignIn ==
  /\ Choose("SignIn")
  /\ EnterPush("SignIn", "Welcome")
  /\ UNCHANGED <<fileVars, lockVars, walkVars>>

-----------------------------------------------------------------------------
(* Unlock, picker and manage.                                              *)

\* handle_profile_unlock.
UnlockKey ==
  /\ KeyOn("ProfileUnlock") /\ manage # "Unlocking"
  /\ \/ GoTo("Welcome") /\ UNCHANGED <<manage, requests>>
     \/ manage' = "Unlocking" /\ Raise("Unlock") /\ UNCHANGED screen
  /\ UNCHANGED <<exists, source, cached, ram, active, fileVars, walkVars, pushVars>>

\* confirm_picker_selection.
PickProfile ==
  /\ KeyOn("ContainerPicker")
  /\ active' \in ram
  /\ RememberPath
  /\ manage' = "Viewing" /\ GoTo("ProfileManage")
  /\ UNCHANGED <<exists, source, cached, ram, mode, pass, inner, requests, fileVars, pushVars>>

\* fault: the profile managed last stays
LockPickerHalf ==
  /\ KeyOn("ContainerPicker")
  /\ ram' = {} /\ GoTo("Welcome")
  /\ UNCHANGED <<active, exists, source, cached, manage, requests, fileVars, walkVars, pushVars>>

\* Esc, or a picker with nothing to show: lock_picker_state.
LockPicker ==
  /\ KeyOn("ContainerPicker")
  /\ ram' = {} /\ active' = 0 /\ GoTo("Welcome")
  /\ UNCHANGED <<exists, source, cached, manage, requests, fileVars, walkVars, pushVars>>

Confirming == manage \in {"WipeConfirm", "Wiping", "DeleteInnerConfirm", "DeletingInner"}

\* handle_profile_manage outside its confirmations: Esc keeps what is in RAM.
ManageEsc ==
  /\ KeyOn("ProfileManage") /\ ~Confirming
  /\ manage' = "Locked" /\ GoTo("Welcome")
  /\ UNCHANGED <<exists, source, cached, ram, active, requests, fileVars, walkVars, pushVars>>

ManageAdd ==
  /\ KeyOn("ProfileManage") /\ ~Confirming /\ ram # {}
  /\ StartAddInnerProfile
  /\ UNCHANGED <<pass, inner, saved, requests, fileVars, lockVars, pushVars>>

ManagePush ==
  /\ KeyOn("ProfileManage") /\ ~Confirming
  /\ EnterPush("Push", "ProfileManage")
  /\ UNCHANGED <<fileVars, lockVars, walkVars>>

\* w and D ask before they act; the last profile is not deleted.
ManageAsk ==
  /\ KeyOn("ProfileManage") /\ ~Confirming
  /\ \/ manage' = "WipeConfirm"
     \/ /\ \E p, q \in ram : p # q
        /\ manage' = "DeleteInnerConfirm"
  /\ UNCHANGED <<screen, exists, source, cached, ram, active, requests,
                 fileVars, walkVars, pushVars>>

ManageAnswer ==
  /\ KeyOn("ProfileManage")
  /\ \/ manage = "WipeConfirm" /\ manage' = "Wiping" /\ Raise("Wipe")
     \/ manage = "DeleteInnerConfirm" /\ manage' = "DeletingInner" /\ Raise("Delete")
     \/ /\ manage \in {"WipeConfirm", "DeleteInnerConfirm"}
        /\ manage' = "Viewing" /\ UNCHANGED requests
  /\ UNCHANGED <<screen, exists, source, cached, ram, active, fileVars, walkVars, pushVars>>

-----------------------------------------------------------------------------
(* The walk: the wizard as a whole, the alias, the passphrase, Done.       *)

WizardKey ==
  /\ KeyOn("Wizard")
  /\ \/ GoTo("Welcome") /\ UNCHANGED inner
     \/ inner' = "Editing" /\ GoTo("InnerAlias")
  /\ UNCHANGED <<mode, pass, saved, requests, fileVars, lockVars, pushVars>>

\* handle_inner_alias: Esc goes where there is something to show.
AliasKey ==
  /\ KeyOn("InnerAlias") /\ inner # "Saving"
  /\ \/ /\ inner' = "Editing" /\ UNCHANGED requests
        /\ GoTo(CASE active # 0 -> "ProfileManage"
                  [] active = 0 /\ ram # {} -> "ContainerPicker"
                  [] OTHER -> "Welcome")
     \/ inner' = "Failed" /\ UNCHANGED <<screen, requests>>
     \/ /\ mode # "AddInnerProfile"
        /\ inner' = "Editing" /\ GoTo("ProfilePassphrase") /\ UNCHANGED requests
     \/ /\ mode = "AddInnerProfile"
        /\ inner' = "Saving" /\ Raise("Add") /\ UNCHANGED screen
  /\ UNCHANGED <<mode, pass, saved, fileVars, lockVars, pushVars>>

\* handle_passphrase; a weak passphrase asks once more.
PassphraseKey ==
  /\ KeyOn("ProfilePassphrase")
  /\ \/ /\ pass = "Editing" /\ GoTo("Wizard")
        /\ UNCHANGED <<pass, requests, push, back>>
     \/ /\ pass = "Editing" /\ pass' = "Encrypting" /\ Raise("Save")
        /\ UNCHANGED <<screen, push, back>>
     \/ /\ pass = "Failed" /\ pass' = "Editing"
        /\ UNCHANGED <<screen, requests, push, back>>
     \/ /\ pass = "Saved" /\ GoTo("Done")
        /\ UNCHANGED <<pass, requests, push, back>>
     \/ /\ pass = "Saved" /\ push' = NewPush /\ back' = None /\ GoTo("Account")
        /\ UNCHANGED <<pass, requests>>
  /\ UNCHANGED <<mode, inner, saved, target, token, fileVars, lockVars>>

\* return_to_welcome_after_done.
DoneKey ==
  /\ KeyOn("Done")
  /\ pass' = "Editing" /\ saved' = None /\ mode' = "CreateLocal" /\ push' = NewPush
  /\ GoTo("Welcome")
  /\ UNCHANGED <<inner, back, target, token, requests, fileVars, lockVars>>

-----------------------------------------------------------------------------
(* The push flow: Account, LoginTotp and PushProfile.                      *)

\* handle_account: Esc is refused to the walk that has to push, unless the
\* login has failed.
AccountKey ==
  /\ KeyOn("Account") /\ push.stage # "AccountSending"
  /\ \/ /\ back # None
        /\ ExitPush(back) /\ back' = None
     \/ /\ back = None /\ push.stage = "Failed"
        /\ ExitPush("Welcome") /\ UNCHANGED back
     \/ /\ push' = [push EXCEPT !.stage = "AccountSending"]
        /\ Raise("Login") /\ UNCHANGED <<screen, back>>
  /\ UNCHANGED <<target, token, fileVars, lockVars, walkVars>>

TotpKey ==
  /\ KeyOn("LoginTotp") /\ push.stage # "TotpSending"
  /\ \/ /\ push' = [push EXCEPT !.stage = "AccountForm"]
        /\ GoTo("Account") /\ UNCHANGED requests
     \/ /\ push' = [push EXCEPT !.stage = "TotpSending"]
        /\ Raise("Totp") /\ UNCHANGED screen
  /\ UNCHANGED <<back, target, token, fileVars, lockVars, walkVars>>

\* What starts the transfer in the mode of the flow.
Transfer(m) == IF m = "Push" THEN "Send" ELSE "Download"

\* handle_push_profile, while the list is shown.  Pushing from the walk under
\* another alias writes the container anew first; only listed aliases are
\* downloaded.
PushFormKey ==
  /\ KeyOn("PushProfile") /\ push.stage = "PushForm"
  /\ \/ /\ back # None
        /\ ExitPush(back) /\ back' = None
     \/ /\ push' = [push EXCEPT !.stage = "PushSending"]
        /\ \/ push.mode = "Push" /\ Raise("Send")
           \/ push.mode = "Push" /\ back = None /\ Raise("Rewrite")
           \/ push.mode = "SignIn" /\ push.listed /\ Raise("Download")
        /\ UNCHANGED <<screen, back>>
     \/ /\ push.mode = "SignIn"
        /\ push' = [push EXCEPT !.stage = "Failed"]
        /\ UNCHANGED <<screen, requests, back>>
  /\ UNCHANGED <<target, token, fileVars, lockVars, walkVars>>

\* After a failure: Esc always leads out, and the back pointer stays; a retry
\* asks for the list again when there is none.
PushFailedKey ==
  /\ KeyOn("PushProfile") /\ push.stage = "Failed"
  /\ \/ ExitPush(IF back = None THEN "Welcome" ELSE back)
     \/ /\ ~push.listed
        /\ push' = [push EXCEPT !.stage = "PushFetching"]
        /\ Raise("List") /\ UNCHANGED screen
     \/ /\ push.listed
        /\ push' = [push EXCEPT !.stage = "PushSending"]
        /\ Raise(Transfer(push.mode)) /\ UNCHANGED screen
  /\ UNCHANGED <<back, target, token, fileVars, lockVars, walkVars>>

PushDoneKey ==
  /\ KeyOn("PushProfile") /\ push.stage = "Done"
  /\ GoTo(IF back = None THEN "Done" ELSE back)
  /\ back' = None /\ push' = NewPush
  /\ UNCHANGED <<target, token, requests, fileVars, lockVars, walkVars>>

-----------------------------------------------------------------------------
(* The loop: one raised flag served.                                       *)

Serve(r) ==
  /\ r \in Served
  /\ UNCHANGED remote

Lower(r) == requests' = requests \ {r}

Fail(r) == Lower(r) /\ UNCHANGED screen

\* apply_unlock_set_done: the set is shown in the picker, or added to.
UnlockDone(set) ==
  /\ ram' = set /\ cached' = source
  /\ \/ /\ mode = "AddInnerProfile"
        /\ StartAddInnerProfile /\ UNCHANGED manage
     \/ /\ mode # "AddInnerProfile"
        /\ manage' = "Viewing" /\ GoTo("ContainerPicker") /\ UNCHANGED mode

\* load_set_zz of the active path, which fails for a wrong passphrase too.
ServeUnlock ==
  /\ Serve("Unlock") /\ Lower("Unlock")
  /\ \/ /\ ActivePath # None /\ disk[ActivePath] \notin {{}, Torn}
        /\ UnlockDone(disk[ActivePath])
     \/ /\ manage' = "Locked"
        /\ UNCHANGED <<screen, ram, cached, mode>>
  /\ UNCHANGED <<exists, source, active, pass, inner, saved, fileVars, pushVars>>

\* full_wipe: what cannot be removed stays, and nothing says so.
FullWipe ==
  /\ \E kept \in SUBSET Sources : disk' = [s \in Sources |-> IF s \in kept THEN disk[s] ELSE {}]
  /\ wiped' = TRUE

\* apply_wipe_done: the set stays in RAM.
WipeDone ==
  /\ active' = 0 /\ cached' = None /\ token' = FALSE /\ target' = None /\ saved' = None
  /\ exists' = [s \in Sources |-> FALSE]
  /\ manage' = "Locked" /\ GoTo("Welcome")

\* The wipe fails only when the paths cannot be resolved.
ServeWipe ==
  /\ Serve("Wipe") /\ Lower("Wipe")
  /\ \/ FullWipe /\ WipeDone
     \/ /\ manage' = "Viewing"
        /\ UNCHANGED <<screen, disk, wiped, active, cached, token, target, saved, exists>>
  /\ UNCHANGED <<server, made, source, ram, mode, pass, inner, push, back>>

\* The set written over the local container, whichever one is open.
WriteSet(set) == disk' = [disk EXCEPT !["Local"] = set]

\* apply_inner_added.
InnerAdded(set, p) ==
  /\ ram' = set /\ active' = p
  /\ RememberPath
  /\ manage' = "Viewing" /\ inner' = "Editing" /\ GoTo("Done")

\* perform_add_inner_profile.
AddInner == ram # {} /\ MakeProfile /\ WriteSet(ram \cup {made'})

ServeAdd ==
  /\ Serve("Add") /\ Lower("Add")
  /\ \/ /\ AddInner
        /\ InnerAdded(ram \cup {made'}, made')
     \/ /\ inner' = "Failed"
        /\ UNCHANGED <<screen, made, active, ram, disk, saved, manage>>
  /\ UNCHANGED <<server, wiped, exists, source, cached, mode, pass, pushVars>>

\* apply_inner_deleted.
InnerDeleted(set) == ram' = set /\ active' = 0 /\ GoTo("ContainerPicker")

\* perform_delete_inner_profile.
DeleteInner == active \in ram /\ ram # {active} /\ WriteSet(ram \ {active})

\* The manage stage is Viewing either way.
ServeDelete ==
  /\ Serve("Delete") /\ Lower("Delete")
  /\ \/ /\ DeleteInner
        /\ InnerDeleted(ram \ {active})
     \/ UNCHANGED <<screen, ram, disk, active>>
  /\ manage' = "Viewing"
  /\ UNCHANGED <<server, made, wiped, exists, source, cached, walkVars, pushVars>>

\* A container of one profile, the one of the walk, takes the place of the file.
WriteNewContainer ==
  /\ MakeProfile
  /\ disk' = [disk EXCEPT !["Local"] = {made'}]
  /\ saved' = "Local"

\* fault: the flag of the local container is left as it was
SaveForgetsFile ==
  /\ Serve("Save")
  /\ WriteNewContainer
  /\ pass' = "Saved" /\ Fail("Save")
  /\ UNCHANGED <<server, wiped, mode, inner, lockVars, pushVars>>

\* enter_push_flow after the first save of the remote walk.
PushAfterSave ==
  /\ back' = None /\ target' = None /\ UNCHANGED token
  /\ push' = [NewPush EXCEPT !.session = token,
                !.stage = IF token THEN "PushFetching" ELSE "AccountForm"]
  /\ requests' = (requests \ {"Save"}) \cup (IF token THEN {"List"} ELSE {})
  /\ GoTo(IF token THEN "PushProfile" ELSE "Account")

\* apply_save_done.
SaveDone ==
  /\ pass' = "Saved"
  /\ exists' = [exists EXCEPT !["Local"] = TRUE]
  /\ active' = IF cached = "Local" THEN 0 ELSE active
  /\ cached' = IF cached = "Local" THEN None ELSE cached
  /\ \/ mode # "CreateRemote" /\ Fail("Save") /\ UNCHANGED pushVars
     \/ mode = "CreateRemote" /\ PushAfterSave

\* run_save_profile and apply_save_failed: save_set_zz writes in place.
ServeSave ==
  /\ Serve("Save")
  /\ \/ WriteNewContainer /\ SaveDone
     \/ /\ pass' = "Failed" /\ Fail("Save") /\ FailedWrite("Local")
        /\ UNCHANGED <<made, saved, exists, active, cached, pushVars>>
  /\ UNCHANGED <<server, wiped, mode, inner, source, ram, manage>>

PushFails(r) == push' = [push EXCEPT !.stage = "Failed"] /\ Fail(r)

\* A session: apply_login_session, apply_totp_session, route_after_login.
Session(r) ==
  /\ token' = TRUE /\ target' = None
  /\ \/ /\ target # None
        /\ push' = [push EXCEPT !.session = TRUE, !.stage = "AccountForm"]
        /\ Lower(r) /\ GoTo(target)
     \/ /\ target = None
        /\ push' = [push EXCEPT !.session = TRUE, !.stage = "PushFetching"]
        /\ requests' = (requests \ {r}) \cup {"List"} /\ GoTo("PushProfile")

ServeLogin ==
  /\ Serve("Login")
  /\ \/ Session("Login")
     \/ /\ push' = [push EXCEPT !.stage = "TotpForm"]
        /\ Lower("Login") /\ GoTo("LoginTotp") /\ UNCHANGED <<target, token>>
     \/ PushFails("Login") /\ UNCHANGED <<target, token>>
  /\ UNCHANGED <<back, fileVars, lockVars, walkVars>>

ServeTotp ==
  /\ Serve("Totp")
  /\ \/ Session("Totp")
     \/ PushFails("Totp") /\ UNCHANGED <<target, token>>
  /\ UNCHANGED <<back, fileVars, lockVars, walkVars>>

ServeList ==
  /\ Serve("List")
  /\ \/ /\ push' = [push EXCEPT !.listed = (server # {}), !.stage = "PushForm"]
        /\ Fail("List")
     \/ PushFails("List")
  /\ UNCHANGED <<back, target, token, fileVars, lockVars, walkVars>>

\* save_profile_with_alias before the push.
ServeRewrite ==
  /\ Serve("Rewrite") /\ UNCHANGED screen
  /\ \/ /\ WriteNewContainer
        /\ requests' = (requests \ {"Rewrite"}) \cup {"Send"} /\ UNCHANGED push
     \/ /\ PushFails("Rewrite") /\ FailedWrite("Local")
        /\ UNCHANGED <<made, saved>>
  /\ UNCHANGED <<server, wiped, mode, pass, inner, back, target, token, lockVars>>

\* apply_push_done: in the remote walk the local file is copied beside.
Mirror ==
  IF mode = "CreateRemote" /\ disk["Local"] # {}
  THEN \/ /\ disk' = [disk EXCEPT !["Remote"] = disk["Local"]]
          /\ exists' = [exists EXCEPT !["Remote"] = TRUE]
       \/ FailedWrite("Remote") /\ UNCHANGED exists
  ELSE UNCHANGED <<disk, exists>>

\* What is pushed: the bytes of the file saved_path names.
Blob == IF saved = None THEN {} ELSE disk[saved]

\* push_blob; the answer may be lost.
ServeSend ==
  /\ Serve("Send")
  /\ \/ /\ Blob # {} /\ server' = Blob
        /\ push' = [push EXCEPT !.stage = "Done"] /\ Fail("Send")
        /\ Mirror
     \/ /\ server' = server \/ (Blob # {} /\ server' = Blob)
        /\ PushFails("Send") /\ UNCHANGED <<disk, exists>>
  /\ UNCHANGED <<made, wiped, source, cached, ram, active, manage,
                 back, target, token, walkVars>>

\* apply_signin_done: what was shown of an older remote container is stale.
SigninDone ==
  /\ exists' = [exists EXCEPT !["Remote"] = TRUE]
  /\ source' = "Remote"
  /\ active' = IF cached = "Remote" THEN 0 ELSE active
  /\ cached' = IF cached = "Remote" THEN None ELSE cached
  /\ manage' = "Locked" /\ push' = NewPush /\ back' = None
  /\ Lower("Download") /\ GoTo("ProfileUnlock")

\* download_blob.
ServeDownload ==
  /\ Serve("Download")
  /\ \/ /\ server # {}
        /\ disk' = [disk EXCEPT !["Remote"] = server]
        /\ SigninDone
     \/ /\ PushFails("Download") /\ FailedWrite("Remote")
        /\ UNCHANGED <<exists, source, active, cached, manage, back>>
  /\ UNCHANGED <<server, made, wiped, ram, target, token, walkVars>>

\* The interface ends, however, and is started again.
Restart ==
  /\ exists' = [s \in Sources |-> disk[s] # {}]
  /\ screen' = "Welcome" /\ mode' = "CreateLocal"
  /\ source' = "Local" /\ cached' = None /\ ram' = {} /\ active' = 0
  /\ manage' = "Locked" /\ pass' = "Editing" /\ inner' = "Editing" /\ saved' = None
  /\ push' = NewPush /\ back' = None /\ target' = None /\ token' = FALSE
  /\ requests' = {}
  /\ UNCHANGED <<remote, fileVars>>

Key ==
  \/ \E s \in Sources : OpenProfile(s)
  \/ Configure \/ ConfigureRemote \/ SignIn \/ UnlockKey \/ PickProfile \/ LockPicker
  \/ ManageEsc \/ ManageAdd \/ ManagePush \/ ManageAsk \/ ManageAnswer
  \/ WizardKey \/ AliasKey \/ PassphraseKey \/ DoneKey
  \/ AccountKey \/ TotpKey \/ PushFormKey \/ PushFailedKey \/ PushDoneKey

Loop ==
  \/ ServeUnlock \/ ServeWipe \/ ServeAdd \/ ServeDelete \/ ServeSave
  \/ ServeLogin \/ ServeTotp \/ ServeList \/ ServeRewrite \/ ServeSend \/ ServeDownload

Next == Key \/ Loop \/ Restart

Spec == Init /\ [][Next]_vars

-----------------------------------------------------------------------------
(* Properties.                                                             *)

Containers == (SUBSET Profiles) \cup {Torn}

TypeOK ==
  /\ remote \in Builds
  /\ disk \in [Sources -> Containers]
  /\ server \in Containers
  /\ made \in Profiles
  /\ screen \in {"Welcome", "ProfileUnlock", "ContainerPicker", "ProfileManage", "Wizard",
                 "InnerAlias", "ProfilePassphrase", "Done", "Account", "LoginTotp",
                 "PushProfile"}
  /\ mode \in {"CreateLocal", "CreateRemote", "AddInnerProfile"}
  /\ exists \in [Sources -> BOOLEAN]
  /\ source \in Sources
  /\ cached \in Sources \cup {None}
  /\ ram \subseteq Profiles
  /\ active \in Profiles \cup {0}
  /\ manage \in ManageStages
  /\ pass \in {"Editing", "Encrypting", "Saved", "Failed"}
  /\ inner \in {"Editing", "Saving", "Failed"}
  /\ saved \in Sources \cup {None}
  /\ push \in [mode : PushModes, stage : PushStages,
               session : BOOLEAN, listed : BOOLEAN]
  /\ back \in {None, "Welcome", "ProfileManage"}
  /\ target \in {None, "Wizard"}
  /\ token \in BOOLEAN
  /\ requests \subseteq PushRequests \cup {"Unlock", "Wipe", "Add", "Delete", "Save"}
  /\ wiped \in BOOLEAN

\* Whatever way leads to the manage screen (the picker, a push or a test given
\* up, an alias not entered), a container is in RAM and a profile shown, and in
\* the default build the profile is one of the container's.
ManageIsUnlocked ==
  screen = "ProfileManage" =>
    /\ ram # {} /\ active # 0
    /\ ~remote => active \in ram

\* The screen of a request.
OwnerOf(r) ==
  CASE r = "Unlock" -> "ProfileUnlock"
    [] r \in {"Wipe", "Delete"} -> "ProfileManage"
    [] r = "Add" -> "InnerAlias"
    [] r = "Save" -> "ProfilePassphrase"
    [] r = "Login" -> "Account"
    [] r = "Totp" -> "LoginTotp"
    [] OTHER -> "PushProfile"

\* A screen that takes no key waits for a request that is up, no answer comes to
\* a screen that has been left, and the server is asked for aliases and
\* containers with the token of a session only: the requests that send
\* push_flow.session_token find one there.
BusyIsServed ==
  /\ requests \cap {"List", "Rewrite", "Send", "Download"} # {} => push.session
  /\ \A r \in requests : requests = {r} /\ screen = OwnerOf(r)
  /\ \/ screen = "ProfileUnlock" /\ manage = "Unlocking"
     \/ screen = "ProfileManage" /\ manage \in {"Wiping", "DeletingInner"}
     \/ screen = "InnerAlias" /\ inner = "Saving"
     \/ screen = "ProfilePassphrase" /\ pass = "Encrypting"
     \/ screen = "Account" /\ push.stage = "AccountSending"
     \/ screen = "LoginTotp" /\ push.stage = "TotpSending"
     \/ screen = "PushProfile" /\ push.stage \in {"PushFetching", "PushSending"}
     => requests # {}

\* In the default build a profile leaves the local container by the deletion
\* its user confirmed or by a wipe, however often containers are opened,
\* created, added to, a first save cut short and the interface started again
\* (up to a wipe, which forgets neither the set in RAM nor the walk).
ProfilesKept ==
  [][~remote /\ ~wiped' =>
       \A p \in disk["Local"] \ (disk'["Local"] \cup Torn) :
         manage = "DeletingInner" /\ active = p]_vars
=============================================================================
