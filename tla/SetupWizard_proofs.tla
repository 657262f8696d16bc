--------------------------- MODULE SetupWizard_proofs ---------------------------
(***************************************************************************)
(* The configuration walk, for any of the providers and any lifetime of a  *)
(* code: a login is polled only while its screen is shown, no screen waits *)
(* for a call that is not made, and what is stored can be used.            *)
(*                                                                         *)
(* The block in the rc file (Installer), for every text and every body:    *)
(* writing it settles after one write and keeps what the user wrote, and   *)
(* removing it gives the user's file back.                                 *)
(***************************************************************************)
EXTENDS SetupWizard, Installer, SequenceTheorems, WellFoundedInduction, TLAPS

\* What the handlers rely on.
Shape ==
  /\ DOMAIN slot = OAuthKinds
  /\ \A k \in OAuthKinds : "stage" \in DOMAIN slot[k]
  /\ kind \in Kinds
  /\ session \in {"none", "open", "active"}

\* There is one flag, its screen is shown, and a key may come between the flag
\* of a poll and its service only.
Flags ==
  /\ requests \subseteq Requests
  /\ \A r \in requests : requests = {r} /\ screen = OwnerOf(r)
  /\ tail => \E k \in OAuthKinds : requests = {<<"Email", k>>} /\ slot[k].stage = "Fetching"

\* A stage that polls is shown, a stage that waits has its flag.
Waits ==
  /\ \A k \in OAuthKinds :
       /\ slot[k].stage = "Polling" => screen = SetupScreen[k]
       /\ screen = SetupScreen[k]
            /\ slot[k].stage \in {"NotStarted", "Initiating", "Exchanging", "Fetching"}
          => \E n \in {"Init", "Exchange", "Email"} : <<n, k>> \in requests
  /\ login = "Polling" => screen = "NextcloudLoginFlow"
  /\ screen = "NextcloudLoginFlow" /\ login \in {"NotStarted", "Initiating"}
       => <<"LoginInit", "-">> \in requests
  /\ pass = "Encrypting" => <<"Save", "-">> \in requests
  /\ inner = "Saving" => <<"AddInner", "-">> \in requests

IInv == Shape /\ Flags /\ Waits

\* What a Nextcloud walk has filled in by each screen, which provider a setup
\* screen is for, and what the Done screen of the default build confirms.
Walked ==
  /\ {"server", "creds", "folder"} \subseteq DOMAIN form
  /\ back => screen = "TestUpload"
  /\ \A k \in OAuthKinds : screen = SetupScreen[k] => kind = k
  /\ kind = "Nextcloud" =>
       /\ screen \in {"NextcloudAuth", "NextcloudLoginFlow", "RemoteFolder", "Collision",
                      "TestUpload", "InnerAlias", "ProfilePassphrase"} /\ ~back
            => form.server
       /\ screen \in {"RemoteFolder", "Collision", "TestUpload", "InnerAlias",
                      "ProfilePassphrase"} /\ ~back
            => form.creds
       /\ screen \in {"Collision", "TestUpload", "InnerAlias", "ProfilePassphrase"} /\ ~back
            => form.folder
       /\ screen = "NextcloudLoginFlow" /\ login = "Done" => form.creds
  /\ ~remote /\ pass = "Saved" =>
       ~unsaved /\ screen \in {"ProfilePassphrase", "Done", "PushFlow"}

-----------------------------------------------------------------------------
\* Each provider has a screen of its own.
LEMMA SetupScreens ==
  /\ OAuthKinds \subseteq {"GoogleDrive", "OneDrive", "Dropbox"}
  /\ \A k \in OAuthKinds :
       SetupScreen[k] \in {"SetupGoogleDrive", "SetupOneDrive", "SetupDropbox"}
  /\ \A j, k \in OAuthKinds : SetupScreen[j] = SetupScreen[k] => j = k
<1>1. OAuthKinds \subseteq {"GoogleDrive", "OneDrive", "Dropbox"}
  BY WizardAssumption DEF OAuthKinds
<1>2. /\ SetupScreen["GoogleDrive"] = "SetupGoogleDrive"
      /\ SetupScreen["OneDrive"] = "SetupOneDrive"
      /\ SetupScreen["Dropbox"] = "SetupDropbox"
  BY DEF SetupScreen
<1>3. QED
  BY <1>1, <1>2

\* A provider has one kind of login.
LEMMA DisjointKinds == DeviceKinds \cap PasteKinds = {}
  BY WizardAssumption

\* The screen of each flag.
LEMMA Owners ==
  /\ OwnerOf(<<"Test", "-">>) = "TestUpload"
  /\ OwnerOf(<<"Save", "-">>) = "ProfilePassphrase"
  /\ OwnerOf(<<"AddInner", "-">>) = "InnerAlias"
  /\ OwnerOf(<<"LoginInit", "-">>) = "NextcloudLoginFlow"
  /\ \A n \in {"Init", "Exchange", "Email"}, k \in OAuthKinds :
       OwnerOf(<<n, k>>) = SetupScreen[k]
  BY DEF OwnerOf

\* Outside the setup screens a key finds no flag up.
LEMMA Quiet ==
  ASSUME Flags, NEW s, KeyOn(s),
         s \notin {"SetupGoogleDrive", "SetupOneDrive", "SetupDropbox"}
  PROVE  requests = {}
  BY Owners, SetupScreens DEF Flags, KeyOn

\* A slot in a stage, and one that gets there while the others stay.
Staged(s, stage) == "stage" \in DOMAIN s /\ s.stage = stage

Gets(k, stage) == \E s : slot' = [slot EXCEPT ![k] = s] /\ Staged(s, stage)

\* The setup states a walk starts from, and those of a stored profile.
LEMMA NewSlots ==
  /\ Staged(NewSlot, "NotStarted")
  /\ Staged([NewSlot EXCEPT !.stage = "Initiating"], "Initiating")
  /\ Staged([NewSlot EXCEPT !.stage = "Done", !.access = TRUE, !.refresh = TRUE], "Done")
  BY DEF NewSlot, Staged

\* The stage after each answer of a provider.
LEMMA AnsweredSlot ==
  ASSUME NEW s, "stage" \in DOMAIN s
  PROVE  /\ Staged(DeviceAfter(s, Failure), "Failed") /\ Staged(PasteAfter(s, Failure), "Failed")
         /\ Staged(DeviceAfter(s, Account), "Done") /\ Staged(PasteAfter(s, Account), "Done")
         /\ Staged(DeviceAfter(s, SlowDown), s.stage)
         /\ \A r : /\ Staged(DeviceAfter(s, Tokens(r)), "Fetching")
                   /\ Staged(PasteAfter(s, Tokens(r)), "Fetching")
         /\ \A i : /\ Staged(DeviceAfter(s, Code(i)), "Polling")
                   /\ Staged(PasteAfter(s, Code(i)), "AwaitingPaste")
<1>1. Staged(Refused(s), "Failed") /\ \A r : Staged(Granted(s, r), "Fetching")
  BY DEF Refused, Granted, Staged
<1>2. DeviceAfter(s, Failure) = Refused(s) /\ PasteAfter(s, Failure) = Refused(s)
  BY DEF DeviceAfter, PasteAfter, Failure
<1>3. \A r : DeviceAfter(s, Tokens(r)) = Granted(s, r) /\ PasteAfter(s, Tokens(r)) = Granted(s, r)
  BY DEF DeviceAfter, PasteAfter, Tokens
<1>4. Staged(DeviceAfter(s, Account), "Done") /\ Staged(PasteAfter(s, Account), "Done")
  BY DEF DeviceAfter, PasteAfter, Account, Staged
<1>5. Staged(DeviceAfter(s, SlowDown), s.stage)
  BY DEF DeviceAfter, SlowDown, Staged
<1>6. \A i : Staged(DeviceAfter(s, Code(i)), "Polling")
  BY DEF DeviceAfter, Code, Staged
<1>7. \A i : Staged(PasteAfter(s, Code(i)), "AwaitingPaste")
  BY DEF PasteAfter, Code, Staged
<1>8. QED
  BY <1>1, <1>2, <1>3, <1>4, <1>5, <1>6, <1>7

\* An answer changes the slot of its provider.
LEMMA AfterAnswer ==
  ASSUME Shape, NEW k \in OAuthKinds
  PROVE  /\ After(k, Failure) => Gets(k, "Failed")
         /\ After(k, Account) => Gets(k, "Done")
         /\ \A r : After(k, Tokens(r)) => Gets(k, "Fetching")
         /\ \A i : After(k, Code(i)) =>
                     Gets(k, IF k \in DeviceKinds THEN "Polling" ELSE "AwaitingPaste")
<1>1. "stage" \in DOMAIN slot[k] /\ k \in DOMAIN slot
  BY DEF Shape
<1>2. ASSUME NEW answer, After(k, answer)
      PROVE  slot' = [slot EXCEPT ![k] = IF k \in DeviceKinds THEN DeviceAfter(slot[k], answer)
                                                              ELSE PasteAfter(slot[k], answer)]
  BY <1>2 DEF After
<1>3. QED
  BY <1>1, <1>2, AnsweredSlot DEF Gets

\* Adding a profile starts a walk of its own, or goes on with finished slots.
LEMMA StartedAdd ==
  ASSUME Shape, StartAddInnerProfile
  PROVE  /\ DOMAIN slot' = OAuthKinds /\ kind' \in Kinds
         /\ UNCHANGED login /\ screen' = "Provider"
         /\ \A k \in OAuthKinds :
              /\ "stage" \in DOMAIN slot'[k]
              /\ slot'[k].stage = slot[k].stage \/ slot'[k].stage = "NotStarted"
<1>1. DOMAIN slot' = OAuthKinds
  BY DEF StartAddInnerProfile
<1>2. \A k \in OAuthKinds : slot'[k] = slot[k] \/ slot'[k] = NewSlot
  BY DEF StartAddInnerProfile
<1>3. kind' \in Kinds /\ UNCHANGED login /\ screen' = "Provider"
  BY DEF StartAddInnerProfile, Kinds, GoTo
<1>4. QED
  BY <1>1, <1>2, <1>3, NewSlots DEF Shape, Staged

\* A profile taken up leaves each slot as it is, or with a finished login.
LEMMA Hydrated ==
  ASSUME Shape, NEW k \in Kinds, Hydrate(k)
  PROVE  /\ kind' \in Kinds /\ DOMAIN slot' = OAuthKinds
         /\ \A j \in OAuthKinds :
              /\ "stage" \in DOMAIN slot'[j]
              /\ slot'[j].stage = slot[j].stage \/ slot'[j].stage = "Done"
<1>1. UNCHANGED slot \/ slot' = [slot EXCEPT ![k] = [NewSlot EXCEPT !.stage = "Done",
                                                       !.access = TRUE, !.refresh = TRUE]]
  BY DEF Hydrate
<1>2. kind' \in Kinds
  BY DEF Hydrate
<1>3. QED
  BY <1>1, <1>2, NewSlots DEF Shape, Staged

-----------------------------------------------------------------------------
\* Each step keeps the three parts of the invariant.
LEMMA StepInv ==
  ASSUME IInv, [Next]_vars
  PROVE  IInv'
<1> USE Owners, SetupScreens DEF IInv, Shape, Flags, Waits, walkVars, endVars
<1>1. CASE ConfigureCreate
  <2>1. requests = {} /\ screen = "Welcome"
    BY <1>1, Quiet DEF ConfigureCreate, KeyOn
  <2>2. QED
    BY <1>1, <2>1 DEF ConfigureCreate, KeyOn, GoTo
<1>2. CASE ConfigureAdd
  <2>1. requests = {} /\ screen = "Welcome"
    BY <1>2, Quiet DEF ConfigureAdd, KeyOn
  <2>2. QED
    BY <1>2, <2>1, StartedAdd DEF ConfigureAdd, Staged, KeyOn, GoTo
<1>3. CASE ConfigureRemote
  <2>1. requests = {} /\ screen = "Welcome"
    BY <1>3, Quiet DEF ConfigureRemote, KeyOn
  <2>2. QED
    BY <1>3, <2>1 DEF ConfigureRemote, KeyOn, GoTo
<1>4. CASE OpenContainer
  <2>1. requests = {} /\ screen = "Welcome"
    BY <1>4, Quiet DEF OpenContainer, KeyOn
  <2>2. QED
    BY <1>4, <2>1 DEF OpenContainer, KeyOn, GoTo
<1>5. CASE PickProfile
  <2>1. requests = {} /\ screen = "ContainerPicker"
    BY <1>5, Quiet DEF PickProfile, KeyOn
  <2>2. QED
    BY <1>5, <2>1, Hydrated DEF PickProfile, KeyOn, GoTo
<1>6. CASE LockContainer
  <2>1. requests = {} /\ screen = "ContainerPicker"
    BY <1>6, Quiet DEF LockContainer, KeyOn
  <2>2. QED
    BY <1>6, <2>1 DEF LockContainer, KeyOn, GoTo
<1>7. CASE ManageAdd
  <2>1. requests = {} /\ screen = "ProfileManage"
    BY <1>7, Quiet DEF ManageAdd, KeyOn
  <2>2. QED
    BY <1>7, <2>1, StartedAdd DEF ManageAdd, Staged, KeyOn, GoTo
<1>8. CASE ManageTest
  <2>1. requests = {} /\ screen = "ProfileManage"
    BY <1>8, Quiet DEF ManageTest, KeyOn
  <2>2. QED
    BY <1>8, <2>1 DEF ManageTest, KeyOn, GoTo
<1>9. CASE ManageLeave
  <2>1. requests = {} /\ screen = "ProfileManage"
    BY <1>9, Quiet DEF ManageLeave, KeyOn
  <2>2. QED
    BY <1>9, <2>1 DEF ManageLeave, KeyOn, GoTo
<1>10. CASE ManageWipe
  <2>1. requests = {} /\ screen = "ProfileManage"
    BY <1>10, Quiet DEF ManageWipe, KeyOn
  <2>2. QED
    BY <1>10, <2>1 DEF ManageWipe, KeyOn, GoTo
<1>11. CASE ProviderMove
  <2>1. requests = {} /\ screen = "Provider"
    BY <1>11, Quiet DEF ProviderMove, KeyOn
  <2>2. QED
    BY <1>11, <2>1 DEF ProviderMove, KeyOn, GoTo
<1>12. CASE ProviderEnter
  <2>1. requests = {} /\ screen = "Provider"
    BY <1>12, Quiet DEF ProviderEnter, KeyOn
  <2>2. requests' \in {{}, {<<"Init", kind>>}} /\ requests' \subseteq Requests
    BY <1>12, <2>1 DEF ProviderEnter, Requests
  <2>3. QED
    BY <1>12, <2>1, <2>2, NewSlots DEF ProviderEnter, Staged, KeyOn, GoTo
<1>13. CASE ProviderBack
  <2>1. requests = {} /\ screen = "Provider"
    BY <1>13, Quiet DEF ProviderBack, KeyOn
  <2>2. QED
    BY <1>13, <2>1 DEF ProviderBack, KeyOn, GoTo, OnlyScreen
<1>14. CASE EditServer
  <2>1. requests = {} /\ screen = "NextcloudServer"
    BY <1>14, Quiet DEF EditServer, KeyOn
  <2>2. QED
    BY <1>14, <2>1 DEF EditServer, KeyOn, GoTo
<1>15. CASE ServerEnter
  <2>1. requests = {} /\ screen = "NextcloudServer"
    BY <1>15, Quiet DEF ServerEnter, KeyOn
  <2>2. QED
    BY <1>15, <2>1 DEF ServerEnter, KeyOn, GoTo, OnlyScreen
<1>16. CASE ServerBack
  <2>1. requests = {} /\ screen = "NextcloudServer"
    BY <1>16, Quiet DEF ServerBack, KeyOn
  <2>2. QED
    BY <1>16, <2>1 DEF ServerBack, KeyOn, GoTo, OnlyScreen
<1>17. CASE EditAuth
  <2>1. requests = {} /\ screen = "NextcloudAuth"
    BY <1>17, Quiet DEF EditAuth, KeyOn
  <2>2. QED
    BY <1>17, <2>1 DEF EditAuth, KeyOn, GoTo
<1>18. CASE AuthEnter
  <2>1. requests = {} /\ screen = "NextcloudAuth"
    BY <1>18, Quiet DEF AuthEnter, KeyOn
  <2>2. requests' \in {{}, {<<"LoginInit", "-">>}} /\ requests' \subseteq Requests
    BY <1>18, <2>1 DEF AuthEnter, Requests
  <2>3. QED
    BY <1>18, <2>1, <2>2 DEF AuthEnter, KeyOn, GoTo
<1>19. CASE AuthBack
  <2>1. requests = {} /\ screen = "NextcloudAuth"
    BY <1>19, Quiet DEF AuthBack, KeyOn
  <2>2. QED
    BY <1>19, <2>1 DEF AuthBack, KeyOn, GoTo, OnlyScreen
<1>20. CASE LoginFlowKey
  <2>1. requests = {} /\ screen = "NextcloudLoginFlow"
    BY <1>20, Quiet DEF LoginFlowKey, KeyOn
  <2>2. requests' \in {{}, {<<"LoginInit", "-">>}} /\ requests' \subseteq Requests
    BY <1>20, <2>1 DEF LoginFlowKey, Requests
  <2>3. QED
    BY <1>20, <2>1, <2>2 DEF LoginFlowKey, KeyOn, GoTo
<1>21. CASE EditFolder
  <2>1. requests = {} /\ screen = "RemoteFolder"
    BY <1>21, Quiet DEF EditFolder, KeyOn
  <2>2. QED
    BY <1>21, <2>1 DEF EditFolder, KeyOn, GoTo
<1>22. CASE FolderEnter
  <2>1. requests = {} /\ screen = "RemoteFolder"
    BY <1>22, Quiet DEF FolderEnter, KeyOn
  <2>2. QED
    BY <1>22, <2>1 DEF FolderEnter, KeyOn, GoTo, OnlyScreen
<1>23. CASE FolderBack
  <2>1. requests = {} /\ screen = "RemoteFolder"
    BY <1>23, Quiet DEF FolderBack, KeyOn
  <2>2. QED
    BY <1>23, <2>1 DEF FolderBack, KeyOn, GoTo, OnlyScreen
<1>24. CASE CollisionEnter
  <2>1. requests = {} /\ screen = "Collision"
    BY <1>24, Quiet DEF CollisionEnter, KeyOn
  <2>2. QED
    BY <1>24, <2>1 DEF CollisionEnter, KeyOn, GoTo, OnlyScreen
<1>25. CASE CollisionBack
  <2>1. requests = {} /\ screen = "Collision"
    BY <1>25, Quiet DEF CollisionBack, KeyOn
  <2>2. QED
    BY <1>25, <2>1 DEF CollisionBack, KeyOn, GoTo, OnlyScreen
<1>26. CASE TestEnter
  <2>1. requests = {} /\ screen = "TestUpload"
    BY <1>26, Quiet DEF TestEnter, KeyOn
  <2>2. requests' \in {{}, {<<"Test", "-">>}} /\ requests' \subseteq Requests
    BY <1>26, <2>1 DEF TestEnter, Requests
  <2>3. QED
    BY <1>26, <2>1, <2>2 DEF TestEnter, KeyOn, GoTo
<1>27. CASE TestBack
  <2>1. requests = {} /\ screen = "TestUpload"
    BY <1>27, Quiet DEF TestBack, KeyOn
  <2>2. QED
    BY <1>27, <2>1 DEF TestBack, KeyOn, GoTo
<1>28. CASE AliasEnter
  <2>1. requests = {} /\ screen = "InnerAlias"
    BY <1>28, Quiet DEF AliasEnter, KeyOn
  <2>2. requests' \in {{}, {<<"AddInner", "-">>}} /\ requests' \subseteq Requests
    BY <1>28, <2>1 DEF AliasEnter, Requests
  <2>3. QED
    BY <1>28, <2>1, <2>2 DEF AliasEnter, KeyOn, GoTo
<1>29. CASE AliasBack
  <2>1. requests = {} /\ screen = "InnerAlias"
    BY <1>29, Quiet DEF AliasBack, KeyOn
  <2>2. QED
    BY <1>29, <2>1 DEF AliasBack, KeyOn, GoTo
<1>30. CASE PassphraseKey
  <2>1. requests = {} /\ screen = "ProfilePassphrase"
    BY <1>30, Quiet DEF PassphraseKey, KeyOn
  <2>2. requests' \in {{}, {<<"Save", "-">>}} /\ requests' \subseteq Requests
    BY <1>30, <2>1 DEF PassphraseKey, Requests
  <2>3. QED
    BY <1>30, <2>1, <2>2 DEF PassphraseKey, KeyOn, GoTo
<1>31. CASE DoneEnter
  <2>1. requests = {} /\ screen = "Done"
    BY <1>31, Quiet DEF DoneEnter, KeyOn
  <2>2. QED
    BY <1>31, <2>1 DEF DoneEnter, KeyOn, GoTo
<1>32. CASE PushFlowEnd
  <2>1. requests = {} /\ screen = "PushFlow"
    BY <1>32, Quiet DEF PushFlowEnd, KeyOn
  <2>2. QED
    BY <1>32, <2>1 DEF PushFlowEnd, KeyOn, GoTo, OnlyScreen
<1>33. ASSUME NEW k \in OAuthKinds, SetupEnter(k)
      PROVE  IInv'
  <2>1. requests = {}
    BY <1>33 DEF SetupEnter, KeyOn
  <2>2. QED
    BY <1>33, <2>1 DEF SetupEnter, KeyOn, GoTo, OnlyScreen
<1>34. ASSUME NEW k \in OAuthKinds, SetupEsc(k)
      PROVE  IInv'
  <2>1. requests' = {}
    BY <1>34 DEF SetupEsc, KeyOn
  <2>2. screen' = "Provider" /\ ~tail' /\ slot'[k].stage = "NotStarted"
    BY <1>34 DEF SetupEsc, KeyOn, GoTo, NewSlot
  <2>3. QED
    BY <1>34, <2>1, <2>2 DEF SetupEsc, KeyOn, NewSlot
<1>35. ASSUME NEW k \in OAuthKinds, SetupRetry(k)
      PROVE  IInv'
  <2>1. requests = {}
    BY <1>35 DEF SetupRetry, KeyOn
  <2>2. requests' = {<<"Init", k>>} /\ requests' \subseteq Requests
    BY <1>35, <2>1 DEF SetupRetry, Requests
  <2>3. QED
    BY <1>35, <2>2 DEF SetupRetry, KeyOn, NewSlot
<1>36. ASSUME NEW k \in PasteKinds, PasteEnter(k)
      PROVE  IInv'
  <2>0. k \in OAuthKinds
    BY DEF OAuthKinds
  <2>1. requests = {}
    BY <1>36, <2>0 DEF PasteEnter, KeyOn
  <2>2. requests' = {<<"Exchange", k>>} /\ requests' \subseteq Requests
    BY <1>36, <2>0, <2>1 DEF PasteEnter, Requests
  <2>3. QED
    BY <1>36, <2>0, <2>2 DEF PasteEnter, KeyOn
<1>37. CASE ServeTest
  <2>1. requests = {<<"Test", "-">>} /\ requests' = {} /\ screen = "TestUpload"
    BY <1>37 DEF ServeTest, Serve
  <2>2. QED
    BY <1>37, <2>1 DEF ServeTest, Serve
<1>38. CASE ServeSave
  <2>1. requests = {<<"Save", "-">>} /\ requests' = {} /\ screen = "ProfilePassphrase"
    BY <1>38 DEF ServeSave, Serve
  <2>2. QED
    BY <1>38, <2>1 DEF ServeSave, Serve, GoTo
<1>39. CASE ServeAddInner
  <2>1. requests = {<<"AddInner", "-">>} /\ requests' = {} /\ screen = "InnerAlias"
    BY <1>39 DEF ServeAddInner, Serve
  <2>2. QED
    BY <1>39, <2>1, Hydrated DEF ServeAddInner, Serve, GoTo
<1>40. CASE ServeLoginInit
  <2>1. requests = {<<"LoginInit", "-">>} /\ requests' = {} /\ screen = "NextcloudLoginFlow"
    BY <1>40 DEF ServeLoginInit, Serve
  <2>2. QED
    BY <1>40, <2>1 DEF ServeLoginInit, Serve, LoginAfter
<1>41. CASE PollLogin
  BY <1>41 DEF PollLogin, LoginAfter
<1>42. CASE NoKey
  BY <1>42 DEF NoKey
<1>43. ASSUME NEW k \in OAuthKinds, ServeEmail(k)
      PROVE  IInv'
  <2>1. requests = {<<"Email", k>>} /\ requests' = {} /\ screen = SetupScreen[k]
    BY <1>43 DEF ServeEmail, Serve
  <2>2. Gets(k, "Done") \/ Gets(k, "Failed")
    BY <1>43, AfterAnswer DEF ServeEmail
  <2>3. QED
    BY <1>43, <2>1, <2>2 DEF ServeEmail, Serve, OnlySlot, Gets, Staged
<1>44. ASSUME NEW k \in PasteKinds, ServePasteInit(k)
      PROVE  IInv'
  <2>0. k \in OAuthKinds
    BY DEF OAuthKinds
  <2>1. requests = {<<"Init", k>>} /\ requests' = {} /\ screen = SetupScreen[k]
    BY <1>44, <2>0 DEF ServePasteInit, Serve
  <2>2. Gets(k, "AwaitingPaste")
    BY <1>44, <2>0, AfterAnswer, DisjointKinds DEF ServePasteInit
  <2>3. QED
    BY <1>44, <2>0, <2>1, <2>2 DEF ServePasteInit, Serve, OnlySlot, Gets, Staged
<1>45. ASSUME NEW k \in PasteKinds, ServeExchange(k)
      PROVE  IInv'
  <2>0. k \in OAuthKinds
    BY DEF OAuthKinds
  <2>1. requests = {<<"Exchange", k>>} /\ screen = SetupScreen[k] /\ ~tail'
    BY <1>45, <2>0 DEF ServeExchange
  <2>2. \/ requests' = {<<"Email", k>>} /\ Gets(k, "Fetching")
        \/ requests' = {} /\ Gets(k, "Failed")
    <3>1. CASE /\ \E r \in BOOLEAN : After(k, Tokens(r))
               /\ requests' = (requests \ {<<"Exchange", k>>}) \cup {<<"Email", k>>}
      <4>1. requests' = {<<"Email", k>>}
        BY ONLY <2>1, <3>1
      <4>2. Gets(k, "Fetching")
        BY ONLY IInv, <2>0, <3>1, AfterAnswer DEF IInv
      <4>3. QED
        BY <4>1, <4>2
    <3>2. CASE /\ After(k, Failure)
               /\ requests' = requests \ ({"Init", "Exchange", "Email"} \X {k})
      <4>1. requests' = {}
        BY ONLY <2>1, <3>2
      <4>2. Gets(k, "Failed")
        BY ONLY IInv, <2>0, <3>2, AfterAnswer DEF IInv
      <4>3. QED
        BY <4>1, <4>2
    <3>3. QED
      BY ONLY <1>45, <3>1, <3>2 DEF ServeExchange
  <2>3. requests' \subseteq Requests
    BY <2>0, <2>2 DEF Requests
  <2>4. QED
    BY <1>45, <2>0, <2>1, <2>2, <2>3 DEF ServeExchange, OnlySlot, Gets, Staged
<1>46. ASSUME NEW k \in DeviceKinds, ServeDeviceInit(k)
      PROVE  IInv'
  <2>0. k \in OAuthKinds
    BY DEF OAuthKinds
  <2>1. requests = {<<"Init", k>>} /\ requests' = {} /\ screen = SetupScreen[k]
    BY <1>46, <2>0 DEF ServeDeviceInit, Serve
  <2>2. Gets(k, "Polling") \/ Gets(k, "Failed")
    BY <1>46, <2>0, AfterAnswer DEF ServeDeviceInit
  <2>3. QED
    BY <1>46, <2>0, <2>1, <2>2 DEF ServeDeviceInit, Serve, OnlySlot, Gets, Staged
<1>47. ASSUME NEW k \in DeviceKinds, ExpireDevice(k)
      PROVE  IInv'
  <2>0. k \in OAuthKinds
    BY DEF OAuthKinds
  <2>1. Gets(k, "Failed")
    BY <1>47, <2>0, AfterAnswer DEF ExpireDevice
  <2>2. QED
    BY <1>47, <2>0, <2>1 DEF ExpireDevice, OnlySlot, Gets, Staged
<1>48. ASSUME NEW k \in DeviceKinds, PollDevice(k)
      PROVE  IInv'
  <2>0. k \in OAuthKinds /\ screen = SetupScreen[k]
    BY <1>48 DEF PollDevice, OAuthKinds
  <2>1. \/ /\ (Gets(k, "Polling") \/ Gets(k, "Failed"))
           /\ UNCHANGED <<requests, tail>>
        \/ /\ Gets(k, "Fetching")
           /\ requests' = {<<"Email", k>>}
    <3> DEFINE polled == [slot[k] EXCEPT !.wait = 0]
    <3>1. Staged(polled, "Polling")
      BY <1>48, <2>0 DEF PollDevice, Staged
    <3>2. /\ Staged(DeviceAfter(polled, SlowDown), "Polling") /\ Staged(Refused(polled), "Failed")
          /\ \A r : Staged(DeviceAfter(polled, Tokens(r)), "Fetching")
      BY <3>1, AnsweredSlot DEF Staged, Refused
    <3> HIDE DEF polled
    <3>3. QED
      BY <1>48, <3>1, <3>2 DEF PollDevice, Gets, polled
  <2>2. requests' \subseteq Requests
    BY <2>0, <2>1 DEF Requests
  <2>3. QED
    BY <1>48, <2>0, <2>1, <2>2 DEF PollDevice, OnlySlot, Gets, Staged
<1>49. ASSUME NEW k \in DeviceKinds, Tick(k)
      PROVE  IInv'
  <2>0. k \in OAuthKinds
    BY DEF OAuthKinds
  <2>1. Gets(k, "Polling")
    <3> DEFINE s == [slot[k] EXCEPT !.age = @ + 1, !.wait = IF @ < MaxInterval THEN @ + 1 ELSE @]
    <3>1. slot' = [slot EXCEPT ![k] = s]
      BY <1>49, ZenonT(30) DEF Tick
    <3>2. Staged(s, slot[k].stage)
      BY <2>0 DEF Staged
    <3>3. slot[k].stage = "Polling"
      BY <1>49 DEF Tick
    <3> HIDE DEF s
    <3>4. Staged(s, "Polling")
      BY <3>2, <3>3
    <3>5. QED
      BY <3>1, <3>4 DEF Gets
  <2>2. QED
    BY <1>49, <2>0, <2>1 DEF Tick, OnlySlot, Gets, Staged
<1>50. CASE UNCHANGED vars
  BY <1>50 DEF vars
<1>51. QED
  BY <1>1, <1>2, <1>3, <1>4, <1>5, <1>6, <1>7, <1>8, <1>9, <1>10, <1>11, <1>12, <1>13,
     <1>14, <1>15, <1>16, <1>17, <1>18, <1>19, <1>20, <1>21, <1>22, <1>23, <1>24, <1>25,
     <1>26, <1>27, <1>28, <1>29, <1>30, <1>31, <1>32, <1>33, <1>34, <1>35, <1>36, <1>37,
     <1>38, <1>39, <1>40, <1>41, <1>42, <1>43, <1>44, <1>45, <1>46, <1>47, <1>48, <1>49,
     <1>50 DEF Next, Key, Loop

\* Each screen of the walk is left with what the next one relies on.
LEMMA WalkedStep ==
  ASSUME IInv, Walked, [Next]_vars
  PROVE  Walked'
<1> /\ kind \in Kinds /\ session \in {"none", "open", "active"}
    /\ \A r \in requests : screen = OwnerOf(r)
  BY DEF IInv, Shape, Flags
<1> USE SetupScreens, Owners DEF Walked, walkVars, endVars
<1>1. CASE ConfigureCreate
  BY <1>1 DEF ConfigureCreate, KeyOn, GoTo
<1>2. CASE ConfigureAdd
  BY <1>2 DEF ConfigureAdd, StartAddInnerProfile, NewForm, KeyOn, GoTo
<1>3. CASE ConfigureRemote
  BY <1>3 DEF ConfigureRemote, KeyOn, GoTo
<1>4. CASE OpenContainer
  BY <1>4 DEF OpenContainer, KeyOn, GoTo
<1>5. CASE PickProfile
  BY <1>5 DEF PickProfile, Hydrate, KeyOn, GoTo
<1>6. CASE LockContainer
  BY <1>6 DEF LockContainer, KeyOn, GoTo
<1>7. CASE ManageAdd
  BY <1>7 DEF ManageAdd, StartAddInnerProfile, NewForm, KeyOn, GoTo
<1>8. CASE ManageTest
  BY <1>8 DEF ManageTest, KeyOn, GoTo
<1>9. CASE ManageLeave
  BY <1>9 DEF ManageLeave, KeyOn, GoTo
<1>10. CASE ManageWipe
  BY <1>10 DEF ManageWipe, KeyOn, GoTo
<1>11. CASE ProviderMove
  BY <1>11 DEF ProviderMove, KeyOn, GoTo
<1>12. CASE ProviderEnter
  BY <1>12 DEF ProviderEnter, Kinds, KeyOn, GoTo
<1>13. CASE ProviderBack
  BY <1>13 DEF ProviderBack, KeyOn, GoTo, OnlyScreen
<1>14. CASE EditServer
  BY <1>14 DEF EditServer, KeyOn, GoTo
<1>15. CASE ServerEnter
  BY <1>15 DEF ServerEnter, KeyOn, GoTo, OnlyScreen
<1>16. CASE ServerBack
  BY <1>16 DEF ServerBack, KeyOn, GoTo, OnlyScreen
<1>17. CASE EditAuth
  BY <1>17 DEF EditAuth, KeyOn, GoTo
<1>18. CASE AuthEnter
  BY <1>18 DEF AuthEnter, KeyOn, GoTo
<1>19. CASE AuthBack
  BY <1>19 DEF AuthBack, KeyOn, GoTo, OnlyScreen
<1>20. CASE LoginFlowKey
  BY <1>20 DEF LoginFlowKey, KeyOn, GoTo
<1>21. CASE EditFolder
  BY <1>21 DEF EditFolder, KeyOn, GoTo
<1>22. CASE FolderEnter
  BY <1>22 DEF FolderEnter, KeyOn, GoTo, OnlyScreen
<1>23. CASE FolderBack
  BY <1>23 DEF FolderBack, KeyOn, GoTo, OnlyScreen
<1>24. CASE CollisionEnter
  BY <1>24 DEF CollisionEnter, KeyOn, GoTo, OnlyScreen
<1>25. CASE CollisionBack
  BY <1>25 DEF CollisionBack, KeyOn, GoTo, OnlyScreen
<1>26. CASE TestEnter
  BY <1>26 DEF TestEnter, KeyOn, GoTo
<1>27. CASE TestBack
  BY <1>27 DEF TestBack, KeyOn, GoTo
<1>28. CASE AliasEnter
  BY <1>28 DEF AliasEnter, KeyOn, GoTo
<1>29. CASE AliasBack
  BY <1>29 DEF AliasBack, KeyOn, GoTo
<1>30. CASE PassphraseKey
  BY <1>30 DEF PassphraseKey, KeyOn, GoTo
<1>31. CASE DoneEnter
  BY <1>31 DEF DoneEnter, KeyOn, GoTo
<1>32. CASE PushFlowEnd
  BY <1>32 DEF PushFlowEnd, KeyOn, GoTo, OnlyScreen
<1>33. ASSUME NEW k \in OAuthKinds, SetupEnter(k)
      PROVE  Walked'
  BY <1>33, k \in OAuthKinds DEF OAuthKinds, SetupEnter, KeyOn, GoTo, OnlyScreen, Kinds
<1>34. ASSUME NEW k \in OAuthKinds, SetupEsc(k)
      PROVE  Walked'
  BY <1>34, k \in OAuthKinds DEF OAuthKinds, SetupEsc, KeyOn, GoTo
<1>35. ASSUME NEW k \in OAuthKinds, SetupRetry(k)
      PROVE  Walked'
  BY <1>35, k \in OAuthKinds DEF OAuthKinds, SetupRetry, KeyOn
<1>36. ASSUME NEW k \in PasteKinds, PasteEnter(k)
      PROVE  Walked'
  BY <1>36, k \in OAuthKinds DEF OAuthKinds, PasteEnter, KeyOn
<1>37. CASE ServeTest
  BY <1>37 DEF ServeTest, Serve
<1>38. CASE ServeSave
  BY <1>38 DEF ServeSave, Serve, GoTo
<1>39. CASE ServeAddInner
  BY <1>39 DEF ServeAddInner, Serve, GoTo, Hydrate
<1>40. CASE ServeLoginInit
  BY <1>40 DEF ServeLoginInit, Serve, LoginAfter
<1>41. CASE PollLogin
  BY <1>41 DEF PollLogin, LoginAfter
<1>42. CASE NoKey
  BY <1>42 DEF NoKey
<1>43. ASSUME NEW k \in OAuthKinds, ServeEmail(k)
      PROVE  Walked'
  BY <1>43, k \in OAuthKinds DEF OAuthKinds, ServeEmail, Serve, OnlySlot
<1>44. ASSUME NEW k \in PasteKinds, ServePasteInit(k)
      PROVE  Walked'
  BY <1>44, k \in OAuthKinds DEF OAuthKinds, ServePasteInit, Serve, OnlySlot
<1>45. ASSUME NEW k \in PasteKinds, ServeExchange(k)
      PROVE  Walked'
  BY <1>45, k \in OAuthKinds DEF OAuthKinds, ServeExchange, OnlySlot
<1>46. ASSUME NEW k \in DeviceKinds, ServeDeviceInit(k)
      PROVE  Walked'
  BY <1>46, k \in OAuthKinds DEF OAuthKinds, ServeDeviceInit, Serve, OnlySlot
<1>47. ASSUME NEW k \in DeviceKinds, ExpireDevice(k)
      PROVE  Walked'
  BY <1>47, k \in OAuthKinds DEF OAuthKinds, ExpireDevice, OnlySlot
<1>48. ASSUME NEW k \in DeviceKinds, PollDevice(k)
      PROVE  Walked'
  BY <1>48, k \in OAuthKinds DEF OAuthKinds, PollDevice, OnlySlot
<1>49. ASSUME NEW k \in DeviceKinds, Tick(k)
      PROVE  Walked'
  BY <1>49, k \in OAuthKinds DEF OAuthKinds, Tick, OnlySlot
<1>50. CASE UNCHANGED vars
  BY <1>50 DEF vars
<1>51. QED
  BY <1>1, <1>2, <1>3, <1>4, <1>5, <1>6, <1>7, <1>8, <1>9, <1>10, <1>11, <1>12, <1>13,
     <1>14, <1>15, <1>16, <1>17, <1>18, <1>19, <1>20, <1>21, <1>22, <1>23, <1>24, <1>25,
     <1>26, <1>27, <1>28, <1>29, <1>30, <1>31, <1>32, <1>33, <1>34, <1>35, <1>36, <1>37,
     <1>38, <1>39, <1>40, <1>41, <1>42, <1>43, <1>44, <1>45, <1>46, <1>47, <1>48, <1>49,
     <1>50 DEF Next, Key, Loop

\* Only the save and the addition store, and the walk before them is complete.
LEMMA StoredStep ==
  ASSUME IInv, Walked, StoredIsComplete, [Next]_vars
  PROVE  StoredIsComplete'
<1> /\ kind \in Kinds /\ session \in {"none", "open", "active"}
    /\ \A r \in requests : screen = OwnerOf(r)
  BY DEF IInv, Shape, Flags
<1> USE SetupScreens, Owners DEF StoredIsComplete, walkVars, endVars
<1>1. CASE ConfigureCreate
  BY <1>1 DEF ConfigureCreate, KeyOn, GoTo
<1>2. CASE ConfigureAdd
  BY <1>2 DEF ConfigureAdd, StartAddInnerProfile, NewForm, KeyOn, GoTo
<1>3. CASE ConfigureRemote
  BY <1>3 DEF ConfigureRemote, KeyOn, GoTo
<1>4. CASE OpenContainer
  BY <1>4 DEF OpenContainer, KeyOn, GoTo
<1>5. CASE PickProfile
  BY <1>5 DEF PickProfile, Hydrate, KeyOn, GoTo
<1>6. CASE LockContainer
  BY <1>6 DEF LockContainer, KeyOn, GoTo
<1>7. CASE ManageAdd
  BY <1>7 DEF ManageAdd, StartAddInnerProfile, NewForm, KeyOn, GoTo
<1>8. CASE ManageTest
  BY <1>8 DEF ManageTest, KeyOn, GoTo
<1>9. CASE ManageLeave
  BY <1>9 DEF ManageLeave, KeyOn, GoTo
<1>10. CASE ManageWipe
  BY <1>10 DEF ManageWipe, KeyOn, GoTo
<1>11. CASE ProviderMove
  BY <1>11 DEF ProviderMove, KeyOn, GoTo
<1>12. CASE ProviderEnter
  BY <1>12 DEF ProviderEnter, Kinds, KeyOn, GoTo
<1>13. CASE ProviderBack
  BY <1>13 DEF ProviderBack, KeyOn, GoTo, OnlyScreen
<1>14. CASE EditServer
  BY <1>14 DEF EditServer, KeyOn, GoTo
<1>15. CASE ServerEnter
  BY <1>15 DEF ServerEnter, KeyOn, GoTo, OnlyScreen
<1>16. CASE ServerBack
  BY <1>16 DEF ServerBack, KeyOn, GoTo, OnlyScreen
<1>17. CASE EditAuth
  BY <1>17 DEF EditAuth, KeyOn, GoTo
<1>18. CASE AuthEnter
  BY <1>18 DEF AuthEnter, KeyOn, GoTo
<1>19. CASE AuthBack
  BY <1>19 DEF AuthBack, KeyOn, GoTo, OnlyScreen
<1>20. CASE LoginFlowKey
  BY <1>20 DEF LoginFlowKey, KeyOn, GoTo
<1>21. CASE EditFolder
  BY <1>21 DEF EditFolder, KeyOn, GoTo
<1>22. CASE FolderEnter
  BY <1>22 DEF FolderEnter, KeyOn, GoTo, OnlyScreen
<1>23. CASE FolderBack
  BY <1>23 DEF FolderBack, KeyOn, GoTo, OnlyScreen
<1>24. CASE CollisionEnter
  BY <1>24 DEF CollisionEnter, KeyOn, GoTo, OnlyScreen
<1>25. CASE CollisionBack
  BY <1>25 DEF CollisionBack, KeyOn, GoTo, OnlyScreen
<1>26. CASE TestEnter
  BY <1>26 DEF TestEnter, KeyOn, GoTo
<1>27. CASE TestBack
  BY <1>27 DEF TestBack, KeyOn, GoTo
<1>28. CASE AliasEnter
  BY <1>28 DEF AliasEnter, KeyOn, GoTo
<1>29. CASE AliasBack
  BY <1>29 DEF AliasBack, KeyOn, GoTo
<1>30. CASE PassphraseKey
  BY <1>30 DEF Walked, PassphraseKey, KeyOn, GoTo
<1>31. CASE DoneEnter
  BY <1>31 DEF DoneEnter, KeyOn, GoTo
<1>32. CASE PushFlowEnd
  BY <1>32 DEF Walked, PushFlowEnd, KeyOn, GoTo, OnlyScreen
<1>33. ASSUME NEW k \in OAuthKinds, SetupEnter(k)
      PROVE  StoredIsComplete'
  BY <1>33, k \in OAuthKinds DEF OAuthKinds, SetupEnter, KeyOn, GoTo, OnlyScreen, Kinds
<1>34. ASSUME NEW k \in OAuthKinds, SetupEsc(k)
      PROVE  StoredIsComplete'
  BY <1>34, k \in OAuthKinds DEF OAuthKinds, SetupEsc, KeyOn, GoTo
<1>35. ASSUME NEW k \in OAuthKinds, SetupRetry(k)
      PROVE  StoredIsComplete'
  BY <1>35, k \in OAuthKinds DEF OAuthKinds, SetupRetry, KeyOn
<1>36. ASSUME NEW k \in PasteKinds, PasteEnter(k)
      PROVE  StoredIsComplete'
  BY <1>36, k \in OAuthKinds DEF OAuthKinds, PasteEnter, KeyOn
<1>37. CASE ServeTest
  BY <1>37 DEF ServeTest, Serve
<1>38. CASE ServeSave
  <2>1. screen = "ProfilePassphrase"
    BY <1>38 DEF ServeSave, Serve
  <2>2. SaveMaySucceed => Complete
    BY <2>1 DEF Walked, SaveMaySucceed, Complete, Kinds
  <2>3. QED
    BY <1>38, <2>1, <2>2 DEF ServeSave, Serve, Store, GoTo
<1>39. CASE ServeAddInner
  <2>1. screen = "InnerAlias"
    BY <1>39 DEF ServeAddInner, Serve
  <2>2. SaveMaySucceed => Complete
    BY <2>1 DEF Walked, SaveMaySucceed, Complete, Kinds
  <2>3. QED
    BY <1>39, <2>1, <2>2 DEF ServeAddInner, Serve, Store, GoTo
<1>40. CASE ServeLoginInit
  BY <1>40 DEF ServeLoginInit, Serve, LoginAfter
<1>41. CASE PollLogin
  BY <1>41 DEF PollLogin, LoginAfter
<1>42. CASE NoKey
  BY <1>42 DEF NoKey
<1>43. ASSUME NEW k \in OAuthKinds, ServeEmail(k)
      PROVE  StoredIsComplete'
  BY <1>43, k \in OAuthKinds DEF OAuthKinds, ServeEmail, Serve, OnlySlot
<1>44. ASSUME NEW k \in PasteKinds, ServePasteInit(k)
      PROVE  StoredIsComplete'
  BY <1>44, k \in OAuthKinds DEF OAuthKinds, ServePasteInit, Serve, OnlySlot
<1>45. ASSUME NEW k \in PasteKinds, ServeExchange(k)
      PROVE  StoredIsComplete'
  BY <1>45, k \in OAuthKinds DEF OAuthKinds, ServeExchange, OnlySlot
<1>46. ASSUME NEW k \in DeviceKinds, ServeDeviceInit(k)
      PROVE  StoredIsComplete'
  BY <1>46, k \in OAuthKinds DEF OAuthKinds, ServeDeviceInit, Serve, OnlySlot
<1>47. ASSUME NEW k \in DeviceKinds, ExpireDevice(k)
      PROVE  StoredIsComplete'
  BY <1>47, k \in OAuthKinds DEF OAuthKinds, ExpireDevice, OnlySlot
<1>48. ASSUME NEW k \in DeviceKinds, PollDevice(k)
      PROVE  StoredIsComplete'
  BY <1>48, k \in OAuthKinds DEF OAuthKinds, PollDevice, OnlySlot
<1>49. ASSUME NEW k \in DeviceKinds, Tick(k)
      PROVE  StoredIsComplete'
  BY <1>49, k \in OAuthKinds DEF OAuthKinds, Tick, OnlySlot
<1>50. CASE UNCHANGED vars
  BY <1>50 DEF vars
<1>51. QED
  BY <1>1, <1>2, <1>3, <1>4, <1>5, <1>6, <1>7, <1>8, <1>9, <1>10, <1>11, <1>12, <1>13,
     <1>14, <1>15, <1>16, <1>17, <1>18, <1>19, <1>20, <1>21, <1>22, <1>23, <1>24, <1>25,
     <1>26, <1>27, <1>28, <1>29, <1>30, <1>31, <1>32, <1>33, <1>34, <1>35, <1>36, <1>37,
     <1>38, <1>39, <1>40, <1>41, <1>42, <1>43, <1>44, <1>45, <1>46, <1>47, <1>48, <1>49,
     <1>50 DEF Next, Key, Loop

-----------------------------------------------------------------------------
\* Nothing is polled and nothing is up when the program starts.
LEMMA InitInv == Init => IInv
  BY NewSlots, SetupScreens DEF Init, IInv, Shape, Flags, Waits, Kinds, Staged

\* The invariant the theorems rest on.
LEMMA Invariant == Spec => []IInv
  BY InitInv, StepInv, PTL DEF Spec

\* Nothing is stored when the program starts.
LEMMA InitWalked == Init => Walked /\ StoredIsComplete
  BY SetupScreens DEF Init, Walked, StoredIsComplete, NewForm

\* A login is polled only while its screen is shown (run_login_flow_poll and the
\* polls of the device flows look at the stage alone).
THEOREM PolledIsShown == Spec => []PollsWhatIsShown
<1>1. IInv => PollsWhatIsShown
  BY DEF IInv, Waits, PollsWhatIsShown
<1>2. QED
  BY <1>1, Invariant, PTL

\* A flag is alone and on the screen that raised it, and a screen that takes no
\* key but Esc has one (the request flags against the stages of the walk).
THEOREM WaitingIsServed == Spec => []BusyIsServed
<1>1. IInv => BusyIsServed
  BY DEF IInv, Flags, Waits, BusyIsServed
<1>2. QED
  BY <1>1, Invariant, PTL

\* What save_profile_with_alias_at and perform_add_inner_profile store can be
\* used, and the Done screen of the default build confirms a stored profile.
THEOREM StoredStaysComplete == Spec => []StoredIsComplete
<1>1. IInv /\ Walked /\ StoredIsComplete /\ [Next]_vars => (Walked /\ StoredIsComplete)'
  BY WalkedStep, StoredStep
<1>2. QED
  BY <1>1, InitWalked, Invariant, PTL DEF Spec

-----------------------------------------------------------------------------
(* The block in the rc file.                                               *)

\* What an rc file may be, over any set of tokens.
IsRc(rc, Token) == rc = Missing \/ \E l \in BOOLEAN, t \in Seq(Token) : rc = RcFile(l, t)

Marker == {BLOCK_START, BLOCK_END}

\* Every start marker stands in a block: there is no start without an end.
NoStrayStart(text) ==
    (\E i \in DOMAIN text : text[i] = BLOCK_START) => find_block(text).found

TextBefore(text) == SubSeq(text, 1, find_block(text).first - 1)
TextAfter(text) == SubSeq(text, find_block(text).last + 1, Len(text))

\* A set of numbers that is not empty has its Min.
LEMMA Least ==
    ASSUME NEW S, S \subseteq Nat, S # {}
    PROVE  Min(S) \in S /\ \A y \in S : Min(S) <= y
<1>1. PICK n \in S : \A m \in S : ~(<<m, n>> \in OpToRel(<, Nat))
    BY ONLY S \subseteq Nat, S # {}, NatLessThanWellFounded, WFMin
<1>2. \A y \in S : ~(y < n)
    BY <1>1 DEF OpToRel
<1>3. \E x \in S : \A y \in S : x <= y
    BY <1>2
<1>4. QED
    BY <1>3 DEF Min

\* FirstFrom is the first place of the token, or 0 if there is none.
LEMMA FirstToken ==
    ASSUME NEW text, Len(text) \in Nat, NEW tok, NEW from \in Nat \ {0},
           NEW k, k = FirstFrom(text, tok, from)
    PROVE  /\ k \in Nat
           /\ k # 0 => /\ k \in from .. Len(text)
                       /\ text[k] = tok
                       /\ \A i \in from .. (k - 1) : text[i] # tok
           /\ k = 0 => \A i \in from .. Len(text) : text[i] # tok
<1>1. PICK S : S = {i \in from .. Len(text) : text[i] = tok}
    OBVIOUS
<1>2. k = IF S # {} THEN Min(S) ELSE 0
    BY <1>1 DEF FirstFrom, SelectInSubSeq
<1>3. S \subseteq Nat
    BY <1>1
<1>4. CASE S = {}
    BY <1>1, <1>2, <1>4
<1>5. CASE S # {}
    <2>1. k \in S /\ \A y \in S : k <= y
        BY <1>2, <1>3, <1>5, Least
    <2>2. k \in Nat /\ k # 0 /\ k \in from .. Len(text) /\ text[k] = tok
        BY <1>1, <2>1
    <2>3. ASSUME NEW i \in from .. (k - 1) PROVE text[i] # tok
        BY <1>1, <2>1, <2>2
    <2>4. QED
        BY <2>2, <2>3
<1>6. QED
    BY <1>4, <1>5

\* Where a block is, in terms of positions.
BlockAt(text, s, e) ==
    /\ s \in 1 .. Len(text) /\ e \in (s + 1) .. Len(text)
    /\ text[s] = BLOCK_START /\ \A i \in 1 .. (s - 1) : text[i] # BLOCK_START
    /\ text[e] = BLOCK_END /\ \A i \in (s + 1) .. (e - 1) : text[i] # BLOCK_END

\* What find_block finds is a block: the first start marker and the first end
\* marker after it.
LEMMA BlockFound ==
    ASSUME NEW text, Len(text) \in Nat, find_block(text).found
    PROVE  BlockAt(text, find_block(text).first, find_block(text).last)
<1>1. PICK s, e : /\ s = FirstFrom(text, BLOCK_START, 1)
                  /\ e = IF s = 0 THEN 0 ELSE FirstFrom(text, BLOCK_END, s + 1)
    OBVIOUS
<1>2. e # 0 /\ find_block(text).first = s /\ find_block(text).last = e
    BY <1>1 DEF find_block
<1>3. s # 0 /\ e # 0 /\ e = FirstFrom(text, BLOCK_END, s + 1)
    BY <1>1, <1>2
<1>4. /\ s \in 1 .. Len(text) /\ text[s] = BLOCK_START
      /\ \A i \in 1 .. (s - 1) : text[i] # BLOCK_START
    BY <1>1, <1>3, FirstToken
<1>5. /\ e \in (s + 1) .. Len(text) /\ text[e] = BLOCK_END
      /\ \A i \in (s + 1) .. (e - 1) : text[i] # BLOCK_END
    BY <1>3, <1>4, FirstToken
<1>6. QED
    BY <1>2, <1>4, <1>5 DEF BlockAt

\* find_block finds the block there is: no other pair of markers qualifies.
LEMMA BlockIs ==
    ASSUME NEW text, Len(text) \in Nat, NEW s, NEW e, BlockAt(text, s, e)
    PROVE  /\ find_block(text).found
           /\ find_block(text).first = s /\ find_block(text).last = e
<1>1. PICK f, l : /\ f = FirstFrom(text, BLOCK_START, 1)
                  /\ l = IF f = 0 THEN 0 ELSE FirstFrom(text, BLOCK_END, f + 1)
    OBVIOUS
<1>2. f = s
    <2>1. /\ f \in Nat
          /\ f # 0 => /\ f \in 1 .. Len(text) /\ text[f] = BLOCK_START
                      /\ \A i \in 1 .. (f - 1) : text[i] # BLOCK_START
          /\ f = 0 => \A i \in 1 .. Len(text) : text[i] # BLOCK_START
        BY <1>1, FirstToken
    <2>2. QED
        BY <2>1 DEF BlockAt
<1>3. l = e
    <2>1. s \in Nat \ {0} /\ s + 1 \in Nat \ {0} /\ l = FirstFrom(text, BLOCK_END, s + 1)
        BY <1>1, <1>2 DEF BlockAt
    <2>2. /\ l \in Nat
          /\ l # 0 => /\ l \in (s + 1) .. Len(text) /\ text[l] = BLOCK_END
                      /\ \A i \in (s + 1) .. (l - 1) : text[i] # BLOCK_END
          /\ l = 0 => \A i \in (s + 1) .. Len(text) : text[i] # BLOCK_END
        BY <2>1, FirstToken
    <2>3. QED
        BY <2>1, <2>2 DEF BlockAt
<1>4. l # 0
    BY <1>3 DEF BlockAt
<1>5. find_block(text).found /\ find_block(text).first = f /\ find_block(text).last = l
    BY <1>1, <1>4 DEF find_block
<1>6. QED
    BY <1>2, <1>3, <1>5

-----------------------------------------------------------------------------
\* Three texts one after the other.
LEMMA Joined ==
    ASSUME NEW T, NEW a \in Seq(T), NEW b \in Seq(T), NEW c \in Seq(T),
           NEW x, x = a \o b \o c
    PROVE  /\ x \in Seq(T) /\ Len(x) = Len(a) + Len(b) + Len(c)
           /\ \A i \in 1 .. Len(a) : x[i] = a[i]
           /\ \A i \in 1 .. Len(b) : x[Len(a) + i] = b[i]
           /\ \A i \in 1 .. Len(c) : x[Len(a) + Len(b) + i] = c[i]
           /\ SubSeq(x, 1, Len(a)) = a
           /\ SubSeq(x, Len(a) + 1, Len(a) + Len(b)) = b
           /\ SubSeq(x, Len(a) + Len(b) + 1, Len(x)) = c
<1>1. PICK y : y = a \o b
    OBVIOUS
<1>2. Len(a) \in Nat /\ Len(b) \in Nat /\ Len(c) \in Nat
    OBVIOUS
<1>3. /\ y \in Seq(T) /\ Len(y) = Len(a) + Len(b)
      /\ \A i \in 1 .. Len(a) + Len(b) :
            y[i] = IF i <= Len(a) THEN a[i] ELSE b[i - Len(a)]
    BY <1>1, ConcatProperties
<1>4. /\ x \in Seq(T) /\ Len(x) = Len(y) + Len(c)
      /\ \A i \in 1 .. Len(y) + Len(c) :
            x[i] = IF i <= Len(y) THEN y[i] ELSE c[i - Len(y)]
    BY <1>1, <1>3, ConcatProperties
<1>5. /\ Len(x) = Len(a) + Len(b) + Len(c)
      /\ \A i \in 1 .. Len(a) : x[i] = a[i]
    BY <1>2, <1>3, <1>4
<1>6. ASSUME NEW i \in 1 .. Len(b) PROVE x[Len(a) + i] = b[i]
    <2>1. Len(a) + i \in 1 .. Len(y) /\ Len(a) + i > Len(a) /\ (Len(a) + i) - Len(a) = i
        BY <1>2, <1>3
    <2>2. QED
        BY <1>2, <1>3, <1>4, <2>1
<1>7. ASSUME NEW i \in 1 .. Len(c) PROVE x[Len(a) + Len(b) + i] = c[i]
    <2>1. /\ Len(y) + i \in 1 .. Len(y) + Len(c) /\ ~(Len(y) + i <= Len(y))
          /\ (Len(y) + i) - Len(y) = i
        BY <1>2, <1>3
    <2>2. QED
        BY <1>2, <1>3, <1>4, <2>1
<1>8. \A i \in 1 .. Len(x) : x[i] \in T
    BY <1>4
<1>9. SubSeq(x, 1, Len(a)) = a
    <2>1. /\ SubSeq(x, 1, Len(a)) \in Seq(T)
          /\ Len(SubSeq(x, 1, Len(a))) = Len(a)
          /\ \A i \in 1 .. Len(a) : SubSeq(x, 1, Len(a))[i] = x[i]
        BY <1>2, <1>5, <1>8, SubSeqProperties
    <2>2. QED
        BY <1>5, <2>1, SeqEqual
<1>10. SubSeq(x, Len(a) + 1, Len(a) + Len(b)) = b
    <2>1. PICK z : z = SubSeq(x, Len(a) + 1, Len(a) + Len(b))
        OBVIOUS
    <2>2. /\ z \in Seq(T) /\ Len(z) = Len(b)
          /\ \A i \in 1 .. Len(b) : z[i] = x[Len(a) + i]
        BY <1>2, <1>5, <1>8, <2>1, SubSeqProperties
    <2>3. QED
        BY <1>6, <2>1, <2>2, SeqEqual
<1>11. SubSeq(x, Len(a) + Len(b) + 1, Len(x)) = c
    <2>1. PICK z : z = SubSeq(x, Len(a) + Len(b) + 1, Len(x))
        OBVIOUS
    <2>2. /\ z \in Seq(T) /\ Len(z) = Len(c)
          /\ \A i \in 1 .. Len(c) : z[i] = x[Len(a) + Len(b) + i]
        BY <1>2, <1>5, <1>8, <2>1, SubSeqProperties
    <2>3. QED
        BY <1>7, <2>1, <2>2, SeqEqual
<1>12. QED
    BY <1>4, <1>5, <1>6, <1>7, <1>9, <1>10, <1>11

\* A rendered block without the newline that ends it: markers at its ends and none
\* between.
Framed(b) ==
    /\ Len(b) >= 2 /\ b[1] = BLOCK_START /\ b[Len(b)] = BLOCK_END
    /\ \A i \in 2 .. (Len(b) - 1) : b[i] \notin Marker

\* render_block puts the markers around the body and a newline after them.
LEMMA Rendered ==
    ASSUME NEW Token, {NL, BLOCK_START, BLOCK_END} \subseteq Token,
           NEW body \in Seq(Token), \A i \in DOMAIN body : body[i] \notin Marker
    PROVE  /\ Front(render_block(body)) \in Seq(Token)
           /\ Framed(Front(render_block(body)))
           /\ render_block(body) = Front(render_block(body)) \o <<NL>>
<1>1. PICK opening, closing, desired, b :
         /\ opening = <<BLOCK_START, NL>> /\ closing = <<BLOCK_END>>
         /\ b = opening \o body \o closing
         /\ desired = render_block(body)
    OBVIOUS
<1>2. /\ opening \in Seq(Token) /\ Len(opening) = 2
      /\ opening[1] = BLOCK_START /\ opening[2] = NL
      /\ closing \in Seq(Token) /\ Len(closing) = 1 /\ closing[1] = BLOCK_END
      /\ <<NL>> \in Seq(Token) /\ Len(<<NL>>) = 1
    BY <1>1
<1>3. /\ b \in Seq(Token) /\ Len(b) = Len(body) + 3 /\ Len(body) \in Nat
      /\ b[1] = BLOCK_START /\ b[2] = NL /\ b[Len(b)] = BLOCK_END
      /\ \A i \in 1 .. Len(body) : b[2 + i] = body[i]
    <2>1. /\ b \in Seq(Token) /\ Len(b) = 2 + Len(body) + 1
          /\ \A i \in 1 .. 2 : b[i] = opening[i]
          /\ \A i \in 1 .. Len(body) : b[2 + i] = body[i]
          /\ \A i \in 1 .. 1 : b[2 + Len(body) + i] = closing[i]
        BY <1>1, <1>2, Joined
    <2>2. QED
        BY <1>2, <2>1
<1>4. NL \notin Marker
    BY DEF NL, Marker, BLOCK_START, BLOCK_END
<1>5. ASSUME NEW i \in 2 .. (Len(b) - 1) PROVE b[i] \notin Marker
    <2>1. CASE i = 2
        BY <1>3, <1>4, <2>1
    <2>2. CASE i # 2
        <3>1. i - 2 \in 1 .. Len(body) /\ 2 + (i - 2) = i
            BY <1>3, <2>2
        <3>2. b[i] = body[i - 2]
            BY <1>3, <3>1
        <3>3. QED
            BY <3>1, <3>2
    <2>3. QED
        BY <2>1, <2>2
<1>6. Framed(b)
    BY <1>3, <1>5 DEF Framed
<1>7. desired = b \o <<NL>>
    <2>1. desired = opening \o body \o <<BLOCK_END, NL>>
        BY <1>1 DEF render_block
    <2>2. <<BLOCK_END, NL>> = closing \o <<NL>>
        BY <1>1
    <2>3. PICK most : most = opening \o body
        OBVIOUS
    <2>4. most \in Seq(Token)
        BY <1>2, <2>3
    <2>5. (most \o closing) \o <<NL>> = most \o (closing \o <<NL>>)
        BY <1>2, <2>4, ConcatAssociative, SMTT(30)
    <2>6. QED
        BY <1>1, <2>1, <2>2, <2>3, <2>5, Zenon
<1>8. Front(desired) = b
    <2>1. /\ desired \in Seq(Token) /\ Len(desired) = Len(b) + 1
          /\ \A i \in 1 .. Len(b) : desired[i] = b[i]
        BY <1>2, <1>3, <1>7, ConcatProperties
    <2>2. Front(desired) = SubSeq(desired, 1, Len(b))
        BY <1>3, <2>1 DEF Front
    <2>3. Len(b) \in 1 .. Len(b) /\ 1 \in 1 .. Len(b)
        BY <1>3
    <2>4. SubSeq(b \o <<NL>>, 1, Len(b)) = SubSeq(b, 1, Len(b))
        BY <1>2, <1>3, <2>3, SubSeqOfConcat1
    <2>5. SubSeq(b, 1, Len(b)) = b
        BY <1>3, SubSeqFull
    <2>6. QED
        BY <1>7, <2>2, <2>4, <2>5, Zenon
<1>9. QED
    BY <1>1, <1>3, <1>6, <1>7, <1>8

\* The first block of a text, and what stands around it.
Between(text, a, b, c) ==
    /\ find_block(text).found
    /\ find_block(text).first = Len(a) + 1
    /\ find_block(text).last = Len(a) + Len(b)
    /\ SubSeq(text, find_block(text).first, find_block(text).last) = b
    /\ TextBefore(text) = a /\ TextAfter(text) = c

\* A block between two texts is found, if no start marker comes before it.
LEMMA Embedded ==
    ASSUME NEW Token, NEW a \in Seq(Token), NEW b \in Seq(Token), NEW c \in Seq(Token),
           \A i \in 1 .. Len(a) : a[i] # BLOCK_START, Framed(b),
           NEW text, text = a \o b \o c
    PROVE  text \in Seq(Token) /\ Between(text, a, b, c)
<1>1. PICK s, e : s = Len(a) + 1 /\ e = Len(a) + Len(b)
    OBVIOUS
<1>2. Len(a) \in Nat /\ Len(b) \in Nat /\ Len(c) \in Nat
    OBVIOUS
<1>3. /\ text \in Seq(Token) /\ Len(text) = Len(a) + Len(b) + Len(c)
      /\ \A i \in 1 .. Len(a) : text[i] = a[i]
      /\ \A i \in 1 .. Len(b) : text[Len(a) + i] = b[i]
      /\ SubSeq(text, 1, Len(a)) = a
      /\ SubSeq(text, Len(a) + 1, Len(a) + Len(b)) = b
      /\ SubSeq(text, Len(a) + Len(b) + 1, Len(text)) = c
    BY Joined
<1>4. s \in 1 .. Len(text) /\ e \in (s + 1) .. Len(text)
    BY <1>1, <1>2, <1>3 DEF Framed
<1>5. text[s] = BLOCK_START /\ text[e] = BLOCK_END
    BY <1>1, <1>2, <1>3 DEF Framed
<1>6. \A i \in 1 .. (s - 1) : text[i] # BLOCK_START
    BY <1>1, <1>2, <1>3
<1>7. ASSUME NEW i \in (s + 1) .. (e - 1) PROVE text[i] # BLOCK_END
    <2>1. /\ i - Len(a) \in 2 .. (Len(b) - 1) /\ i - Len(a) \in 1 .. Len(b)
          /\ Len(a) + (i - Len(a)) = i
        BY <1>1, <1>2
    <2>2. text[i] = b[i - Len(a)]
        BY <1>3, <2>1
    <2>3. QED
        BY <2>1, <2>2 DEF Framed, Marker
<1>8. BlockAt(text, s, e)
    BY <1>4, <1>5, <1>6, <1>7 DEF BlockAt
<1>9. find_block(text).found /\ find_block(text).first = s /\ find_block(text).last = e
    <2>1. Len(text) \in Nat
        BY <1>2, <1>3
    <2>2. QED
        BY <1>8, <2>1, BlockIs
<1>10. s - 1 = Len(a) /\ e + 1 = Len(a) + Len(b) + 1
    BY <1>1, <1>2
<1>11. TextBefore(text) = a
    BY <1>3, <1>9, <1>10 DEF TextBefore
<1>12. TextAfter(text) = c
    BY <1>3, <1>9, <1>10 DEF TextAfter
<1>13. QED
    BY <1>1, <1>3, <1>9, <1>11, <1>12 DEF Between

-----------------------------------------------------------------------------
\* The text of an rc file, missing or not.
LEMMA RcText ==
    ASSUME NEW Token, NEW rc, IsRc(rc, Token)
    PROVE  Text(rc) \in Seq(Token)
<1>1. CASE rc = Missing
    BY <1>1, EmptySeq DEF Text
<1>2. ASSUME NEW l, NEW t \in Seq(Token), rc = RcFile(l, t)
      PROVE  Text(rc) \in Seq(Token)
    <2>1. rc.text = t
        BY <1>2 DEF RcFile
    <2>2. QED
        BY <1>1, <1>2, <2>1 DEF Text
<1>3. QED
    BY <1>1, <1>2 DEF IsRc

\* What atomic_write leaves reads as what was written.
LEMMA Written ==
    ASSUME NEW Token, NEW t \in Seq(Token)
    PROVE  IsRc(atomic_write(t), Token) /\ Text(atomic_write(t)) = t
<1>1. atomic_write(t).text = t /\ DOMAIN atomic_write(t) = {"linked", "text"}
    BY DEF atomic_write, RcFile
<1>2. atomic_write(t) # Missing
    <2>1. DOMAIN Missing = {"no"}
        BY DEF Missing
    <2>2. QED
        BY <1>1, <2>1
<1>3. QED
    BY <1>1, <1>2 DEF Text, IsRc, atomic_write

\* The text a new block is put after: the text with its last line ended, and a
\* blank line.
Ended(text) == IF NewlineAt(text, Len(text)) THEN text ELSE Append(text, NL)

\* The separator keeps the text, brings no marker, and takes at most one newline
\* more than the blank line before the block.
LEMMA OpenedText ==
    ASSUME NEW Token, NL \in Token, NEW text \in Seq(Token)
    PROVE  /\ Opened(text) \in Seq(Token) /\ Len(Opened(text)) \in Nat
           /\ IsPrefix(text, Opened(text))
           /\ (\A i \in 1 .. Len(text) : text[i] # BLOCK_START)
                => \A i \in 1 .. Len(Opened(text)) : Opened(text)[i] # BLOCK_START
           /\ text # <<>> => /\ Len(Opened(text)) >= 2
                             /\ Opened(text)[Len(Opened(text))] = NL
                             /\ Opened(text)[Len(Opened(text)) - 1] = NL
                             /\ SubSeq(Opened(text), 1, Len(Opened(text)) - 1) = Ended(text)
           /\ text = <<>> => Opened(text) = <<>>
<1>1. PICK o, most : o = Opened(text) /\ most = Ended(text)
    OBVIOUS
<1>2. NL # BLOCK_START
    BY DEF NL, BLOCK_START
<1>3. CASE text = <<>>
    <2>1. o = text
        BY <1>1, <1>3 DEF Opened
    <2>2. IsPrefix(text, o)
        BY <2>1 DEF IsPrefix
    <2>3. Len(o) = 0 /\ Len(o) \in Nat /\ o \in Seq(Token)
        BY <1>3, <2>1
    <2>4. QED
        BY <1>1, <1>3, <2>1, <2>2, <2>3
<1>4. CASE text # <<>>
    <2>1. Len(text) \in Nat \ {0} /\ DOMAIN text = 1 .. Len(text)
        BY <1>4, EmptySeq, LenProperties
    <2>2. /\ most \in Seq(Token) /\ Len(most) \in Nat
          /\ Len(most) >= Len(text) /\ most[Len(most)] = NL
          /\ \A i \in 1 .. Len(text) : most[i] = text[i]
          /\ \A i \in (Len(text) + 1) .. Len(most) : most[i] = NL
        <3>1. CASE NewlineAt(text, Len(text))
            BY <1>1, <2>1, <3>1 DEF Ended, NewlineAt
        <3>2. CASE ~NewlineAt(text, Len(text))
            <4>1. most = Append(text, NL)
                BY <1>1, <3>2 DEF Ended
            <4>2. /\ most \in Seq(Token) /\ Len(most) = Len(text) + 1
                  /\ \A i \in 1 .. Len(text) : most[i] = text[i]
                  /\ most[Len(text) + 1] = NL
                BY <4>1, AppendProperties
            <4>3. QED
                BY <2>1, <4>2
        <3>3. QED
            BY <3>1, <3>2
    <2>3. o = Append(most, NL)
        <3>1. CASE NewlineAt(text, Len(text))
            BY <1>1, <1>4, <3>1 DEF Ended, Opened
        <3>2. CASE ~NewlineAt(text, Len(text))
            <4>1. o = text \o <<NL, NL>> /\ most = Append(text, NL)
                BY <1>1, <1>4, <3>2 DEF Ended, Opened
            <4>2. /\ o \in Seq(Token) /\ Len(o) = Len(text) + 2
                  /\ \A i \in 1 .. Len(text) : o[i] = text[i]
                  /\ o[Len(text) + 1] = NL /\ o[Len(text) + 2] = NL
                <5>1. PICK blank : blank = <<NL, NL>>
                    OBVIOUS
                <5>2. /\ blank \in Seq(Token) /\ Len(blank) = 2
                      /\ blank[1] = NL /\ blank[2] = NL
                    BY <5>1
                <5>3. /\ o \in Seq(Token) /\ Len(o) = Len(text) + Len(blank)
                      /\ \A i \in 1 .. Len(text) + Len(blank) :
                            o[i] = IF i <= Len(text) THEN text[i] ELSE blank[i - Len(text)]
                    BY <4>1, <5>1, <5>2, ConcatProperties
                <5>4. QED
                    BY <2>1, <5>2, <5>3
            <4>3. PICK p : p = Append(most, NL)
                OBVIOUS
            <4>4. /\ p \in Seq(Token) /\ Len(p) = Len(text) + 2
                  /\ \A i \in 1 .. Len(text) + 1 : p[i] = most[i]
                  /\ p[Len(text) + 2] = NL
                BY <2>2, <4>1, <4>3, AppendProperties
            <4>5. \A i \in 1 .. Len(text) + 1 : most[i] = IF i <= Len(text) THEN text[i] ELSE NL
                BY <2>1, <4>1, AppendProperties
            <4>6. \A i \in 1 .. Len(o) : o[i] = p[i]
                BY <2>1, <4>2, <4>4, <4>5
            <4>7. QED
                BY <4>2, <4>3, <4>4, <4>6, SeqEqual
        <3>3. QED
            BY <3>1, <3>2
    <2>4. /\ o \in Seq(Token) /\ Len(o) = Len(most) + 1
          /\ \A i \in 1 .. Len(most) : o[i] = most[i]
          /\ o[Len(most) + 1] = NL
        BY <2>2, <2>3, AppendProperties
    <2>5. ASSUME NEW n \in 1 .. Len(most) PROVE SubSeq(o, 1, n) = SubSeq(most, 1, n)
        <3>1. n \in Int /\ 1 \in Int /\ 1 <= n /\ n - 1 + 1 = n
            BY <2>2
        <3>2. \A i \in 1 .. n : o[i] \in Token /\ most[i] \in Token /\ o[i] = most[i]
            BY <2>2, <2>4
        <3>3. /\ SubSeq(o, 1, n) \in Seq(Token) /\ Len(SubSeq(o, 1, n)) = n
              /\ \A i \in 1 .. n : SubSeq(o, 1, n)[i] = o[i]
            BY <3>1, <3>2, SubSeqProperties
        <3>4. /\ SubSeq(most, 1, n) \in Seq(Token) /\ Len(SubSeq(most, 1, n)) = n
              /\ \A i \in 1 .. n : SubSeq(most, 1, n)[i] = most[i]
            BY <3>1, <3>2, SubSeqProperties
        <3>5. QED
            BY <3>2, <3>3, <3>4, SeqEqual
    <2>6. SubSeq(o, 1, Len(o) - 1) = most
        BY <2>1, <2>2, <2>4, <2>5, SubSeqFull
    <2>7. IsPrefix(text, o)
        <3>1. \A i \in 1 .. Len(text) : o[i] = text[i] /\ o[i] \in Token
            BY <2>1, <2>2, <2>4
        <3>2. /\ SubSeq(o, 1, Len(text)) \in Seq(Token) /\ Len(SubSeq(o, 1, Len(text))) = Len(text)
              /\ \A i \in 1 .. Len(text) : SubSeq(o, 1, Len(text))[i] = o[i]
            BY <2>1, <3>1, SubSeqProperties
        <3>3. SubSeq(o, 1, Len(text)) = text
            BY <3>1, <3>2, SeqEqual
        <3>4. QED
            BY <2>1, <2>2, <2>4, <3>3, SubSeqFull DEF IsPrefix
    <2>8. ASSUME \A i \in 1 .. Len(text) : text[i] # BLOCK_START
          PROVE  \A i \in 1 .. Len(o) : o[i] # BLOCK_START
        <3>1. ASSUME NEW i \in 1 .. Len(most) PROVE most[i] # BLOCK_START
            <4>1. i \in 1 .. Len(text) \/ i \in (Len(text) + 1) .. Len(most)
                BY <2>1, <2>2
            <4>2. QED
                BY <1>2, <2>2, <2>8, <4>1
        <3>2. ASSUME NEW i \in 1 .. Len(o) PROVE i \in 1 .. Len(most) \/ i = Len(most) + 1
            BY <2>2, <2>4
        <3>3. QED
            BY <1>2, <2>4, <3>1, <3>2
    <2>9. QED
        BY <1>1, <1>4, <2>1, <2>2, <2>4, <2>6, <2>7, <2>8
<1>5. QED
    BY <1>3, <1>4

\* What writing the block b over the text t leaves: the block, between what stood
\* around it.
Holds(u, b) ==
    find_block(u).found /\ SubSeq(u, find_block(u).first, find_block(u).last) = b

Kept(t, b, u) ==
    /\ find_block(t).found =>
          /\ TextBefore(u) = TextBefore(t)
          /\ TextAfter(u) \in {TextAfter(t), <<NL>> \o TextAfter(t)}
          /\ NewlineAt(t, find_block(t).last + 1) => TextAfter(u) = TextAfter(t)
    /\ ~find_block(t).found => u = Opened(t) \o b \o <<NL>>

\* By the three outcomes of write_block: inserted, unchanged, updated.
LEMMA AfterWrite ==
    ASSUME NEW Token, {NL, BLOCK_START, BLOCK_END} \subseteq Token,
           NEW rc, IsRc(rc, Token), NoStrayStart(Text(rc)),
           NEW body \in Seq(Token), \A i \in DOMAIN body : body[i] \notin Marker,
           NEW t, t = Text(rc), NEW b, b = Front(render_block(body)),
           NEW w, w = write_block(rc, body), NEW u, u = Text(w.rc)
    PROVE  IsRc(w.rc, Token) /\ Holds(u, b) /\ Kept(t, b, u)
<1>1. PICK desired : desired = render_block(body)
    OBVIOUS
<1>2. b \in Seq(Token) /\ Framed(b) /\ desired = b \o <<NL>> /\ b = Front(desired)
    BY <1>1, Rendered
<1>3. t \in Seq(Token) /\ Len(t) \in Nat /\ <<NL>> \in Seq(Token) /\ NL \in Token
    BY RcText
<1>4. CASE ~find_block(t).found
    <2>1. PICK o : o = Opened(t)
        OBVIOUS
    <2>2. \A i \in 1 .. Len(t) : t[i] # BLOCK_START
        BY <1>3, <1>4 DEF NoStrayStart
    <2>3. o \in Seq(Token) /\ \A i \in 1 .. Len(o) : o[i] # BLOCK_START
        BY <1>3, <2>1, <2>2, OpenedText
    <2>4. w.rc = atomic_write(o \o desired)
        BY <1>1, <1>4, <2>1 DEF write_block
    <2>5. PICK nl : nl = <<NL>>
        OBVIOUS
    <2>6. nl \in Seq(Token) /\ desired = b \o nl
        BY ONLY <1>2, <1>3, <2>5, Zenon
    <2>7. PICK v : v = o \o b \o nl
        OBVIOUS
    <2>8. o \o desired = v
        <3>1. (o \o b) \o nl = o \o (b \o nl)
            <4>1. o \in Seq(Token) /\ b \in Seq(Token) /\ nl \in Seq(Token)
                BY <1>2, <2>3, <2>6
            <4>2. QED
                BY ONLY <4>1, ConcatAssociative, SMTT(30)
        <3>2. QED
            BY ONLY <2>6, <2>7, <3>1
    <2>9. v \in Seq(Token) /\ Between(v, o, b, nl)
        <3>1. b \in Seq(Token) /\ Framed(b) /\ nl \in Seq(Token)
            BY <1>2, <2>6
        <3>2. QED
            BY ONLY <2>3, <2>7, <3>1, Embedded, Zenon
    <2>10. w.rc = atomic_write(v)
        BY <2>4, <2>8
    <2>11. IsRc(w.rc, Token) /\ u = v
        BY <2>9, <2>10, Written
    <2>12. u = Opened(t) \o b \o <<NL>>
        BY ONLY <2>1, <2>5, <2>7, <2>11, Zenon
    <2>13. QED
        BY <1>4, <2>9, <2>11, <2>12 DEF Between, Holds, Kept
<1>5. CASE find_block(t).found
    <2>1. PICK s, e : s = find_block(t).first /\ e = find_block(t).last
        OBVIOUS
    <2>2. BlockAt(t, s, e)
        BY <1>3, <1>5, <2>1, BlockFound
    <2>3. CASE SubSeq(t, s, e) = b
        <3>1. w.rc = rc
            BY <1>1, <1>2, <1>5, <2>1, <2>3 DEF write_block
        <3>2. QED
            BY <1>5, <2>1, <2>3, <3>1 DEF Holds, Kept
    <2>4. CASE SubSeq(t, s, e) # b
        <3>1. PICK before, after :
                 before = SubSeq(t, 1, s - 1) /\ after = SubSeq(t, e + 1, Len(t))
            OBVIOUS
        <3>2. /\ before \in Seq(Token) /\ Len(before) = s - 1
              /\ \A i \in 1 .. Len(before) : before[i] # BLOCK_START
            <4>1. /\ s - 1 \in Int /\ 1 \in Int /\ s \in Nat
                  /\ \A i \in 1 .. (s - 1) : t[i] \in Token /\ t[i] # BLOCK_START
                BY <1>3, <2>2 DEF BlockAt
            <4>2. /\ before \in Seq(Token)
                  /\ Len(before) = IF 1 <= s - 1 THEN s - 1 - 1 + 1 ELSE 0
                  /\ \A i \in 1 .. s - 1 - 1 + 1 : before[i] = t[1 + i - 1]
                BY <3>1, <4>1, SubSeqProperties
            <4>3. s >= 1
                BY <2>2 DEF BlockAt
            <4>4. QED
                BY <4>1, <4>2, <4>3
        <3>3. after \in Seq(Token)
            <4>1. /\ e + 1 \in Int /\ Len(t) \in Int
                  /\ \A i \in (e + 1) .. Len(t) : t[i] \in Token
                BY <1>3, <2>2 DEF BlockAt
            <4>2. QED
                BY <3>1, <4>1, SubSeqProperties
        <3>4. before = TextBefore(t) /\ after = TextAfter(t)
            BY <2>1, <3>1 DEF TextBefore, TextAfter
        <3>5. CASE NewlineAt(t, e + 1)
            <4>1. w.rc = atomic_write(before \o b \o after)
                BY <1>1, <1>2, <1>5, <2>1, <2>4, <3>1, <3>5 DEF write_block
            <4>2. PICK v : v = before \o b \o after
                OBVIOUS
            <4>3. v \in Seq(Token) /\ Between(v, before, b, after)
                <5>1. b \in Seq(Token) /\ Framed(b)
                    BY <1>2
                <5>2. \A i \in 1 .. Len(before) : before[i] # BLOCK_START
                    BY <3>2
                <5>3. before \in Seq(Token)
                    BY <3>2
                <5>4. QED
                    BY ONLY <3>3, <4>2, <5>1, <5>2, <5>3, Embedded, Zenon
            <4>4. IsRc(w.rc, Token) /\ u = v
                BY <4>1, <4>2, <4>3, Written
            <4>5. QED
                BY <1>5, <3>4, <4>3, <4>4 DEF Between, Holds, Kept
        <3>6. CASE ~NewlineAt(t, e + 1)
            <4>1. w.rc = atomic_write(before \o desired \o after)
                BY <1>1, <1>2, <1>5, <2>1, <2>4, <3>1, <3>6 DEF write_block
            <4>2. PICK nl, rest : nl = <<NL>> /\ rest = nl \o after
                OBVIOUS
            <4>3. PICK v : v = before \o b \o rest
                OBVIOUS
            <4>4. nl \in Seq(Token) /\ rest \in Seq(Token) /\ desired = b \o nl
                <5>1. nl \in Seq(Token) /\ desired = b \o nl
                    BY ONLY <1>2, <1>3, <4>2, Zenon
                <5>2. nl \o after \in Seq(Token)
                    BY ONLY <3>3, <5>1, ConcatProperties
                <5>3. QED
                    BY ONLY <4>2, <5>1, <5>2, Zenon
            <4>5. before \o desired \o after = v
                <5>1. before \in Seq(Token) /\ b \in Seq(Token) /\ nl \in Seq(Token)
                    BY <1>2, <3>2, <4>4
                <5>2. (before \o b) \o nl = before \o (b \o nl)
                    BY ONLY <5>1, ConcatAssociative, SMTT(30)
                <5>3. PICK x : x = before \o b
                    OBVIOUS
                <5>4. x \in Seq(Token)
                    BY ONLY <5>1, <5>3, ConcatProperties
                <5>5. (x \o nl) \o after = x \o (nl \o after)
                    BY ONLY <3>3, <5>1, <5>4, ConcatAssociative, SMTT(30)
                <5>6. before \o desired = x \o nl
                    BY ONLY <4>4, <5>2, <5>3, Zenon
                <5>7. x \o (nl \o after) = v
                    BY ONLY <4>2, <4>3, <5>3, Zenon
                <5>8. QED
                    BY ONLY <5>5, <5>6, <5>7, Zenon
            <4>6. v \in Seq(Token) /\ Between(v, before, b, rest)
                <5>1. b \in Seq(Token) /\ Framed(b)
                    BY <1>2
                <5>2. \A i \in 1 .. Len(before) : before[i] # BLOCK_START
                    BY <3>2
                <5>3. before \in Seq(Token) /\ rest \in Seq(Token)
                    BY <3>2, <4>4
                <5>4. QED
                    BY ONLY <4>3, <5>1, <5>2, <5>3, Embedded, Zenon
            <4>7. IsRc(w.rc, Token) /\ u = v
                BY <4>1, <4>5, <4>6, Written
            <4>8. QED
                BY <1>5, <2>1, <3>4, <3>6, <4>2, <4>6, <4>7 DEF Between, Holds, Kept
        <3>7. QED
            BY <3>5, <3>6
    <2>5. QED
        BY <2>3, <2>4
<1>6. QED
    BY <1>4, <1>5

\* A second install finds nothing to do ("Idempotent", mod.rs): whatever the file
\* held, the block is in it after write_block, and the same body is not written twice.
THEOREM WriteSettles ==
    ASSUME NEW Token, {NL, BLOCK_START, BLOCK_END} \subseteq Token,
           NEW rc, IsRc(rc, Token), NoStrayStart(Text(rc)),
           NEW body \in Seq(Token), \A i \in DOMAIN body : body[i] \notin Marker
    PROVE  LET w == write_block(rc, body)
           IN  contains_block(w.rc) /\ write_block(w.rc, body) = [rc |-> w.rc, action |-> "unchanged"]
<1>1. PICK w : w = write_block(rc, body)
    OBVIOUS
<1>2. PICK u : u = Text(w.rc)
    OBVIOUS
<1>3. Holds(u, Front(render_block(body)))
    BY <1>1, <1>2, AfterWrite, Zenon
<1>4. contains_block(w.rc)
    BY <1>2, <1>3 DEF contains_block, Holds
<1>5. write_block(w.rc, body) = [rc |-> w.rc, action |-> "unchanged"]
    BY <1>2, <1>3 DEF write_block, Holds
<1>6. QED
    BY <1>1, <1>4, <1>5

\* "Outside, the file is left exactly as it was" (rc_block.rs): a write keeps what
\* stands before the block and what stands after it, but for a newline put before a
\* text that follows the end marker on its line; where there was no block, the new
\* one comes after the old text and a separator.
THEOREM WriteKeepsTheRest ==
    ASSUME NEW Token, {NL, BLOCK_START, BLOCK_END} \subseteq Token,
           NEW rc, IsRc(rc, Token), NoStrayStart(Text(rc)),
           NEW body \in Seq(Token), \A i \in DOMAIN body : body[i] \notin Marker
    PROVE  LET old == Text(rc)
               new == Text(write_block(rc, body).rc)
           IN  IF contains_block(rc)
               THEN /\ TextBefore(new) = TextBefore(old)
                    /\ TextAfter(new) \in {TextAfter(old), <<NL>> \o TextAfter(old)}
                    /\ NewlineAt(old, find_block(old).last + 1)
                          => TextAfter(new) = TextAfter(old)
               ELSE new = Opened(old) \o render_block(body) /\ IsPrefix(old, Opened(old))
<1>1. PICK old, w, new, b : /\ old = Text(rc) /\ w = write_block(rc, body)
                            /\ new = Text(w.rc) /\ b = Front(render_block(body))
    OBVIOUS
<1>2. contains_block(rc) = find_block(old).found
    BY <1>1 DEF contains_block
<1>3. Kept(old, b, new)
    BY <1>1, AfterWrite, Zenon
<1>4. old \in Seq(Token) /\ NL \in Token
    BY <1>1, RcText
<1>5. Opened(old) \in Seq(Token) /\ IsPrefix(old, Opened(old))
    BY <1>4, OpenedText
<1>6. Opened(old) \o b \o <<NL>> = Opened(old) \o render_block(body)
    <2>1. b \in Seq(Token) /\ render_block(body) = b \o <<NL>> /\ <<NL>> \in Seq(Token)
        BY <1>1, <1>4, Rendered
    <2>2. QED
        BY <1>5, <2>1, ConcatAssociative
<1>7. QED
    BY <1>1, <1>2, <1>3, <1>5, <1>6 DEF Kept

\* "An install + uninstall pair leaves the file byte-identical (modulo final newline
\* preservation)" (remove_block of rc_block.rs): the file holds what it held, with its
\* last line ended.
THEOREM RemoveRestores ==
    ASSUME NEW Token, {NL, BLOCK_START, BLOCK_END} \subseteq Token,
           NEW rc, IsRc(rc, Token), NoStrayStart(Text(rc)), ~contains_block(rc),
           NEW body \in Seq(Token), \A i \in DOMAIN body : body[i] \notin Marker
    PROVE  Text(remove_block(write_block(rc, body).rc)) =
              IF Text(rc) = <<>> THEN <<>> ELSE Ended(Text(rc))
<1>1. PICK t, w, u, b, o : /\ t = Text(rc) /\ w = write_block(rc, body) /\ u = Text(w.rc)
                           /\ b = Front(render_block(body)) /\ o = Opened(t)
    OBVIOUS
<1>2. u = o \o b \o <<NL>>
    <2>1. ~find_block(t).found
        BY <1>1 DEF contains_block
    <2>2. Kept(t, b, u)
        BY <1>1, AfterWrite, Zenon
    <2>3. QED
        BY <1>1, <2>1, <2>2, Zenon DEF Kept
<1>3. t \in Seq(Token) /\ b \in Seq(Token) /\ Framed(b) /\ <<NL>> \in Seq(Token) /\ NL \in Token
    BY <1>1, RcText, Rendered
<1>4. \A i \in 1 .. Len(t) : t[i] # BLOCK_START
    BY <1>1, <1>3 DEF NoStrayStart, contains_block
<1>5. /\ o \in Seq(Token) /\ Len(o) \in Nat
      /\ \A i \in 1 .. Len(o) : o[i] # BLOCK_START
      /\ t # <<>> => /\ Len(o) >= 2 /\ o[Len(o)] = NL /\ o[Len(o) - 1] = NL
                     /\ SubSeq(o, 1, Len(o) - 1) = Ended(t)
      /\ t = <<>> => o = <<>>
    BY <1>1, <1>3, <1>4, OpenedText
<1>6. PICK s, e : s = Len(o) + 1 /\ e = Len(o) + Len(b)
    OBVIOUS
<1>7. find_block(u).found /\ find_block(u).first = s /\ find_block(u).last = e
    <2>1. PICK nl : nl = <<NL>>
        OBVIOUS
    <2>2. nl \in Seq(Token) /\ u = o \o b \o nl
        BY <1>2, <1>3, <2>1, Zenon
    <2>3. Between(u, o, b, nl)
        <3>1. b \in Seq(Token) /\ Framed(b) /\ o \in Seq(Token)
            BY <1>3, <1>5
        <3>2. \A i \in 1 .. Len(o) : o[i] # BLOCK_START
            BY <1>5
        <3>3. QED
            BY ONLY <2>2, <3>1, <3>2, Embedded, Zenon
    <2>4. QED
        BY <1>6, <2>3 DEF Between
<1>8. /\ u \in Seq(Token) /\ Len(u) = e + 1 /\ u[e + 1] = NL
      /\ \A i \in 1 .. Len(o) : u[i] = o[i]
    <2>1. /\ u \in Seq(Token) /\ Len(u) = Len(o) + Len(b) + 1
          /\ \A i \in 1 .. Len(o) : u[i] = o[i]
          /\ u[Len(o) + Len(b) + 1] = NL
        BY <1>2, <1>3, <1>5, Joined
    <2>2. QED
        BY <1>6, <2>1
<1>9. Len(b) \in Nat /\ s \in Nat /\ e \in Nat /\ e > s /\ DOMAIN u = 1 .. (e + 1)
    BY <1>3, <1>5, <1>6, <1>8 DEF Framed
<1>10. NewlineAt(u, e + 1)
    BY <1>8, <1>9 DEF NewlineAt
<1>11. SubSeq(u, e + 2, Len(u)) = <<>>
    <2>1. e + 2 \in Int /\ Len(u) \in Int /\ e + 2 > Len(u)
        BY <1>8, <1>9
    <2>2. QED
        BY <2>1, SubSeqEmpty
<1>12. CASE t = <<>>
    <2>1. s = 1 /\ ~NewlineAt(u, s - 1)
        BY <1>5, <1>6, <1>9, <1>12 DEF NewlineAt
    <2>2. remove_block(w.rc) = atomic_write(SubSeq(u, 1, 0) \o SubSeq(u, e + 2, Len(u)))
        BY <1>1, <1>7, <1>10, <2>1 DEF remove_block
    <2>3. SubSeq(u, 1, 0) = <<>>
        BY SubSeqEmpty
    <2>4. remove_block(w.rc) = atomic_write(<<>>) /\ <<>> \in Seq(Token)
        <3>1. <<>> \o <<>> = <<>> /\ <<>> \in Seq(Token)
            BY EmptySeq, ConcatEmptySeq
        <3>2. QED
            BY <1>11, <2>2, <2>3, <3>1
    <2>5. Text(remove_block(w.rc)) = <<>>
        BY <2>4, Written
    <2>6. QED
        BY <1>1, <1>12, <2>5
<1>13. CASE t # <<>>
    <2>1. NewlineAt(u, s - 1) /\ NewlineAt(u, s - 2)
        <3>1. s - 1 = Len(o) /\ s - 2 = Len(o) - 1 /\ Len(o) \in 1 .. (e + 1)
              /\ Len(o) \in 1 .. Len(o) /\ Len(o) - 1 \in 1 .. Len(o)
              /\ Len(o) - 1 \in 1 .. (e + 1)
            BY <1>5, <1>6, <1>9, <1>13
        <3>2. o[Len(o)] = NL /\ o[Len(o) - 1] = NL
            BY <1>5, <1>13
        <3>3. QED
            BY <1>8, <1>9, <3>1, <3>2 DEF NewlineAt
    <2>2. remove_block(w.rc) = atomic_write(SubSeq(u, 1, s - 2) \o SubSeq(u, e + 2, Len(u)))
        BY <1>1, <1>7, <1>10, <2>1 DEF remove_block
    <2>3. SubSeq(u, 1, s - 2) = SubSeq(o, 1, Len(o) - 1)
        <3>1. s - 2 = Len(o) - 1 /\ Len(o) - 1 \in Nat
            BY <1>5, <1>6, <1>13
        <3>2. \A i \in 1 .. Len(o) - 1 : u[i] = o[i] /\ u[i] \in Token /\ o[i] \in Token
            BY <1>5, <1>8
        <3>3. PICK n : n = Len(o) - 1
            OBVIOUS
        <3>4. n \in Int /\ 1 \in Int /\ n >= 1 /\ n - 1 + 1 = n
            BY <1>5, <1>13, <3>3
        <3>5. /\ SubSeq(u, 1, n) \in Seq(Token) /\ Len(SubSeq(u, 1, n)) = n
              /\ \A i \in 1 .. n : SubSeq(u, 1, n)[i] = u[i]
            BY <3>2, <3>3, <3>4, SubSeqProperties
        <3>6. /\ SubSeq(o, 1, n) \in Seq(Token) /\ Len(SubSeq(o, 1, n)) = n
              /\ \A i \in 1 .. n : SubSeq(o, 1, n)[i] = o[i]
            BY <3>2, <3>3, <3>4, SubSeqProperties
        <3>7. SubSeq(u, 1, n) = SubSeq(o, 1, n)
            BY <3>2, <3>3, <3>5, <3>6, SeqEqual
        <3>8. QED
            BY <3>1, <3>3, <3>7
    <2>4. Ended(t) \in Seq(Token)
        BY <1>3 DEF Ended
    <2>5. remove_block(w.rc) = atomic_write(Ended(t))
        <3>1. Ended(t) \o <<>> = Ended(t)
            BY <2>4
        <3>2. QED
            BY <1>5, <1>11, <1>13, <2>2, <2>3, <3>1
    <2>6. QED
        BY <1>1, <1>13, <2>4, <2>5, Written
<1>14. QED
    BY <1>12, <1>13
=============================================================================
