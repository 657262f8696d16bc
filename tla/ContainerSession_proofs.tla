------------------------ MODULE ContainerSession_proofs ------------------------
(***************************************************************************)
(* The screens of the interface and the container in RAM, for any number   *)
(* of profiles and either build: no screen waits for nothing, the manage   *)
(* screen has its container, and in the default build no profile leaves    *)
(* the local container unasked.                                            *)
(***************************************************************************)
EXTENDS ContainerSession, TLAPS

\* A stage that takes no key and its request come and go together, on the screen
\* of the request, and nothing is requested beside it.
Waiting ==
  /\ \A r \in requests : requests = {r} /\ screen = OwnerOf(r)
  /\ "Unlock" \in requests => manage = "Unlocking"
  /\ screen = "ProfileUnlock" /\ manage = "Unlocking" => "Unlock" \in requests
  /\ manage = "Wiping" <=> "Wipe" \in requests
  /\ manage = "DeletingInner" <=> "Delete" \in requests
  /\ inner = "Saving" <=> "Add" \in requests
  /\ pass = "Encrypting" <=> "Save" \in requests
  /\ push.stage = "AccountSending" <=> "Login" \in requests
  /\ push.stage = "TotpSending" <=> "Totp" \in requests
  /\ push.stage = "PushFetching" <=> "List" \in requests
  /\ push.stage = "PushSending" <=> requests \cap {"Rewrite", "Send", "Download"} # {}
  /\ screen = "PushProfile" => push.session

\* A profile is shown only with a container in RAM, also on the way into and out
\* of the push flow; in the default build it is one of the container's.
Unlocked ==
  /\ active # 0 => ram # {}
  /\ ~remote /\ active # 0 => active \in ram
  /\ ~remote /\ screen = "ProfileUnlock" => active = 0
  /\ screen = "ProfileManage" => ram # {} /\ active # 0
  /\ screen \in {"Account", "LoginTotp", "PushProfile"} /\ back = "ProfileManage"
       => ram # {} /\ active # 0

\* The default build has one container.
OneContainer ==
  ~remote => source = "Local" /\ ~exists["Remote"] /\ disk["Remote"] = {}

\* What the default build remembers of it, up to a wipe: no file without its
\* flag, the set in RAM is what the file holds, and a container is not created
\* where one is.
Remembered ==
  ~remote /\ ~wiped =>
    /\ ~exists["Local"] => disk["Local"] \subseteq Torn
    /\ ram # {} => exists["Local"] /\ disk["Local"] = ram
    /\ screen \in {"Wizard", "InnerAlias", "ProfilePassphrase"}
         /\ mode # "AddInnerProfile" /\ pass # "Saved" => ~exists["Local"]
    /\ screen = "ProfilePassphrase" => mode # "AddInnerProfile"

-----------------------------------------------------------------------------
\* The states of the push flow.
PushFlows == [mode : PushModes, stage : PushStages, session : BOOLEAN, listed : BOOLEAN]

\* PushFlowState::default is a push flow.
LEMMA NewIsPush ==
  NewPush \in PushFlows
  BY DEF PushFlows, NewPush, PushModes, PushStages

\* The container written by the first save holds profiles.
LEMMA NewContainerTyped ==
  ASSUME TypeOK, WriteNewContainer
  PROVE  /\ disk' \in [Sources -> Containers] /\ made' \in Profiles
         /\ saved' \in Sources \cup {None}
<1>1. made' \in Profiles
  BY SessionAssumption DEF TypeOK, WriteNewContainer, MakeProfile, Profiles
<1>2. {made'} \in Containers
  BY <1>1 DEF Containers
<1>3. QED
  BY <1>1, <1>2 DEF TypeOK, WriteNewContainer, Sources

\* A write cut short leaves a container, torn or not.
LEMMA FailedWriteTyped ==
  ASSUME TypeOK, NEW s \in Sources, FailedWrite(s)
  PROVE  disk' \in [Sources -> Containers]
  BY DEF TypeOK, FailedWrite, Containers

\* Every key and every request served keeps the types.
LEMMA TypeStep ==
  ASSUME TypeOK, [Next]_vars
  PROVE  TypeOK'
<1> USE DEF PushFlows, TypeOK, fileVars, lockVars, walkVars, pushVars
<1>1. CASE \E s \in Sources : OpenProfile(s)
  BY <1>1 DEF OpenProfile, Choose, OpenItem, welcome_items_active, KeyOn, GoTo,
     ManageStages
<1>2. CASE Configure
  BY <1>2 DEF Configure, Choose, welcome_items_active, KeyOn, GoTo, ManageStages, Sources
<1>3. CASE ConfigureRemote
  <2>1. push' \in PushFlows
    BY <1>3, NewIsPush DEF ConfigureRemote, PushModes, PushStages
  <2>2. QED
    BY <1>3, <2>1 DEF ConfigureRemote, Choose, KeyOn, GoTo
<1>4. CASE SignIn
  <2>1. push' \in PushFlows
    BY <1>4, NewIsPush DEF SignIn, EnterPush, PushModes, PushStages
  <2>2. QED
    BY <1>4, <2>1 DEF SignIn, Choose, EnterPush, Raise, KeyOn, GoTo, PushRequests
<1>5. CASE UnlockKey
  BY <1>5 DEF UnlockKey, Raise, KeyOn, GoTo, ManageStages
<1>6. CASE PickProfile
  BY <1>6 DEF PickProfile, RememberPath, ActivePath, KeyOn, GoTo, Sources, ManageStages
<1>7. CASE LockPicker
  BY <1>7 DEF LockPicker, KeyOn, GoTo
<1>8. CASE ManageEsc
  BY <1>8 DEF ManageEsc, Confirming, KeyOn, GoTo, ManageStages
<1>9. CASE ManageAdd
  BY <1>9 DEF ManageAdd, Confirming, StartAddInnerProfile, KeyOn, GoTo
<1>10. CASE ManagePush
  <2>1. push' \in PushFlows
    BY <1>10, NewIsPush DEF ManagePush, EnterPush, PushModes, PushStages
  <2>2. QED
    BY <1>10, <2>1 DEF ManagePush, Confirming, EnterPush, Raise, KeyOn, GoTo, PushRequests
<1>11. CASE ManageAsk
  BY <1>11 DEF ManageAsk, Confirming, KeyOn, GoTo, ManageStages
<1>12. CASE ManageAnswer
  BY <1>12 DEF ManageAnswer, Raise, KeyOn, GoTo, ManageStages
<1>13. CASE WizardKey
  BY <1>13 DEF WizardKey, KeyOn, GoTo
<1>14. CASE AliasKey
  BY <1>14 DEF AliasKey, Raise, KeyOn, GoTo
<1>15. CASE PassphraseKey
  BY <1>15, NewIsPush DEF PassphraseKey, KeyOn, GoTo, Raise
<1>16. CASE DoneKey
  BY <1>16 DEF DoneKey, NewPush, KeyOn, GoTo, PushModes, PushStages
<1>17. CASE AccountKey
  <2>1. push' \in PushFlows
    BY <1>17, NewIsPush DEF AccountKey, ExitPush, PushStages
  <2>2. QED
    BY <1>17, <2>1 DEF AccountKey, KeyOn, GoTo, Raise, ExitPush, PushRequests
<1>18. CASE TotpKey
  BY <1>18 DEF TotpKey, Raise, KeyOn, GoTo, PushModes, PushStages, PushRequests
<1>19. CASE PushFormKey
  <2>1. push' \in PushFlows
    BY <1>19, NewIsPush DEF PushFormKey, ExitPush, PushStages
  <2>2. QED
    BY <1>19, <2>1 DEF PushFormKey, KeyOn, GoTo, Raise, ExitPush, PushRequests
<1>20. CASE PushFailedKey
  <2>1. push' \in PushFlows
    BY <1>20, NewIsPush DEF PushFailedKey, ExitPush, PushStages
  <2>2. QED
    BY <1>20, <2>1 DEF PushFailedKey, KeyOn, GoTo, Raise, ExitPush, Transfer, PushRequests
<1>21. CASE PushDoneKey
  BY <1>21 DEF PushDoneKey, NewPush, KeyOn, GoTo, PushModes, PushStages
<1>22. CASE ServeUnlock
  <2>1. ASSUME ActivePath # None, disk[ActivePath] \notin {{}, Torn}
        PROVE  disk[ActivePath] \subseteq Profiles
    <3>1. ActivePath \in Sources
      BY <2>1 DEF ActivePath, Sources
    <3>2. disk[ActivePath] \in Containers
      BY <3>1
    <3>3. QED
      BY <2>1, <3>2 DEF Containers
  <2>2. ram' \subseteq Profiles
    BY <1>22, <2>1 DEF ServeUnlock, UnlockDone
  <2>3. /\ cached' \in {cached, source}
        /\ mode' \in {mode, "AddInnerProfile"}
        /\ screen' \in {screen, "Wizard", "ContainerPicker"}
        /\ manage' \in {manage, "Locked", "Viewing"}
    BY <1>22 DEF ServeUnlock, UnlockDone, StartAddInnerProfile, GoTo
  <2>4. QED
    BY <1>22, <2>2, <2>3 DEF ServeUnlock, Serve, Lower, ManageStages
<1>23. CASE ServeWipe
  <2>1. disk' \in [Sources -> Containers]
    BY <1>23 DEF ServeWipe, FullWipe, Containers
  <2>2. exists' \in [Sources -> BOOLEAN] /\ wiped' \in BOOLEAN /\ token' \in BOOLEAN
    BY <1>23 DEF ServeWipe, FullWipe, WipeDone
  <2>3. QED
    BY <1>23, <2>1, <2>2 DEF ServeWipe, WipeDone, Serve, Lower, GoTo, ManageStages
<1>24. CASE ServeAdd
  BY <1>24, SessionAssumption DEF ServeAdd, Serve, Lower, AddInner, MakeProfile,
     WriteSet, InnerAdded, RememberPath, ActivePath, GoTo, Sources, ManageStages,
     Containers, Profiles
<1>25. CASE ServeDelete
  BY <1>25 DEF ServeDelete, Serve, Lower, DeleteInner, WriteSet, InnerDeleted, GoTo,
     ManageStages, Containers
<1>26. CASE ServeSave
  <2>1. /\ disk' \in [Sources -> Containers] /\ made' \in Profiles
        /\ saved' \in Sources \cup {None}
    BY <1>26, NewContainerTyped, FailedWriteTyped DEF ServeSave, Sources
  <2>2. push' \in PushFlows
    BY <1>26, NewIsPush DEF ServeSave, SaveDone, PushAfterSave, PushStages
  <2>3. requests' \subseteq requests \cup PushRequests
    BY <1>26 DEF ServeSave, SaveDone, PushAfterSave, Fail, Lower, PushRequests
  <2>4. exists' \in [Sources -> BOOLEAN]
    BY <1>26 DEF ServeSave, SaveDone
  <2>5. /\ active' \in {active, 0} /\ cached' \in {cached, None}
        /\ pass' \in {"Saved", "Failed"} /\ screen' \in {screen, "PushProfile", "Account"}
        /\ back' \in {back, None} /\ target' \in {target, None} /\ token' = token
    BY <1>26 DEF ServeSave, SaveDone, PushAfterSave, Fail, GoTo
  <2>6. QED
    BY <1>26, <2>1, <2>2, <2>3, <2>4, <2>5 DEF ServeSave, Serve
<1>27. CASE ServeLogin
  <2>1. push' \in PushFlows
    BY <1>27 DEF ServeLogin, Session, PushFails, PushStages
  <2>2. requests' \subseteq requests \cup PushRequests
    BY <1>27 DEF ServeLogin, Session, PushFails, Fail, Lower, PushRequests
  <2>3. token' \in BOOLEAN /\ target' \in {None, "Wizard"}
    BY <1>27 DEF ServeLogin, Session
  <2>4. \/ screen' \in {screen, "PushProfile", "LoginTotp"}
        \/ target # None /\ screen' = target
    BY <1>27 DEF ServeLogin, Session, PushFails, Fail, Lower, GoTo
  <2>5. QED
    BY <1>27, <2>1, <2>2, <2>3, <2>4 DEF ServeLogin, Serve
<1>28. CASE ServeTotp
  <2>1. push' \in PushFlows
    BY <1>28 DEF ServeTotp, Session, PushFails, PushStages
  <2>2. requests' \subseteq requests \cup PushRequests
    BY <1>28 DEF ServeTotp, Session, PushFails, Fail, Lower, PushRequests
  <2>3. token' \in BOOLEAN /\ target' \in {None, "Wizard"}
    BY <1>28 DEF ServeTotp, Session
  <2>4. \/ screen' \in {screen, "PushProfile", "LoginTotp"}
        \/ target # None /\ screen' = target
    BY <1>28 DEF ServeTotp, Session, PushFails, Fail, Lower, GoTo
  <2>5. QED
    BY <1>28, <2>1, <2>2, <2>3, <2>4 DEF ServeTotp, Serve
<1>29. CASE ServeList
  <2>1. (server # {}) \in BOOLEAN
    OBVIOUS
  <2>2. push' \in PushFlows
    BY <1>29, <2>1 DEF ServeList, PushFails, PushStages
  <2>3. QED
    BY <1>29, <2>2 DEF ServeList, Serve, PushFails, Fail, Lower
<1>30. CASE ServeRewrite
  <2>1. /\ disk' \in [Sources -> Containers] /\ made' \in Profiles
        /\ saved' \in Sources \cup {None}
    BY <1>30, NewContainerTyped, FailedWriteTyped DEF ServeRewrite, Sources
  <2>2. push' \in PushFlows
    BY <1>30 DEF ServeRewrite, PushFails, PushStages
  <2>3. requests' \subseteq requests \cup PushRequests
    BY <1>30 DEF ServeRewrite, PushFails, Fail, Lower, PushRequests
  <2>4. QED
    BY <1>30, <2>1, <2>2, <2>3 DEF ServeRewrite, Serve
<1>31. CASE ServeSend
  <2>1. disk' \in [Sources -> Containers] /\ exists' \in [Sources -> BOOLEAN]
    BY <1>31, FailedWriteTyped, ZenonT(30) DEF ServeSend, Mirror, Sources
  <2>2. Blob \in Containers
    BY DEF Blob, Containers
  <2>3. server' \in Containers
    BY <1>31, <2>2 DEF ServeSend
  <2>4. push' \in PushFlows
    BY <1>31 DEF ServeSend, PushFails, PushStages
  <2>5. requests' \subseteq requests /\ screen' = screen
    BY <1>31 DEF ServeSend, PushFails, Fail, Lower
  <2>6. QED
    BY <1>31, <2>1, <2>3, <2>4, <2>5 DEF ServeSend, Serve
<1>32. CASE ServeDownload
  <2>1. disk' \in [Sources -> Containers] /\ exists' \in [Sources -> BOOLEAN]
    BY ZenonT(40), <1>32, FailedWriteTyped DEF ServeDownload, SigninDone, Sources
  <2>2. push' \in PushFlows
    BY <1>32, NewIsPush DEF ServeDownload, SigninDone, PushFails, PushStages
  <2>3. /\ source' \in {source, "Remote"} /\ active' \in {active, 0}
        /\ cached' \in {cached, None} /\ manage' \in {manage, "Locked"}
        /\ back' \in {back, None} /\ screen' \in {screen, "ProfileUnlock"}
        /\ requests' \subseteq requests
    BY <1>32 DEF ServeDownload, SigninDone, PushFails, Fail, Lower, GoTo
  <2>4. QED
    BY <1>32, <2>1, <2>2, <2>3 DEF ServeDownload, Serve, Sources, ManageStages
<1>33. CASE Restart
  BY <1>33 DEF Restart, NewPush, Sources, ManageStages, PushModes, PushStages
<1>34. CASE UNCHANGED vars
  BY <1>34 DEF vars
<1>35. QED
  BY <1>1, <1>2, <1>3, <1>4, <1>5, <1>6, <1>7, <1>8, <1>9, <1>10, <1>11, <1>12, <1>13,
     <1>14, <1>15, <1>16, <1>17, <1>18, <1>19, <1>20, <1>21, <1>22, <1>23, <1>24, <1>25,
     <1>26, <1>27, <1>28, <1>29, <1>30, <1>31, <1>32, <1>33, <1>34 DEF Next, Key, Loop

\* A key is read only when nothing is requested.  The default build never serves
\* the push flow, and its screens take no key while they wait.
LEMMA Quiet ==
  ASSUME TypeOK, Waiting, Key
  PROVE  requests = {}
<1> SUFFICES ASSUME NEW r \in requests
             PROVE  FALSE
  OBVIOUS
<1>1. requests = {r} /\ screen = OwnerOf(r)
  BY DEF Waiting
<1>2. Served = {}
  BY DEF Key, OpenProfile, Configure, ConfigureRemote, SignIn, UnlockKey, PickProfile,
     LockPicker, ManageEsc, ManageAdd, ManagePush, ManageAsk, ManageAnswer, WizardKey,
     AliasKey, PassphraseKey, DoneKey, AccountKey, TotpKey, PushFormKey, PushFailedKey,
     PushDoneKey, Choose, KeyOn
<1>3. r \in PushRequests
  BY <1>2 DEF Served
<1>4. screen \in {"Account", "LoginTotp", "PushProfile"}
  BY <1>1, <1>3 DEF OwnerOf, PushRequests
<1>5. AccountKey \/ TotpKey \/ PushFormKey \/ PushFailedKey \/ PushDoneKey
  BY <1>4 DEF Key, OpenProfile, Configure, ConfigureRemote, SignIn, UnlockKey, PickProfile,
     LockPicker, ManageEsc, ManageAdd, ManagePush, ManageAsk, ManageAnswer, WizardKey,
     AliasKey, PassphraseKey, DoneKey, Choose, KeyOn
<1>6. CASE AccountKey
  BY <1>1, <1>3, <1>6 DEF AccountKey, KeyOn, Waiting, OwnerOf, PushRequests
<1>7. CASE TotpKey
  BY <1>1, <1>3, <1>7 DEF TotpKey, KeyOn, Waiting, OwnerOf, PushRequests
<1>8. CASE PushFormKey \/ PushFailedKey \/ PushDoneKey
  BY <1>1, <1>3, <1>8 DEF PushFormKey, PushFailedKey, PushDoneKey, KeyOn, Waiting, OwnerOf,
     PushRequests
<1>9. QED
  BY <1>5, <1>6, <1>7, <1>8

\* The request being served is the only one, on its screen.
LEMMA Alone ==
  ASSUME Waiting, NEW r, Serve(r)
  PROVE  requests = {r} /\ screen = OwnerOf(r)
  BY DEF Waiting, Serve, Served

\* enter_push_flow either waits for the list or shows the form.
LEMMA Entered ==
  ASSUME NEW m, NEW b, EnterPush(m, b), requests = {}
  PROVE  \/ /\ push'.stage = "PushFetching" /\ push'.session
            /\ requests' = {"List"} /\ screen' = "PushProfile"
         \/ /\ push'.stage = "AccountForm"
            /\ requests' = {} /\ screen' = "Account"
<1>1. CASE token
  BY <1>1 DEF EnterPush, NewPush, Raise, GoTo
<1>2. CASE ~token
  BY <1>2 DEF EnterPush, NewPush, GoTo
<1>3. QED
  BY <1>1, <1>2

\* Whoever starts to wait raises the request, whoever lowers it ends the waiting.
LEMMA WaitingStep ==
  ASSUME TypeOK, Waiting, [Next]_vars
  PROVE  Waiting'
<1> USE DEF Waiting, fileVars, lockVars, walkVars, pushVars
<1> push \in PushFlows
  BY DEF TypeOK, PushFlows
<1> USE DEF PushFlows
<1> /\ back \in {None, "Welcome", "ProfileManage"}
    /\ target \in {None, "Wizard"} /\ token \in BOOLEAN
  BY DEF TypeOK
<1>1. CASE \E s \in Sources : OpenProfile(s)
  <2>1. requests = {}
    BY <1>1, Quiet DEF Key
  <2>2. QED
    BY <1>1, <2>1 DEF OpenProfile, Choose, OpenItem, welcome_items_active, KeyOn, GoTo,
     OwnerOf, NewPush
<1>2. CASE Configure
  <2>1. requests = {}
    BY <1>2, Quiet DEF Key
  <2>2. QED
    BY <1>2, <2>1 DEF Configure, Choose, welcome_items_active, KeyOn, GoTo, OwnerOf,
     NewPush
<1>3. CASE ConfigureRemote
  <2>1. requests = {}
    BY <1>3, Quiet DEF Key
  <2>2. QED
    BY <1>3, <2>1 DEF ConfigureRemote, Choose, welcome_items_active, NewPush, KeyOn,
     GoTo, OwnerOf
<1>4. CASE SignIn
  <2>1. requests = {}
    BY <1>4, Quiet DEF Key
  <2>2. EnterPush("SignIn", "Welcome")
    BY <1>4 DEF SignIn
  <2>3. UNCHANGED <<manage, inner, pass>>
    BY <1>4 DEF SignIn
  <2>4. OwnerOf("List") = "PushProfile"
    BY DEF OwnerOf
  <2>5. QED
    BY <2>1, <2>2, <2>3, <2>4, Entered
<1>5. CASE UnlockKey
  <2>1. requests = {}
    BY <1>5, Quiet DEF Key
  <2>2. QED
    BY <1>5, <2>1 DEF UnlockKey, Raise, KeyOn, GoTo, OwnerOf, NewPush
<1>6. CASE PickProfile
  <2>1. requests = {}
    BY <1>6, Quiet DEF Key
  <2>2. QED
    BY <1>6, <2>1 DEF PickProfile, RememberPath, ActivePath, KeyOn, GoTo, OwnerOf, NewPush
<1>7. CASE LockPicker
  <2>1. requests = {}
    BY <1>7, Quiet DEF Key
  <2>2. QED
    BY <1>7, <2>1 DEF LockPicker, KeyOn, GoTo, OwnerOf, NewPush
<1>8. CASE ManageEsc
  <2>1. requests = {}
    BY <1>8, Quiet DEF Key
  <2>2. QED
    BY <1>8, <2>1 DEF ManageEsc, Confirming, KeyOn, GoTo, OwnerOf, NewPush
<1>9. CASE ManageAdd
  <2>1. requests = {}
    BY <1>9, Quiet DEF Key
  <2>2. QED
    BY <1>9, <2>1 DEF ManageAdd, Confirming, StartAddInnerProfile, KeyOn, GoTo, OwnerOf,
     NewPush
<1>10. CASE ManagePush
  <2>1. requests = {}
    BY <1>10, Quiet DEF Key
  <2>2. EnterPush("Push", "ProfileManage")
    BY <1>10 DEF ManagePush
  <2>3. UNCHANGED <<manage, inner, pass>>
    BY <1>10 DEF ManagePush
  <2>4. OwnerOf("List") = "PushProfile"
    BY DEF OwnerOf
  <2>5. QED
    BY <2>1, <2>2, <2>3, <2>4, Entered
<1>11. CASE ManageAsk
  <2>1. requests = {}
    BY <1>11, Quiet DEF Key
  <2>2. QED
    BY <1>11, <2>1 DEF ManageAsk, Confirming, KeyOn, GoTo, OwnerOf, NewPush
<1>12. CASE ManageAnswer
  <2>1. requests = {}
    BY <1>12, Quiet DEF Key
  <2>2. QED
    BY <1>12, <2>1 DEF ManageAnswer, Raise, KeyOn, GoTo, OwnerOf, NewPush
<1>13. CASE WizardKey
  <2>1. requests = {}
    BY <1>13, Quiet DEF Key
  <2>2. QED
    BY <1>13, <2>1 DEF WizardKey, KeyOn, GoTo, OwnerOf, NewPush
<1>14. CASE AliasKey
  <2>1. requests = {}
    BY <1>14, Quiet DEF Key
  <2>2. QED
    BY <1>14, <2>1 DEF AliasKey, Raise, KeyOn, GoTo, OwnerOf, NewPush
<1>15. CASE PassphraseKey
  <2>1. requests = {}
    BY <1>15, Quiet DEF Key
  <2>2. QED
    BY <1>15, <2>1 DEF PassphraseKey, NewPush, Raise, KeyOn, GoTo, OwnerOf
<1>16. CASE DoneKey
  <2>1. requests = {}
    BY <1>16, Quiet DEF Key
  <2>2. QED
    BY <1>16, <2>1 DEF DoneKey, NewPush, KeyOn, GoTo, OwnerOf
<1>17. CASE AccountKey
  <2>1. requests = {}
    BY <1>17, Quiet DEF Key
  <2>2. QED
    BY <1>17, <2>1 DEF AccountKey, ExitPush, NewPush, Raise, KeyOn, GoTo, OwnerOf
<1>18. CASE TotpKey
  <2>1. requests = {}
    BY <1>18, Quiet DEF Key
  <2>2. QED
    BY <1>18, <2>1 DEF TotpKey, Raise, KeyOn, GoTo, OwnerOf, NewPush
<1>19. CASE PushFormKey
  <2>1. requests = {}
    BY <1>19, Quiet DEF Key
  <2>2. QED
    BY <1>19, <2>1 DEF PushFormKey, ExitPush, NewPush, Raise, KeyOn, GoTo, OwnerOf
<1>20. CASE PushFailedKey
  <2>1. requests = {}
    BY <1>20, Quiet DEF Key
  <2>2. QED
    BY <1>20, <2>1 DEF PushFailedKey, ExitPush, NewPush, Transfer, Raise, KeyOn, GoTo,
     OwnerOf
<1>21. CASE PushDoneKey
  <2>1. requests = {}
    BY <1>21, Quiet DEF Key
  <2>2. QED
    BY <1>21, <2>1 DEF PushDoneKey, NewPush, KeyOn, GoTo, OwnerOf
<1>22. CASE ServeUnlock
  <2>1. requests = {"Unlock"} /\ screen = OwnerOf("Unlock")
    BY <1>22, Alone DEF ServeUnlock
  <2>2. QED
    BY <1>22, <2>1 DEF ServeUnlock, Serve, Lower, UnlockDone, StartAddInnerProfile,
     ActivePath, GoTo, OwnerOf, NewPush
<1>23. CASE ServeWipe
  <2>1. requests = {"Wipe"} /\ screen = OwnerOf("Wipe")
    BY <1>23, Alone DEF ServeWipe
  <2>2. QED
    BY <1>23, <2>1 DEF ServeWipe, Serve, Lower, FullWipe, WipeDone, GoTo, OwnerOf, NewPush
<1>24. CASE ServeAdd
  <2>1. requests = {"Add"} /\ screen = OwnerOf("Add")
    BY <1>24, Alone DEF ServeAdd
  <2>2. QED
    BY <1>24, <2>1 DEF ServeAdd, Serve, Lower, AddInner, MakeProfile, WriteSet,
     InnerAdded, RememberPath, ActivePath, GoTo, OwnerOf, NewPush
<1>25. CASE ServeDelete
  <2>1. requests = {"Delete"} /\ screen = OwnerOf("Delete")
    BY <1>25, Alone DEF ServeDelete
  <2>2. QED
    BY <1>25, <2>1 DEF ServeDelete, Serve, Lower, DeleteInner, WriteSet, InnerDeleted,
     GoTo, OwnerOf, NewPush
<1>26. CASE ServeSave
  <2>1. requests = {"Save"} /\ screen = OwnerOf("Save")
    BY <1>26, Alone DEF ServeSave
  <2>2. QED
    BY <1>26, <2>1, ZenonT(60) DEF ServeSave, Serve, WriteNewContainer, MakeProfile, SaveDone,
     PushAfterSave, NewPush, FailedWrite, Fail, Lower, GoTo, OwnerOf
<1>27. CASE ServeLogin
  <2>1. requests = {"Login"} /\ screen = OwnerOf("Login")
    BY <1>27, Alone DEF ServeLogin
  <2>2. QED
    BY ZenonT(40), <1>27, <2>1 DEF ServeLogin, Serve, Session, PushFails, Fail, Lower, GoTo,
     OwnerOf, NewPush
<1>28. CASE ServeTotp
  <2>1. requests = {"Totp"} /\ screen = OwnerOf("Totp")
    BY <1>28, Alone DEF ServeTotp
  <2>2. QED
    BY ZenonT(40), <1>28, <2>1 DEF ServeTotp, Serve, Session, PushFails, Fail, Lower, GoTo, OwnerOf,
     NewPush
<1>29. CASE ServeList
  <2>1. requests = {"List"} /\ screen = OwnerOf("List")
    BY <1>29, Alone DEF ServeList
  <2>2. QED
    BY <1>29, <2>1 DEF ServeList, Serve, PushFails, Fail, Lower, OwnerOf, NewPush
<1>30. CASE ServeRewrite
  <2>1. requests = {"Rewrite"} /\ screen = OwnerOf("Rewrite")
    BY <1>30, Alone DEF ServeRewrite
  <2>2. QED
    BY <1>30, <2>1 DEF ServeRewrite, Serve, WriteNewContainer, MakeProfile, PushFails,
     FailedWrite, Fail, Lower, OwnerOf, NewPush
<1>31. CASE ServeSend
  <2>1. requests = {"Send"} /\ screen = OwnerOf("Send")
    BY <1>31, Alone DEF ServeSend
  <2>2. QED
    BY <1>31, <2>1 DEF ServeSend, Serve, Blob, Mirror, PushFails, FailedWrite, Fail,
     Lower, OwnerOf, NewPush
<1>32. CASE ServeDownload
  <2>1. requests = {"Download"} /\ screen = OwnerOf("Download")
    BY <1>32, Alone DEF ServeDownload
  <2>2. QED
    BY <1>32, <2>1 DEF ServeDownload, Serve, SigninDone, PushFails, NewPush,
     FailedWrite, Fail, Lower, GoTo, OwnerOf
<1>33. CASE Restart
  BY <1>33 DEF Restart, NewPush, OwnerOf
<1>34. CASE UNCHANGED vars
  BY <1>34 DEF vars
<1>35. QED
  BY <1>1, <1>2, <1>3, <1>4, <1>5, <1>6, <1>7, <1>8, <1>9, <1>10, <1>11, <1>12, <1>13,
     <1>14, <1>15, <1>16, <1>17, <1>18, <1>19, <1>20, <1>21, <1>22, <1>23, <1>24, <1>25,
     <1>26, <1>27, <1>28, <1>29, <1>30, <1>31, <1>32, <1>33, <1>34 DEF Next, Key, Loop

\* Whoever gives up the set in RAM gives up the profile shown, and leaves.
LEMMA UnlockedStep ==
  ASSUME TypeOK, Waiting, Unlocked, [Next]_vars
  PROVE  Unlocked'
<1> USE DEF Unlocked, None, fileVars, lockVars, walkVars, pushVars
<1> /\ active \in Nat /\ made \in Nat /\ 0 \notin ram
    /\ target \in {None, "Wizard"} /\ back \in {None, "Welcome", "ProfileManage"}
  BY SessionAssumption DEF TypeOK, Profiles
<1>1. CASE \E s \in Sources : OpenProfile(s)
  BY <1>1 DEF OpenProfile, Choose, OpenItem, welcome_items_active, KeyOn, GoTo
<1>2. CASE Configure
  BY <1>2 DEF Configure, Choose, welcome_items_active, KeyOn, GoTo
<1>3. CASE ConfigureRemote
  BY <1>3 DEF ConfigureRemote, Choose, welcome_items_active, NewPush, KeyOn, GoTo
<1>4. CASE SignIn
  BY <1>4 DEF SignIn, Choose, welcome_items_active, EnterPush, NewPush, Raise, KeyOn, GoTo
<1>5. CASE UnlockKey
  BY <1>5 DEF UnlockKey, Raise, KeyOn, GoTo
<1>6. CASE PickProfile
  BY <1>6 DEF PickProfile, RememberPath, ActivePath, KeyOn, GoTo
<1>7. CASE LockPicker
  BY <1>7 DEF LockPicker, KeyOn, GoTo
<1>8. CASE ManageEsc
  BY <1>8 DEF ManageEsc, Confirming, KeyOn, GoTo
<1>9. CASE ManageAdd
  BY <1>9 DEF ManageAdd, Confirming, StartAddInnerProfile, KeyOn, GoTo
<1>10. CASE ManagePush
  BY <1>10 DEF ManagePush, Confirming, EnterPush, NewPush, Raise, KeyOn, GoTo
<1>11. CASE ManageAsk
  BY <1>11 DEF ManageAsk, Confirming, KeyOn, GoTo
<1>12. CASE ManageAnswer
  BY <1>12 DEF ManageAnswer, Raise, KeyOn, GoTo
<1>13. CASE WizardKey
  BY <1>13 DEF WizardKey, KeyOn, GoTo
<1>14. CASE AliasKey
  BY <1>14 DEF AliasKey, Raise, KeyOn, GoTo
<1>15. CASE PassphraseKey
  BY <1>15 DEF PassphraseKey, NewPush, Raise, KeyOn, GoTo
<1>16. CASE DoneKey
  BY <1>16 DEF DoneKey, NewPush, KeyOn, GoTo
<1>17. CASE AccountKey
  BY <1>17 DEF AccountKey, ExitPush, NewPush, Raise, KeyOn, GoTo
<1>18. CASE TotpKey
  BY <1>18 DEF TotpKey, Raise, KeyOn, GoTo
<1>19. CASE PushFormKey
  BY <1>19 DEF PushFormKey, ExitPush, NewPush, Raise, KeyOn, GoTo
<1>20. CASE PushFailedKey
  BY <1>20 DEF PushFailedKey, ExitPush, NewPush, Transfer, Raise, KeyOn, GoTo
<1>21. CASE PushDoneKey
  BY <1>21 DEF PushDoneKey, NewPush, KeyOn, GoTo
<1>22. CASE ServeUnlock
  <2>1. requests = {"Unlock"} /\ screen = OwnerOf("Unlock")
    BY <1>22, Alone DEF ServeUnlock
  <2>2. QED
    BY <1>22, <2>1 DEF ServeUnlock, Serve, Lower, UnlockDone, StartAddInnerProfile,
     ActivePath, GoTo, OwnerOf, PushRequests, Served
<1>23. CASE ServeWipe
  <2>1. requests = {"Wipe"} /\ screen = OwnerOf("Wipe")
    BY <1>23, Alone DEF ServeWipe
  <2>2. QED
    BY <1>23, <2>1 DEF ServeWipe, Serve, Lower, FullWipe, WipeDone, GoTo, OwnerOf,
     PushRequests, Served
<1>24. CASE ServeAdd
  <2>1. requests = {"Add"} /\ screen = OwnerOf("Add")
    BY <1>24, Alone DEF ServeAdd
  <2>2. QED
    BY <1>24, <2>1 DEF ServeAdd, Serve, Lower, AddInner, MakeProfile, WriteSet,
     InnerAdded, RememberPath, ActivePath, GoTo, OwnerOf, PushRequests, Served
<1>25. CASE ServeDelete
  <2>1. requests = {"Delete"} /\ screen = OwnerOf("Delete")
    BY <1>25, Alone DEF ServeDelete
  <2>2. QED
    BY <1>25, <2>1 DEF ServeDelete, Serve, Lower, DeleteInner, WriteSet, InnerDeleted,
     GoTo, OwnerOf, PushRequests, Served
<1>26. CASE ServeSave
  <2>1. requests = {"Save"} /\ screen = OwnerOf("Save")
    BY <1>26, Alone DEF ServeSave
  <2>2. QED
    BY <1>26, <2>1 DEF ServeSave, Serve, WriteNewContainer, MakeProfile, SaveDone,
     PushAfterSave, NewPush, FailedWrite, Fail, Lower, GoTo, OwnerOf, PushRequests, Served
<1>27. CASE ServeLogin
  <2>1. requests = {"Login"} /\ screen = OwnerOf("Login")
    BY <1>27, Alone DEF ServeLogin
  <2>2. QED
    BY <1>27, <2>1 DEF ServeLogin, Serve, Session, PushFails, Fail, Lower, GoTo,
     OwnerOf, PushRequests, Served
<1>28. CASE ServeTotp
  <2>1. requests = {"Totp"} /\ screen = OwnerOf("Totp")
    BY <1>28, Alone DEF ServeTotp
  <2>2. QED
    BY <1>28, <2>1 DEF ServeTotp, Serve, Session, PushFails, Fail, Lower, GoTo, OwnerOf,
     PushRequests, Served
<1>29. CASE ServeList
  <2>1. requests = {"List"} /\ screen = OwnerOf("List")
    BY <1>29, Alone DEF ServeList
  <2>2. QED
    BY <1>29, <2>1 DEF ServeList, Serve, PushFails, Fail, Lower, OwnerOf, PushRequests,
     Served
<1>30. CASE ServeRewrite
  <2>1. requests = {"Rewrite"} /\ screen = OwnerOf("Rewrite")
    BY <1>30, Alone DEF ServeRewrite
  <2>2. QED
    BY <1>30, <2>1 DEF ServeRewrite, Serve, WriteNewContainer, MakeProfile, PushFails,
     FailedWrite, Fail, Lower, OwnerOf, PushRequests, Served
<1>31. CASE ServeSend
  <2>1. requests = {"Send"} /\ screen = OwnerOf("Send")
    BY <1>31, Alone DEF ServeSend
  <2>2. QED
    BY <1>31, <2>1 DEF ServeSend, Serve, Blob, Mirror, PushFails, FailedWrite, Fail,
     Lower, OwnerOf, PushRequests, Served
<1>32. CASE ServeDownload
  <2>1. requests = {"Download"} /\ screen = OwnerOf("Download")
    BY <1>32, Alone DEF ServeDownload
  <2>2. QED
    BY <1>32, <2>1 DEF ServeDownload, Serve, SigninDone, PushFails, NewPush,
     FailedWrite, Fail, Lower, GoTo, OwnerOf, PushRequests, Served
<1>33. CASE Restart
  BY <1>33 DEF Restart, NewPush
<1>34. CASE UNCHANGED vars
  BY <1>34 DEF vars
<1>35. QED
  BY <1>1, <1>2, <1>3, <1>4, <1>5, <1>6, <1>7, <1>8, <1>9, <1>10, <1>11, <1>12, <1>13,
     <1>14, <1>15, <1>16, <1>17, <1>18, <1>19, <1>20, <1>21, <1>22, <1>23, <1>24, <1>25,
     <1>26, <1>27, <1>28, <1>29, <1>30, <1>31, <1>32, <1>33, <1>34 DEF Next, Key, Loop

\* Nothing in the default build touches the remote container.
LEMMA OneContainerStep ==
  ASSUME TypeOK, Waiting, OneContainer, [Next]_vars
  PROVE  OneContainer'
<1> USE DEF OneContainer, fileVars, lockVars, walkVars, pushVars
<1> disk \in [Sources -> Containers] /\ exists \in [Sources -> BOOLEAN]
  BY DEF TypeOK
<1> USE DEF Sources
<1>1. CASE \E s \in Sources : OpenProfile(s)
  BY <1>1 DEF OpenProfile, Choose, OpenItem, welcome_items_active, KeyOn, GoTo
<1>2. CASE Configure
  BY <1>2 DEF Configure, Choose, welcome_items_active, KeyOn, GoTo
<1>3. CASE ConfigureRemote
  BY <1>3 DEF ConfigureRemote, Choose, welcome_items_active, NewPush, KeyOn, GoTo
<1>4. CASE SignIn
  BY <1>4 DEF SignIn, Choose, welcome_items_active, EnterPush, NewPush, Raise, KeyOn, GoTo
<1>5. CASE UnlockKey
  BY <1>5 DEF UnlockKey, Raise, KeyOn, GoTo
<1>6. CASE PickProfile
  BY <1>6 DEF PickProfile, RememberPath, ActivePath, KeyOn, GoTo
<1>7. CASE LockPicker
  BY <1>7 DEF LockPicker, KeyOn, GoTo
<1>8. CASE ManageEsc
  BY <1>8 DEF ManageEsc, Confirming, KeyOn, GoTo
<1>9. CASE ManageAdd
  BY <1>9 DEF ManageAdd, Confirming, StartAddInnerProfile, KeyOn, GoTo
<1>10. CASE ManagePush
  BY <1>10 DEF ManagePush, Confirming, EnterPush, NewPush, Raise, KeyOn, GoTo
<1>11. CASE ManageAsk
  BY <1>11 DEF ManageAsk, Confirming, KeyOn, GoTo
<1>12. CASE ManageAnswer
  BY <1>12 DEF ManageAnswer, Raise, KeyOn, GoTo
<1>13. CASE WizardKey
  BY <1>13 DEF WizardKey, KeyOn, GoTo
<1>14. CASE AliasKey
  BY <1>14 DEF AliasKey, Raise, KeyOn, GoTo
<1>15. CASE PassphraseKey
  BY <1>15 DEF PassphraseKey, NewPush, Raise, KeyOn, GoTo
<1>16. CASE DoneKey
  BY <1>16 DEF DoneKey, NewPush, KeyOn, GoTo
<1>17. CASE AccountKey
  BY <1>17 DEF AccountKey, ExitPush, NewPush, Raise, KeyOn, GoTo
<1>18. CASE TotpKey
  BY <1>18 DEF TotpKey, Raise, KeyOn, GoTo
<1>19. CASE PushFormKey
  BY <1>19 DEF PushFormKey, ExitPush, NewPush, Raise, KeyOn, GoTo
<1>20. CASE PushFailedKey
  BY <1>20 DEF PushFailedKey, ExitPush, NewPush, Transfer, Raise, KeyOn, GoTo
<1>21. CASE PushDoneKey
  BY <1>21 DEF PushDoneKey, NewPush, KeyOn, GoTo
<1>22. CASE ServeUnlock
  <2>1. requests = {"Unlock"} /\ screen = OwnerOf("Unlock")
    BY <1>22, Alone DEF ServeUnlock
  <2>2. QED
    BY <1>22, <2>1 DEF ServeUnlock, Serve, Lower, UnlockDone, StartAddInnerProfile,
     ActivePath, GoTo, OwnerOf, PushRequests, Served
<1>23. CASE ServeWipe
  <2>1. requests = {"Wipe"} /\ screen = OwnerOf("Wipe")
    BY <1>23, Alone DEF ServeWipe
  <2>2. QED
    BY <1>23, <2>1 DEF ServeWipe, Serve, Lower, FullWipe, WipeDone, GoTo, OwnerOf,
     PushRequests, Served
<1>24. CASE ServeAdd
  <2>1. requests = {"Add"} /\ screen = OwnerOf("Add")
    BY <1>24, Alone DEF ServeAdd
  <2>2. QED
    BY <1>24, <2>1 DEF ServeAdd, Serve, Lower, AddInner, MakeProfile, WriteSet,
     InnerAdded, RememberPath, ActivePath, GoTo, OwnerOf, PushRequests, Served
<1>25. CASE ServeDelete
  <2>1. requests = {"Delete"} /\ screen = OwnerOf("Delete")
    BY <1>25, Alone DEF ServeDelete
  <2>2. QED
    BY <1>25, <2>1 DEF ServeDelete, Serve, Lower, DeleteInner, WriteSet, InnerDeleted,
     GoTo, OwnerOf, PushRequests, Served
<1>26. CASE ServeSave
  <2>1. requests = {"Save"} /\ screen = OwnerOf("Save")
    BY <1>26, Alone DEF ServeSave
  <2>2. QED
    BY <1>26, <2>1 DEF ServeSave, Serve, WriteNewContainer, MakeProfile, SaveDone,
     PushAfterSave, NewPush, FailedWrite, Fail, Lower, GoTo, OwnerOf, PushRequests, Served
<1>27. CASE ServeLogin
  <2>1. requests = {"Login"} /\ screen = OwnerOf("Login")
    BY <1>27, Alone DEF ServeLogin
  <2>2. QED
    BY <1>27, <2>1 DEF ServeLogin, Serve, Session, PushFails, Fail, Lower, GoTo,
     OwnerOf, PushRequests, Served
<1>28. CASE ServeTotp
  <2>1. requests = {"Totp"} /\ screen = OwnerOf("Totp")
    BY <1>28, Alone DEF ServeTotp
  <2>2. QED
    BY <1>28, <2>1 DEF ServeTotp, Serve, Session, PushFails, Fail, Lower, GoTo, OwnerOf,
     PushRequests, Served
<1>29. CASE ServeList
  <2>1. requests = {"List"} /\ screen = OwnerOf("List")
    BY <1>29, Alone DEF ServeList
  <2>2. QED
    BY <1>29, <2>1 DEF ServeList, Serve, PushFails, Fail, Lower, OwnerOf, PushRequests,
     Served
<1>30. CASE ServeRewrite
  <2>1. requests = {"Rewrite"} /\ screen = OwnerOf("Rewrite")
    BY <1>30, Alone DEF ServeRewrite
  <2>2. QED
    BY <1>30, <2>1 DEF ServeRewrite, Serve, WriteNewContainer, MakeProfile, PushFails,
     FailedWrite, Fail, Lower, OwnerOf, PushRequests, Served
<1>31. CASE ServeSend
  <2>1. requests = {"Send"} /\ screen = OwnerOf("Send")
    BY <1>31, Alone DEF ServeSend
  <2>2. QED
    BY <1>31, <2>1 DEF ServeSend, Serve, Blob, Mirror, PushFails, FailedWrite, Fail,
     Lower, OwnerOf, PushRequests, Served
<1>32. CASE ServeDownload
  <2>1. requests = {"Download"} /\ screen = OwnerOf("Download")
    BY <1>32, Alone DEF ServeDownload
  <2>2. QED
    BY <1>32, <2>1 DEF ServeDownload, Serve, SigninDone, PushFails, NewPush,
     FailedWrite, Fail, Lower, GoTo, OwnerOf, PushRequests, Served
<1>33. CASE Restart
  BY <1>33 DEF Restart, NewPush
<1>34. CASE UNCHANGED vars
  BY <1>34 DEF vars
<1>35. QED
  BY <1>1, <1>2, <1>3, <1>4, <1>5, <1>6, <1>7, <1>8, <1>9, <1>10, <1>11, <1>12, <1>13,
     <1>14, <1>15, <1>16, <1>17, <1>18, <1>19, <1>20, <1>21, <1>22, <1>23, <1>24, <1>25,
     <1>26, <1>27, <1>28, <1>29, <1>30, <1>31, <1>32, <1>33, <1>34 DEF Next, Key, Loop

\* In the default build every write of the container goes with what RAM remembers.
LEMMA RememberedStep ==
  ASSUME TypeOK, Waiting, Unlocked, OneContainer, Remembered, [Next]_vars
  PROVE  Remembered'
<1> USE DEF Remembered, OneContainer, fileVars, lockVars, walkVars, pushVars
<1> disk \in [Sources -> Containers] /\ exists \in [Sources -> BOOLEAN]
    /\ back \in {None, "Welcome", "ProfileManage"}
  BY DEF TypeOK
<1> USE DEF Sources
<1>1. CASE \E s \in Sources : OpenProfile(s)
  BY <1>1 DEF OpenProfile, Choose, OpenItem, welcome_items_active, KeyOn, GoTo
<1>2. CASE Configure
  BY <1>2 DEF Configure, Choose, welcome_items_active, KeyOn, GoTo
<1>3. CASE ConfigureRemote
  BY <1>3 DEF ConfigureRemote, Choose, welcome_items_active, NewPush, KeyOn, GoTo
<1>4. CASE SignIn
  BY <1>4 DEF SignIn, Choose, welcome_items_active, EnterPush, NewPush, Raise, KeyOn, GoTo
<1>5. CASE UnlockKey
  BY <1>5 DEF UnlockKey, Raise, KeyOn, GoTo
<1>6. CASE PickProfile
  BY <1>6 DEF PickProfile, RememberPath, ActivePath, KeyOn, GoTo
<1>7. CASE LockPicker
  BY <1>7 DEF LockPicker, KeyOn, GoTo
<1>8. CASE ManageEsc
  BY <1>8 DEF ManageEsc, Confirming, KeyOn, GoTo
<1>9. CASE ManageAdd
  BY <1>9 DEF ManageAdd, Confirming, StartAddInnerProfile, KeyOn, GoTo
<1>10. CASE ManagePush
  BY <1>10 DEF ManagePush, Confirming, EnterPush, NewPush, Raise, KeyOn, GoTo
<1>11. CASE ManageAsk
  BY <1>11 DEF ManageAsk, Confirming, KeyOn, GoTo
<1>12. CASE ManageAnswer
  BY <1>12 DEF ManageAnswer, Raise, KeyOn, GoTo
<1>13. CASE WizardKey
  BY <1>13 DEF WizardKey, KeyOn, GoTo
<1>14. CASE AliasKey
  BY <1>14 DEF AliasKey, Raise, KeyOn, GoTo
<1>15. CASE PassphraseKey
  BY <1>15 DEF PassphraseKey, NewPush, Raise, KeyOn, GoTo
<1>16. CASE DoneKey
  BY <1>16 DEF DoneKey, NewPush, KeyOn, GoTo
<1>17. CASE AccountKey
  BY <1>17 DEF AccountKey, ExitPush, NewPush, Raise, KeyOn, GoTo
<1>18. CASE TotpKey
  BY <1>18 DEF TotpKey, Raise, KeyOn, GoTo
<1>19. CASE PushFormKey
  BY <1>19 DEF PushFormKey, ExitPush, NewPush, Raise, KeyOn, GoTo
<1>20. CASE PushFailedKey
  BY <1>20 DEF PushFailedKey, ExitPush, NewPush, Transfer, Raise, KeyOn, GoTo
<1>21. CASE PushDoneKey
  BY <1>21 DEF PushDoneKey, NewPush, KeyOn, GoTo
<1>22. CASE ServeUnlock
  <2>1. requests = {"Unlock"} /\ screen = OwnerOf("Unlock")
    BY <1>22, Alone DEF ServeUnlock
  <2>2. QED
    BY <1>22, <2>1 DEF ServeUnlock, Serve, Lower, UnlockDone, StartAddInnerProfile,
     ActivePath, GoTo, OwnerOf, PushRequests, Served
<1>23. CASE ServeWipe
  <2>1. requests = {"Wipe"} /\ screen = OwnerOf("Wipe")
    BY <1>23, Alone DEF ServeWipe
  <2>2. QED
    BY <1>23, <2>1 DEF ServeWipe, Serve, Lower, FullWipe, WipeDone, GoTo, OwnerOf,
     PushRequests, Served
<1>24. CASE ServeAdd
  <2>1. requests = {"Add"} /\ screen = OwnerOf("Add")
    BY <1>24, Alone DEF ServeAdd
  <2>2. QED
    BY <1>24, <2>1 DEF ServeAdd, Serve, Lower, AddInner, MakeProfile, WriteSet,
     InnerAdded, RememberPath, ActivePath, GoTo, OwnerOf, PushRequests, Served
<1>25. CASE ServeDelete
  <2>1. requests = {"Delete"} /\ screen = OwnerOf("Delete")
    BY <1>25, Alone DEF ServeDelete
  <2>2. QED
    BY <1>25, <2>1 DEF ServeDelete, Serve, Lower, DeleteInner, WriteSet, InnerDeleted,
     GoTo, OwnerOf, PushRequests, Served
<1>26. CASE ServeSave
  <2>1. requests = {"Save"} /\ screen = "ProfilePassphrase"
    BY <1>26, Alone DEF ServeSave, OwnerOf
  <2>2. pass # "Saved"
    BY <2>1 DEF Waiting
  <2>3. CASE WriteNewContainer /\ SaveDone
    <3>1. /\ UNCHANGED <<remote, wiped, mode, ram>> /\ pass' = "Saved"
          /\ exists'["Local"] = TRUE
          /\ screen' \in {"ProfilePassphrase", "Account", "PushProfile"}
      BY <1>26, <2>1, <2>3 DEF ServeSave, Serve, SaveDone, PushAfterSave, Fail, GoTo
    <3>2. QED
      BY <2>1, <2>2, <3>1
  <2>4. CASE FailedWrite("Local") /\ UNCHANGED <<screen, exists>> /\ pass' = "Failed"
    <3>1. UNCHANGED <<remote, wiped, mode, ram>>
      BY <1>26 DEF ServeSave, Serve
    <3>2. disk'["Local"] \in {disk["Local"], Torn}
      BY <2>4 DEF FailedWrite
    <3>3. QED
      BY <2>1, <2>2, <2>4, <3>1, <3>2
  <2>5. QED
    BY <1>26, <2>3, <2>4 DEF ServeSave, Fail
<1>27. CASE ServeLogin
  <2>1. requests = {"Login"} /\ screen = OwnerOf("Login")
    BY <1>27, Alone DEF ServeLogin
  <2>2. QED
    BY <1>27, <2>1 DEF ServeLogin, Serve, Session, PushFails, Fail, Lower, GoTo,
     OwnerOf, PushRequests, Served
<1>28. CASE ServeTotp
  <2>1. requests = {"Totp"} /\ screen = OwnerOf("Totp")
    BY <1>28, Alone DEF ServeTotp
  <2>2. QED
    BY <1>28, <2>1 DEF ServeTotp, Serve, Session, PushFails, Fail, Lower, GoTo, OwnerOf,
     PushRequests, Served
<1>29. CASE ServeList
  <2>1. requests = {"List"} /\ screen = OwnerOf("List")
    BY <1>29, Alone DEF ServeList
  <2>2. QED
    BY <1>29, <2>1 DEF ServeList, Serve, PushFails, Fail, Lower, OwnerOf, PushRequests,
     Served
<1>30. CASE ServeRewrite
  <2>1. requests = {"Rewrite"} /\ screen = OwnerOf("Rewrite")
    BY <1>30, Alone DEF ServeRewrite
  <2>2. QED
    BY <1>30, <2>1 DEF ServeRewrite, Serve, WriteNewContainer, MakeProfile, PushFails,
     FailedWrite, Fail, Lower, OwnerOf, PushRequests, Served
<1>31. CASE ServeSend
  <2>1. requests = {"Send"} /\ screen = OwnerOf("Send")
    BY <1>31, Alone DEF ServeSend
  <2>2. QED
    BY <1>31, <2>1 DEF ServeSend, Serve, Blob, Mirror, PushFails, FailedWrite, Fail,
     Lower, OwnerOf, PushRequests, Served
<1>32. CASE ServeDownload
  <2>1. requests = {"Download"} /\ screen = OwnerOf("Download")
    BY <1>32, Alone DEF ServeDownload
  <2>2. QED
    BY <1>32, <2>1 DEF ServeDownload, Serve, SigninDone, PushFails, NewPush,
     FailedWrite, Fail, Lower, GoTo, OwnerOf, PushRequests, Served
<1>33. CASE Restart
  BY <1>33 DEF Restart, NewPush
<1>34. CASE UNCHANGED vars
  BY <1>34 DEF vars
<1>35. QED
  BY <1>1, <1>2, <1>3, <1>4, <1>5, <1>6, <1>7, <1>8, <1>9, <1>10, <1>11, <1>12, <1>13,
     <1>14, <1>15, <1>16, <1>17, <1>18, <1>19, <1>20, <1>21, <1>22, <1>23, <1>24, <1>25,
     <1>26, <1>27, <1>28, <1>29, <1>30, <1>31, <1>32, <1>33, <1>34 DEF Next, Key, Loop

\* What a profile of the default build can be lost by.
LEMMA KeptStep ==
  ASSUME TypeOK, Waiting, Unlocked, OneContainer, Remembered, [Next]_vars,
         ~remote, ~wiped', NEW p \in disk["Local"] \ (disk'["Local"] \cup Torn)
  PROVE  manage = "DeletingInner" /\ active = p
<1> USE DEF fileVars
<1>1. disk \in [Sources -> Containers]
  BY DEF TypeOK
<1>2. ~wiped
  BY DEF Next, Key, Loop, vars, OpenProfile, Configure, ConfigureRemote, SignIn, UnlockKey,
     PickProfile, LockPicker, ManageEsc, ManageAdd, ManagePush, ManageAsk, ManageAnswer,
     WizardKey, AliasKey, PassphraseKey, DoneKey, AccountKey, TotpKey, PushFormKey,
     PushFailedKey, PushDoneKey, ServeUnlock, ServeWipe, FullWipe, ServeAdd, ServeDelete,
     ServeSave, ServeLogin, ServeTotp, ServeList, ServeRewrite, ServeSend, ServeDownload,
     Restart
<1>3. CASE ServeAdd
  BY <1>1, <1>2, <1>3 DEF ServeAdd, AddInner, WriteSet, Remembered, Sources
<1>4. CASE ServeDelete
  <2>1. manage = "DeletingInner"
    BY <1>4 DEF ServeDelete, Serve, Served, Waiting
  <2>2. QED
    BY <1>1, <1>2, <1>4, <2>1 DEF ServeDelete, DeleteInner, WriteSet, Remembered, Sources
<1>5. CASE ServeSave
  <2>1. requests = {"Save"} /\ screen = "ProfilePassphrase"
    BY <1>5, Alone DEF ServeSave, OwnerOf
  <2>2. disk["Local"] \subseteq Torn
    BY <1>2, <2>1 DEF Remembered, Waiting
  <2>3. QED
    BY <2>2
<1>6. ~(ServeRewrite \/ ServeSend \/ ServeDownload)
  BY DEF ServeRewrite, ServeSend, ServeDownload, Serve, Served, PushRequests
<1>7. ~(ServeWipe /\ FullWipe)
  BY DEF FullWipe
<1>8. ASSUME ~ServeAdd, ~ServeDelete, ~ServeSave
      PROVE  disk' = disk
  BY <1>6, <1>7, <1>8 DEF Next, Key, Loop, vars, OpenProfile, Configure, ConfigureRemote,
     SignIn, UnlockKey, PickProfile, LockPicker, ManageEsc, ManageAdd, ManagePush, ManageAsk,
     ManageAnswer, WizardKey, AliasKey, PassphraseKey, DoneKey, AccountKey, TotpKey,
     PushFormKey, PushFailedKey, PushDoneKey, ServeUnlock, ServeWipe, ServeLogin, ServeTotp,
     ServeList, Restart
<1>9. QED
  BY <1>3, <1>4, <1>5, <1>8

-----------------------------------------------------------------------------
IInv == TypeOK /\ Waiting /\ Unlocked /\ OneContainer /\ Remembered

\* A program just started remembers what is on the disk and waits for nothing.
LEMMA InitHolds == Init => IInv
<1> SUFFICES ASSUME Init PROVE IInv
  OBVIOUS
<1>1. TypeOK
  <2>1. {{}, {1}, {2}} \subseteq Containers
    BY SessionAssumption DEF Containers, Profiles
  <2>2. disk \in [Sources -> Containers] /\ server \in Containers
    BY <2>1 DEF Init
  <2>3. made \in Profiles
    BY SessionAssumption DEF Init, Profiles
  <2>4. QED
    BY <2>2, <2>3, NewIsPush DEF PushFlows, Init, Fresh, TypeOK, Sources, ManageStages
<1>2. Waiting /\ Unlocked
  BY DEF Init, Fresh, NewPush, Waiting, Unlocked
<1>3. OneContainer /\ Remembered
  BY DEF Init, Fresh, OneContainer, Remembered, Sources
<1>4. QED
  BY <1>1, <1>2, <1>3 DEF IInv

\* The invariant the theorems rest on.
LEMMA Invariant == Spec => []IInv
<1>1. IInv /\ [Next]_vars => IInv'
  BY TypeStep, WaitingStep, UnlockedStep, OneContainerStep, RememberedStep DEF IInv
<1>2. QED
  BY <1>1, InitHolds, PTL DEF Spec

\* The variables keep their types whatever is typed and however requests end.
THEOREM TypeCorrect == Spec => []TypeOK
<1>1. IInv => TypeOK
  BY DEF IInv
<1>2. QED
  BY <1>1, Invariant, PTL

\* Whatever way leads to the manage screen, a container is in RAM and a profile
\* of it is shown (handle_profile_manage, confirm_picker_selection, the ways
\* back from the push flow and from the alias).
THEOREM ManageHasContainer == Spec => []ManageIsUnlocked
<1>1. IInv => ManageIsUnlocked
  BY DEF IInv, Unlocked, ManageIsUnlocked
<1>2. QED
  BY <1>1, Invariant, PTL

\* A screen that takes no key waits for a request that is up, and every request
\* is answered on the screen that asked (the stages of ManageStage, PushStage
\* and the others against the flags the loop serves).
THEOREM WaitingIsServed == Spec => []BusyIsServed
<1>1. IInv => BusyIsServed
  <2> SUFFICES ASSUME IInv PROVE BusyIsServed
    OBVIOUS
  <2>1. \A r \in requests : requests = {r} /\ screen = OwnerOf(r)
    BY DEF IInv, Waiting
  <2>2. requests \cap {"List", "Rewrite", "Send", "Download"} # {} => push.session
    BY <2>1 DEF IInv, Waiting, OwnerOf
  <2>3. QED
    BY <2>1, <2>2 DEF IInv, Waiting, BusyIsServed
<1>2. QED
  BY <1>1, Invariant, PTL

\* In the default build a profile leaves the local container only by the deletion
\* that was confirmed, until a wipe (perform_add_inner_profile,
\* perform_delete_inner_profile and run_save_profile write what RAM remembers).
THEOREM ProfilesStay == Spec => ProfilesKept
<1>1. IInv /\ [Next]_vars
        => [~remote /\ ~wiped' =>
              \A p \in disk["Local"] \ (disk'["Local"] \cup Torn) :
                manage = "DeletingInner" /\ active = p]_vars
  BY KeptStep DEF IInv
<1>2. QED
  BY <1>1, Invariant, PTL DEF Spec, ProfilesKept
===============================================================================
