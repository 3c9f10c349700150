------------------------------- MODULE MenuHelper -------------------------------
(***************************************************************************)
(* src/xenomods/modules/MenuHelper.cpp (the "Menu Tool") on top of         *)
(* InputBuffer: record the inputs a menu accepts, and replay a recording   *)
(* the next time such a menu opens.                                        *)
(*                                                                         *)
(* The game calls the hooks; it is left free to call them in any order it  *)
(* could, also from inside a native layer update or a native menu creation *)
(* (openCall).  Update, the windows and Targeting run between those.       *)
(*                                                                         *)
(* Abstractions.  The window's name box, kind box and selection are free   *)
(* for the user to change at any time, so the actions that read them pick  *)
(* a value.  A recording's last elapsed time is represented by the script  *)
(* that was timed.  Recordings on disk are whatever the user's file holds. *)
(* "delivered" and "sinceDelivery" are history: the replayed actions the   *)
(* game has accepted since the replay was armed, and the frames since the  *)
(* last of them.                                                           *)
(***************************************************************************)
EXTENDS InputBuffer

CONSTANTS
    Kind,            \* the kinds of menu in play, a part of AllKinds
    Name,            \* recording names
    EmptyName,       \* the empty name box
    RecordingFiles,  \* what menuHelper.toml may hold, entries already filtered
    MaxRecordings,   \* 64 in the code
    MaxActions,      \* 65536 in the code
    RegisterPairs,   \* the handle each layer gets from the game
    Features         \* the parts of the game and the mod in play

AllKinds == {"Shop", "Menu", "Travel"}

Recording == [name : Name, kind : AllKinds,
              actions : Seq(AcceptedAction), lastPlayback : Seq(AcceptedAction)]

AllFeatures == {"AuxCore", "BladeBond", "Sandbox", "SceneTransition",
                "Targeting", "Window"}

ASSUME MenuHelperAssumption ==
    /\ Kind \subseteq AllKinds
    /\ Features \subseteq AllFeatures
    /\ EmptyName \notin Name
    /\ RecordingFiles \subseteq Seq(Recording)
    /\ \A file \in RecordingFiles : \A i \in 1..Len(file) :
          /\ file[i].actions # <<>>
          /\ \A j \in 1..Len(file[i].actions) :
                file[i].actions[j].input # NoInput
    /\ MaxRecordings \in Nat
    /\ MaxActions \in Nat
    /\ RegisterPairs \subseteq Layer \X Handle

HelperState == {"Idle", "ArmedRecord", "Recording", "DraftReady", "ArmedPlayback",
                "Playing", "WaitingForShopClose", "Complete", "Cancelled"}

VARIABLES
    state,
    activeKind,
    recordings,
    draftActions,
    lastRecordedAction,      \* the action recorded in this frame, or NoAction
    playbackActions,
    playbackRecording,       \* index into recordings, 0 for none
    playbackIndex,           \* actions counted as accepted
    playbackNeutralFrames,
    delivered,
    sinceDelivery,
    shopOpen,
    shopTransitionBlocked,
    mainMenuOpen,
    mainMenuOpening,
    mainMenuInputReady,
    travelMenuOpen,
    auxCoreShopWaitingForInput,
    auxCoreShopSession,
    auxCoreListInputHandle,
    tutorialBladeBondPending,
    tutorialBladeBondOpen,
    SandboxMode,
    sandboxDataActive,
    dataStoreBuilt,          \* the data-store singleton is not null
    openCall,                \* createOpenMenu2 in progress
    sceneTransitionActive

sessionVars == <<state, activeKind, playbackActions, playbackRecording,
                 playbackIndex, playbackNeutralFrames, delivered, sinceDelivery>>
draftVars == <<recordings, draftActions, lastRecordedAction>>
mainMenuVars == <<mainMenuOpen, mainMenuOpening, mainMenuInputReady>>
menuVars == <<shopOpen, shopTransitionBlocked, mainMenuVars, travelMenuOpen>>
auxShopVars == <<auxCoreShopWaitingForInput, auxCoreShopSession,
                 auxCoreListInputHandle>>
bondVars == <<tutorialBladeBondPending, tutorialBladeBondOpen>>
sandboxVars == <<SandboxMode, sandboxDataActive, dataStoreBuilt>>
gameVars == <<openCall, sceneTransitionActive>>

\* What a session change may touch: the session itself, the recordings, and
\* the parts of InputBuffer that MenuHelper drives.
controlVars == <<sessionVars, draftVars, captureVars, activeUiPadDataValid,
                 slotVars, offerVars>>

\* InputBuffer state that no handler below touches.
otherInputVars == <<buttonVars, inputLayerPadCaptureActive, activeUiPadData,
                    scriptedVars, autoUiVars, layerVars>>

vars == <<ibVars, sessionVars, draftVars, menuVars, auxShopVars, bondVars,
          sandboxVars, gameVars>>

Armed == {"ArmedRecord", "ArmedPlayback"}

IsPlaybackActive == state \in {"Playing", "WaitingForShopClose"}

OpenCalls == {"none", "Menu", "Travel", "HelperMenu", "HelperTravel"}

\* The type invariant of MenuHelper and the InputBuffer below it.
TypeOK ==
    /\ InputBufferTypeOK
    /\ state \in HelperState
    /\ activeKind \in AllKinds
    /\ recordings \in Seq(Recording)
    /\ draftActions \in Seq(AcceptedAction)
    /\ lastRecordedAction \in AcceptedAction \cup {NoAction}
    /\ playbackActions \in Seq(AcceptedAction)
    /\ playbackRecording \in Nat
    /\ playbackIndex \in Nat
    /\ playbackNeutralFrames \in 0..2
    /\ delivered \in Seq(AcceptedAction)
    /\ sinceDelivery \in 0..2
    /\ shopOpen \in BOOLEAN
    /\ shopTransitionBlocked \in BOOLEAN
    /\ mainMenuOpen \in BOOLEAN
    /\ mainMenuOpening \in BOOLEAN
    /\ mainMenuInputReady \in BOOLEAN
    /\ travelMenuOpen \in BOOLEAN
    /\ auxCoreShopWaitingForInput \in BOOLEAN
    /\ auxCoreShopSession \in BOOLEAN
    /\ auxCoreListInputHandle \in Handle \cup {0}
    /\ tutorialBladeBondPending \in BOOLEAN
    /\ tutorialBladeBondOpen \in BOOLEAN
    /\ SandboxMode \in BOOLEAN
    /\ sandboxDataActive \in BOOLEAN
    /\ dataStoreBuilt \in BOOLEAN
    /\ openCall \in OpenCalls
    /\ sceneTransitionActive \in BOOLEAN

\* The file's recordings as LoadRecordings keeps them.
LoadedFrom(file) ==
    IF Len(file) > MaxRecordings THEN SubSeq(file, 1, MaxRecordings) ELSE file

Init ==
    /\ InputBufferInit
    /\ state = "Idle"
    /\ activeKind = "Shop"
    /\ \E file \in RecordingFiles : recordings = LoadedFrom(file)
    /\ draftActions = <<>>
    /\ lastRecordedAction = NoAction
    /\ playbackActions = <<>>
    /\ playbackRecording = 0
    /\ playbackIndex = 0
    /\ playbackNeutralFrames = 0
    /\ delivered = <<>>
    /\ sinceDelivery = 0
    /\ shopOpen = FALSE
    /\ shopTransitionBlocked = FALSE
    /\ mainMenuOpen = FALSE
    /\ mainMenuOpening = FALSE
    /\ mainMenuInputReady = FALSE
    /\ travelMenuOpen = FALSE
    /\ auxCoreShopWaitingForInput = FALSE
    /\ auxCoreShopSession = FALSE
    /\ auxCoreListInputHandle = 0
    /\ tutorialBladeBondPending = FALSE
    /\ tutorialBladeBondOpen = FALSE
    /\ SandboxMode = FALSE
    /\ sandboxDataActive = FALSE
    /\ dataStoreBuilt = FALSE
    /\ openCall = "none"
    /\ sceneTransitionActive = FALSE

-------------------------------------------------------------------------------
(* Sandbox data.                                                           *)

\* Mutant: the option is not asked for.
SandboxAlways ==
    /\ sandboxDataActive' = (sandboxDataActive \/ dataStoreBuilt)
    /\ UNCHANGED <<SandboxMode, dataStoreBuilt>>

\* What the three save hooks of the game ask before they refuse.
IsSandboxDataActive == SandboxMode /\ sandboxDataActive

\* OnSandboxMenuOpened: swap the data store for a disposable copy.
OnSandboxMenuOpened ==
    /\ sandboxDataActive' = (sandboxDataActive \/ (SandboxMode /\ dataStoreBuilt))
    /\ UNCHANGED <<SandboxMode, dataStoreBuilt>>

\* OnSandboxMenuClosed, DiscardSandboxData: put the real store back.
OnSandboxMenuClosed ==
    /\ sandboxDataActive' = FALSE
    /\ UNCHANGED <<SandboxMode, dataStoreBuilt>>

-------------------------------------------------------------------------------
(***************************************************************************)
(* Sessions.  Each operator below says what becomes of controlVars; the    *)
(* handlers that use it say what becomes of the rest.                      *)
(***************************************************************************)

NextAction(script, index) == script[index + 1]

\* The action QueueNextPlaybackAction puts into the slot once it may queue:
\* none when the script is used up.
Queued(script, index) ==
    IF index < Len(script) THEN NextAction(script, index) ELSE NoAction

\* Mutant: a used-up script goes on playing.
NeverUsedUp(script, index) == "Playing"

StateAfterQueueing(script, index) ==
    IF index < Len(script) THEN "Playing" ELSE "WaitingForShopClose"

\* The mode BeginActiveSession opens the override with.
ModeFor(kind) ==
    IF kind = "Travel" THEN "TravelUiBuffered"
    ELSE IF kind = "Shop" /\ ~auxCoreShopSession THEN "ShopMenuLayered"
    ELSE "StandardMenu"

ShopBlocks(kind, blocked) == kind = "Shop" /\ ~auxCoreShopSession /\ blocked

\* The playback half of BeginActiveSession: open the override and queue the
\* first action, unless the shop is in transition.
StartPlaying(script, index, kind, blocked) ==
    IF ShopBlocks(kind, blocked)
    THEN /\ state' = "Playing"
         /\ SetPlaybackOverride(TRUE, ModeFor(kind), NoAction)
    ELSE /\ state' = StateAfterQueueing(script, index)
         /\ SetPlaybackOverride(TRUE, ModeFor(kind), Queued(script, index))

\* BeginActiveSession: an armed session of this kind starts.  "entering" says
\* that the caller is UIInputLayerUpdateHook, which resets the pad word and
\* the offers right after.
KeepPadWord(entering) ==
    activeUiPadDataValid' = (activeUiPadDataValid /\ ~entering)

KeepOffers(entering) ==
    /\ playbackUiActionOffered' = (playbackUiActionOffered /\ ~entering)
    /\ playbackUiDirectActionOffered' = (playbackUiDirectActionOffered /\ ~entering)

BeginActiveSession(kind, blocked, entering) ==
    /\ IF activeKind = kind /\ state = "ArmedRecord"
       THEN /\ state' = "Recording"
            /\ SetAcceptedActionCapture(TRUE)
            /\ KeepOffers(entering)
            /\ UNCHANGED slotVars
       ELSE IF activeKind = kind /\ state = "ArmedPlayback"
       THEN /\ StartPlaying(playbackActions, playbackIndex, kind, blocked)
            /\ KeepPadWord(entering)
            /\ UNCHANGED captureVars
       ELSE /\ KeepPadWord(entering)
            /\ KeepOffers(entering)
            /\ UNCHANGED <<state, captureVars, slotVars>>
    /\ UNCHANGED <<activeKind, playbackActions, playbackRecording, playbackIndex,
                   playbackNeutralFrames, delivered, sinceDelivery, draftVars>>

\* Mutant: the override stays open.
StopKeepsOverride(nextState) ==
    /\ SetAcceptedActionCapture(FALSE)
    /\ playbackActions' = <<>>
    /\ playbackIndex' = 0
    /\ playbackNeutralFrames' = 0
    /\ playbackRecording' = 0
    /\ state' = nextState
    /\ delivered' = <<>>
    /\ sinceDelivery' = 0
    /\ UNCHANGED <<slotVars, offerVars>>

\* StopPlayback; the kind, the recordings and the draft are left to the caller.
StopPlayback(nextState) ==
    /\ SetAcceptedActionCapture(FALSE)
    /\ SetPlaybackOverride(FALSE, "StandardMenu", NoAction)
    /\ playbackActions' = <<>>
    /\ playbackIndex' = 0
    /\ playbackNeutralFrames' = 0
    /\ playbackRecording' = 0
    /\ state' = nextState
    /\ delivered' = <<>>
    /\ sinceDelivery' = 0

\* Where a recording of this name and kind is kept.
SlotsNamed(name, kind) ==
    {i \in 1..Len(recordings) :
        recordings[i].name = name /\ recordings[i].kind = kind}

\* The recordings with the draft stored under a name.
WithDraft(name, kind) ==
    LET entry == [name |-> name, kind |-> kind,
                  actions |-> draftActions, lastPlayback |-> <<>>]
        slots == SlotsNamed(name, kind)
    IN  IF slots = {} THEN Append(recordings, entry)
        ELSE [recordings EXCEPT ![FirstSlot(slots)] = entry]

\* Mutant: the draft is dropped on every path.
SaveAlwaysDrops(name, kind, saved) ==
    /\ recordings' = IF name = EmptyName THEN recordings ELSE WithDraft(name, kind)
    /\ draftActions' = <<>>
    /\ state' = IF name # EmptyName /\ saved THEN "Idle" ELSE "DraftReady"

\* SaveDraft with a draft to save: without a name it stays where it is; the
\* draft is dropped only when SaveRecordings reports success.
SaveDraft(name, kind, saved) ==
    /\ recordings' = IF name = EmptyName THEN recordings ELSE WithDraft(name, kind)
    /\ IF name # EmptyName /\ saved
       THEN draftActions' = <<>> /\ state' = "Idle"
       ELSE UNCHANGED draftActions /\ state' = "DraftReady"

\* The replayed recording gets its elapsed time.
StoreElapsed ==
    recordings' = IF playbackRecording \in 1..Len(recordings)
                  THEN [recordings EXCEPT
                           ![playbackRecording].lastPlayback = playbackActions]
                  ELSE recordings

\* EndActiveSession: the menu of the running session closed.  A recording is
\* saved under the name in the box, a replay's elapsed time is stored.
EndActiveSession(kind, name, saved) ==
    IF activeKind = kind /\ state = "Recording"
    THEN /\ SetAcceptedActionCapture(FALSE)
         /\ IF draftActions = <<>>
            THEN state' = "Idle" /\ UNCHANGED <<recordings, draftActions>>
            ELSE SaveDraft(name, kind, saved)
         /\ UNCHANGED <<activeKind, playbackActions, playbackRecording,
                        playbackIndex, playbackNeutralFrames, delivered,
                        sinceDelivery, lastRecordedAction, slotVars, offerVars>>
    ELSE IF activeKind = kind /\ IsPlaybackActive
    THEN /\ StoreElapsed
         /\ StopPlayback("Complete")
         /\ UNCHANGED <<activeKind, draftActions, lastRecordedAction>>
    ELSE UNCHANGED controlVars

\* ArmPlayback of recording i.  When its menu is already open the replay
\* begins here, except that OnShopOpened does not begin an Aux Core session.
\* The accepted-action capture is left as it is.
MenuIsReadyFor(kind) ==
    \/ kind = "Shop" /\ shopOpen /\ ~auxCoreShopSession
    \/ kind = "Menu" /\ mainMenuOpen /\ mainMenuInputReady
    \/ kind = "Travel" /\ travelMenuOpen

ArmPlayback(i) ==
    LET recording == recordings[i] IN
    /\ playbackActions' = recording.actions
    /\ activeKind' = recording.kind
    /\ playbackRecording' = i
    /\ playbackIndex' = 0
    /\ playbackNeutralFrames' = 0
    /\ delivered' = <<>>
    /\ sinceDelivery' = 0
    /\ IF MenuIsReadyFor(recording.kind)
       THEN StartPlaying(recording.actions, 0, recording.kind, shopTransitionBlocked)
       ELSE /\ state' = "ArmedPlayback"
            /\ SetPlaybackOverride(FALSE, "StandardMenu", NoAction)
    /\ IF \/ recording.kind = "Shop" /\ shopOpen
          \/ recording.kind = "Travel" /\ travelMenuOpen
       THEN OnSandboxMenuOpened
       ELSE UNCHANGED sandboxVars
    /\ UNCHANGED <<draftVars, captureVars, activeUiPadDataValid>>

-------------------------------------------------------------------------------
(***************************************************************************)
(* OnAcceptedAction, for the actions that one hook reports: at most one    *)
(* physical acceptance, then possibly the pending playback action.         *)
(***************************************************************************)
MenuOpen(kind) ==
    \/ kind = "Shop" /\ shopOpen
    \/ kind = "Menu" /\ mainMenuOpen
    \/ kind = "Travel" /\ travelMenuOpen

\* One input is recorded once per frame, however many layers report it.
RecordPhysical(physical) ==
    IF state = "Recording" /\ MenuOpen(activeKind) /\ physical \ {lastRecordedAction} # {}
    THEN \E action \in physical :
            /\ draftActions' = IF Len(draftActions) < MaxActions
                               THEN Append(draftActions, action) ELSE draftActions
            /\ lastRecordedAction' = action
            /\ UNCHANGED recordings
    ELSE UNCHANGED draftVars

\* Whether an accepted input is the one the replay waits for.
IsExpected(input) ==
    /\ state = "Playing"
    /\ playbackIndex < Len(playbackActions)
    /\ NextAction(playbackActions, playbackIndex).input = input

\* Mutant: the test for a travel menu the wrong way round.
NeutralFramesOutsideTravel(repeated, auxCoreAmount) ==
    IF activeKind = "Travel" \/ ~repeated THEN playbackNeutralFrames
    ELSE IF auxCoreAmount /\ activeKind = "Shop" THEN 2 ELSE 1

\* A repeated input, and every travel input, is followed by neutral frames.
NeutralFramesAfter(repeated, auxCoreAmount) ==
    IF activeKind # "Travel" /\ ~repeated THEN playbackNeutralFrames
    ELSE IF auxCoreAmount /\ activeKind = "Shop" THEN 2 ELSE 1

\* The accepted playback action is counted when it is the expected one.
CountPlayback(auxCoreAmount) ==
    LET input == playbackAction.input
        nextIndex == playbackIndex + 1
        repeated == /\ nextIndex < Len(playbackActions)
                    /\ NextAction(playbackActions, nextIndex).input = input
    IN  /\ IF IsExpected(input)
           THEN /\ playbackIndex' = nextIndex
                /\ playbackNeutralFrames' = NeutralFramesAfter(repeated, auxCoreAmount)
           ELSE UNCHANGED <<playbackIndex, playbackNeutralFrames>>
        /\ delivered' = Append(delivered, playbackAction)
        /\ sinceDelivery' = 0

OnAcceptedAction(physical, completes, auxCoreAmount) ==
    /\ RecordPhysical(physical)
    /\ IF completes
       THEN CountPlayback(auxCoreAmount)
       ELSE UNCHANGED <<playbackIndex, playbackNeutralFrames, delivered, sinceDelivery>>
    /\ UNCHANGED <<state, activeKind, playbackActions, playbackRecording>>

-------------------------------------------------------------------------------
(***************************************************************************)
(* Shops.                                                                  *)
(***************************************************************************)

\* OnShopOpened.  An Aux Core session begins later, when its list is ready.
OnShopOpened ==
    IF shopOpen /\ state \notin Armed
    THEN UNCHANGED <<controlVars, shopOpen, shopTransitionBlocked>>
    ELSE /\ shopOpen' = TRUE
         /\ shopTransitionBlocked' = (shopOpen /\ shopTransitionBlocked)
         /\ IF auxCoreShopSession
            THEN UNCHANGED controlVars
            ELSE BeginActiveSession("Shop", shopOpen /\ shopTransitionBlocked, FALSE)

\* ShopInitializeHook; ShopSetDisplayHook and ShopOpenHook do the same
\* without resetting the age of the last amount input.
ShopOpens(initializing) ==
    /\ "Shop" \in Kind
    /\ OnSandboxMenuOpened
    /\ OnShopOpened
    /\ IF initializing
       THEN ResetAuxCoreAmountInput /\ UNCHANGED <<auxCoreAmountMenuActive,
                                                   auxCoreAmountMenuObject>>
       ELSE UNCHANGED auxVars
    /\ UNCHANGED <<otherInputVars, mainMenuVars, travelMenuOpen, auxShopVars,
                   bondVars, gameVars>>

\* A menu of this kind closes only when it is open or carries a session.
Closes(kind, open) ==
    \/ open
    \/ activeKind = kind /\ (state = "Recording" \/ IsPlaybackActive)

\* PlayerControlEventHook with event 0x0e: OnShopClosed.
ShopCloses(name, saved) ==
    /\ "Shop" \in Kind
    /\ CloseAuxCoreAmountMenu
    /\ auxCoreShopWaitingForInput' = FALSE
    /\ auxCoreShopSession' = FALSE
    /\ auxCoreListInputHandle' = 0
    /\ shopTransitionBlocked' = FALSE
    /\ IF Closes("Shop", shopOpen)
       THEN /\ shopOpen' = FALSE
            /\ OnSandboxMenuClosed
            /\ EndActiveSession("Shop", name, saved)
       ELSE UNCHANGED <<shopOpen, sandboxVars, controlVars>>
    /\ UNCHANGED <<otherInputVars, mainMenuVars, travelMenuOpen, bondVars, gameVars>>

\* MenuInputDisableHook: OnShopInputDisabled.
ShopReplayRuns ==
    /\ shopOpen
    /\ ~auxCoreShopSession
    /\ activeKind = "Shop"
    /\ IsPlaybackActive

MenuInputDisabled ==
    /\ "Shop" \in Kind
    /\ ShopReplayRuns
    /\ shopTransitionBlocked' = TRUE
    /\ UNCHANGED <<otherInputVars, controlVars, auxVars, shopOpen, mainMenuVars,
                   travelMenuOpen, auxShopVars, bondVars, sandboxVars, gameVars>>

-------------------------------------------------------------------------------
(***************************************************************************)
(* The Aux Core shop, opened from inside an ordinary shop.                 *)
(***************************************************************************)

\* OnAuxCoreShopOpening: a session of the outer shop starts over in the inner.
AuxCoreShopOpening ==
    /\ "AuxCore" \in Features
    /\ auxCoreShopWaitingForInput' = TRUE
    /\ auxCoreShopSession' = TRUE
    /\ auxCoreListInputHandle' = 0
    /\ shopTransitionBlocked' = FALSE
    /\ IF activeKind = "Shop" /\ IsPlaybackActive
       THEN /\ SetPlaybackOverride(FALSE, "StandardMenu", NoAction)
            /\ playbackIndex' = 0
            /\ playbackNeutralFrames' = 0
            /\ delivered' = <<>>
            /\ sinceDelivery' = 0
            /\ state' = "ArmedPlayback"
            /\ UNCHANGED <<activeKind, playbackActions, playbackRecording,
                           draftVars, captureVars, activeUiPadDataValid>>
       ELSE IF activeKind = "Shop" /\ state = "Recording"
       THEN /\ SetAcceptedActionCapture(FALSE)
            /\ draftActions' = <<>>
            /\ lastRecordedAction' = NoAction
            /\ state' = "ArmedRecord"
            /\ UNCHANGED <<activeKind, playbackActions, playbackRecording,
                           playbackIndex, playbackNeutralFrames, delivered,
                           sinceDelivery, recordings, slotVars, offerVars>>
       ELSE UNCHANGED controlVars
    /\ UNCHANGED <<otherInputVars, auxVars, shopOpen, mainMenuVars, travelMenuOpen,
                   bondVars, sandboxVars, gameVars>>

\* OnAuxCoreListInputEnabled: the layer whose next update makes the list ready.
AuxCoreListInputEnabled(handle) ==
    /\ "AuxCore" \in Features
    /\ auxCoreShopWaitingForInput
    /\ auxCoreListInputHandle' = handle
    /\ UNCHANGED <<otherInputVars, controlVars, auxVars, menuVars,
                   auxCoreShopWaitingForInput, auxCoreShopSession, bondVars,
                   sandboxVars, gameVars>>

\* AuxCoreRecipeListenerHook, events other than the amount buttons: any event
\* shows the widget, opening events (0x40, 0x42) forget the last input, and
\* event 1 closes it.
AuxRecipeEvent(kind, object) ==
    /\ "AuxCore" \in Features
    /\ \/ /\ kind = "shown"
          /\ OpenAuxCoreAmountMenu(object)
          /\ UNCHANGED auxCoreInputAge
       \/ /\ kind = "opening"
          /\ OpenAuxCoreAmountMenu(object)
          /\ ResetAuxCoreAmountInput
       \/ /\ kind = "closed"
          /\ CloseAuxCoreAmountMenu
    /\ UNCHANGED <<otherInputVars, controlVars, menuVars, auxShopVars, bondVars,
                   sandboxVars, gameVars>>

\* The same hook for the amount buttons (event 8, actions 9 and 10): an input
\* the limiter holds back goes no further; one that passes is stamped, and
\* then accepts the pending L or R.
AuxAmountInput(object) ==
    /\ "AuxCore" \in Features
    /\ OpenAuxCoreAmountMenu(object)
    /\ IF AuxCoreAmountInputPasses
       THEN /\ StampAuxCoreAmountInput
            /\ AcceptAuxCoreAmountPlayback
            /\ OnAcceptedAction({}, AuxCoreAmountServesPlayback, TRUE)
       ELSE UNCHANGED <<auxCoreInputAge, slotVars, sessionVars, draftVars>>
    /\ UNCHANGED <<otherInputVars, captureVars, activeUiPadDataValid, offerVars,
                   menuVars, auxShopVars, bondVars, sandboxVars, gameVars>>

-------------------------------------------------------------------------------
(***************************************************************************)
(* The main menu, skip travel and the tutorial blade-bond menu.            *)
(***************************************************************************)

OnMenuOpening ==
    /\ mainMenuOpening' = TRUE
    /\ mainMenuOpen' = FALSE
    /\ mainMenuInputReady' = FALSE

\* OnMenuOpened and OnTravelOpened, without their OnSandboxMenuOpened, which
\* MainMenuCreateHook has just called.  A second call while the menu is open
\* matters only when a session is armed.
OnMenuOpened(ready) ==
    IF mainMenuOpen /\ state \notin Armed
    THEN UNCHANGED <<controlVars, mainMenuVars>>
    ELSE /\ mainMenuOpen' = TRUE
         /\ mainMenuOpening' = FALSE
         /\ mainMenuInputReady' = ready
         /\ IF ready THEN BeginActiveSession("Menu", FALSE, FALSE)
            ELSE UNCHANGED controlVars

OnTravelOpened ==
    IF travelMenuOpen /\ state \notin Armed
    THEN UNCHANGED <<controlVars, travelMenuOpen>>
    ELSE /\ travelMenuOpen' = TRUE
         /\ BeginActiveSession("Travel", FALSE, FALSE)

\* MainMenuCreateHook up to the native createOpenMenu2.  The game's own call;
\* StartMenuPlayback below makes the mod's.
MainMenuCreateBegin(menu) ==
    /\ menu \in Kind \ {"Shop"}
    /\ openCall = "none"
    /\ openCall' = menu
    /\ IF menu = "Menu"
       THEN OnMenuOpening /\ UNCHANGED travelMenuOpen
       ELSE travelMenuOpen' = FALSE /\ UNCHANGED mainMenuVars
    /\ UNCHANGED <<otherInputVars, controlVars, auxVars, shopOpen,
                   shopTransitionBlocked, auxShopVars, bondVars, sandboxVars,
                   sceneTransitionActive>>

\* The rest of it, when the native call has created the menu.
MainMenuCreated ==
    /\ openCall # "none"
    /\ openCall' = "none"
    /\ OnSandboxMenuOpened
    /\ IF openCall \in {"Menu", "HelperMenu"}
       THEN OnMenuOpened(mainMenuInputReady) /\ UNCHANGED travelMenuOpen
       ELSE OnTravelOpened /\ UNCHANGED mainMenuVars
    /\ UNCHANGED <<otherInputVars, auxVars, shopOpen, shopTransitionBlocked,
                   auxShopVars, bondVars, sceneTransitionActive>>

\* And when it has not: OnTravelClosed for a travel menu.  The mod's own call
\* then stops the replay it was made for (a travel replay cannot have begun,
\* so OnTravelClosed had nothing to end).
MainMenuNotCreated(name, saved) ==
    LET travelCloses == /\ openCall \in {"Travel", "HelperTravel"}
                        /\ Closes("Travel", travelMenuOpen)
    IN  /\ openCall # "none"
        /\ openCall' = "none"
        /\ IF travelCloses
           THEN travelMenuOpen' = FALSE /\ OnSandboxMenuClosed
           ELSE UNCHANGED <<travelMenuOpen, sandboxVars>>
        /\ IF openCall \in {"HelperMenu", "HelperTravel"}
           THEN StopPlayback("Cancelled") /\ UNCHANGED <<activeKind, draftVars>>
           ELSE IF travelCloses
           THEN EndActiveSession("Travel", name, saved)
           ELSE UNCHANGED controlVars
        /\ UNCHANGED <<otherInputVars, auxVars, shopOpen, shopTransitionBlocked,
                       mainMenuVars, auxShopVars, bondVars, sceneTransitionActive>>

\* MenuInputEnableHook: OnShopInputEnabled, then OnMenuInputEnabled.
MenuInputEnabled ==
    /\ shopTransitionBlocked' = (shopTransitionBlocked /\ ~ShopReplayRuns)
    /\ mainMenuInputReady' =
          (mainMenuInputReady \/ mainMenuOpen \/ mainMenuOpening)
    /\ IF mainMenuOpen
       THEN BeginActiveSession("Menu", FALSE, FALSE)
       ELSE UNCHANGED controlVars
    /\ UNCHANGED <<otherInputVars, auxVars, shopOpen, mainMenuOpen, mainMenuOpening,
                   travelMenuOpen, auxShopVars, bondVars, sandboxVars, gameVars>>

\* MainMenuSequenceEndHook: OnMenuClosed, OnTravelClosed, OnSandboxMenuClosed.
MainMenuSequenceEnds(name, saved) ==
    /\ {"Menu", "Travel"} \cap Kind # {}
    /\ IF Closes("Menu", mainMenuOpen)
       THEN /\ mainMenuOpen' = FALSE
            /\ mainMenuOpening' = FALSE
            /\ mainMenuInputReady' = FALSE
       ELSE UNCHANGED mainMenuVars
    /\ travelMenuOpen' = FALSE
    /\ IF activeKind \in {"Menu", "Travel"}
       THEN EndActiveSession(activeKind, name, saved)
       ELSE UNCHANGED controlVars
    /\ OnSandboxMenuClosed
    /\ UNCHANGED <<otherInputVars, auxVars, shopOpen, shopTransitionBlocked,
                   auxShopVars, bondVars, gameVars>>

\* TravelButtonOpenHook up to its native call, which opens the menu if at all.
TravelButtonOpen ==
    /\ "Travel" \in Kind
    /\ travelMenuOpen' = FALSE
    /\ UNCHANGED <<otherInputVars, controlVars, auxVars, shopOpen,
                   shopTransitionBlocked, mainMenuVars, auxShopVars, bondVars,
                   sandboxVars, gameVars>>

\* TutorialBladeBondRequestHook: OnTutorialBladeBondRequested.
TutorialBladeBondRequested ==
    /\ "BladeBond" \in Features
    /\ tutorialBladeBondPending' = TRUE
    /\ OnMenuOpening
    /\ UNCHANGED <<otherInputVars, controlVars, auxVars, shopOpen,
                   shopTransitionBlocked, travelMenuOpen, auxShopVars,
                   tutorialBladeBondOpen, sandboxVars, gameVars>>

\* TutorialBladeBondInitializeHook for a menu opened from an event; one that
\* was not requested first is treated as if it had been.
TutorialBladeBondInitialized ==
    /\ "BladeBond" \in Features
    /\ tutorialBladeBondOpen' = TRUE
    /\ tutorialBladeBondPending' = FALSE
    /\ IF tutorialBladeBondPending
       THEN /\ OnMenuOpened(mainMenuInputReady)
            /\ IF mainMenuOpen /\ state \notin Armed
               THEN UNCHANGED sandboxVars ELSE OnSandboxMenuOpened
       ELSE /\ OnSandboxMenuOpened
            /\ mainMenuOpen' = TRUE
            /\ mainMenuOpening' = FALSE
            /\ mainMenuInputReady' = FALSE
            /\ UNCHANGED controlVars
    /\ UNCHANGED <<otherInputVars, auxVars, shopOpen, shopTransitionBlocked,
                   travelMenuOpen, auxShopVars, gameVars>>

\* TutorialBladeBondInputReadyHook when the menu is ready.
TutorialBladeBondInputReady ==
    /\ tutorialBladeBondOpen
    /\ mainMenuInputReady' =
          (mainMenuInputReady \/ mainMenuOpen \/ mainMenuOpening)
    /\ IF mainMenuOpen
       THEN BeginActiveSession("Menu", FALSE, FALSE)
       ELSE UNCHANGED controlVars
    /\ UNCHANGED <<otherInputVars, auxVars, shopOpen, shopTransitionBlocked,
                   mainMenuOpen, mainMenuOpening, travelMenuOpen, auxShopVars,
                   bondVars, sandboxVars, gameVars>>

\* TutorialBladeBondFinalizeHook: OnMenuClosed.
TutorialBladeBondFinalized(name, saved) ==
    /\ tutorialBladeBondOpen
    /\ tutorialBladeBondOpen' = FALSE
    /\ IF Closes("Menu", mainMenuOpen)
       THEN /\ mainMenuOpen' = FALSE
            /\ mainMenuOpening' = FALSE
            /\ mainMenuInputReady' = FALSE
            /\ OnSandboxMenuClosed
            /\ EndActiveSession("Menu", name, saved)
       ELSE UNCHANGED <<mainMenuVars, sandboxVars, controlVars>>
    /\ UNCHANGED <<otherInputVars, auxVars, shopOpen, shopTransitionBlocked,
                   travelMenuOpen, auxShopVars, tutorialBladeBondPending, gameVars>>

-------------------------------------------------------------------------------
(***************************************************************************)
(* The data store, and scene transitions.                                  *)
(***************************************************************************)

\* SandboxDataStoreBuildHook and SandboxDataStoreDestroyHook; the game does
\* neither under an open menu.
DataStoreChanges(built) ==
    /\ "Sandbox" \in Features
    /\ ~shopOpen /\ ~mainMenuOpen /\ ~travelMenuOpen
    /\ sandboxDataActive' = FALSE
    /\ dataStoreBuilt' = built
    /\ UNCHANGED <<otherInputVars, controlVars, auxVars, menuVars, auxShopVars,
                   bondVars, SandboxMode, gameVars>>

\* OnSceneTransition.  An armed session survives it; a running session
\* survives only in the tutorial blade-bond menu.
ActiveTutorialBladeBond ==
    /\ tutorialBladeBondOpen
    /\ activeKind = "Menu"
    /\ state = "Recording" \/ IsPlaybackActive

\* Mutant: an armed shop session is forgotten.
PreservedMenuSession ==
    ActiveTutorialBladeBond \/ (activeKind = "Menu" /\ state \in Armed)

PreservedSession ==
    ActiveTutorialBladeBond \/ (activeKind \in {"Menu", "Shop"} /\ state \in Armed)

CaptureSurvives ==
    ActiveTutorialBladeBond \/ (activeKind = "Shop" /\ state \in Armed)

StateAfterRecording == IF draftActions = <<>> THEN "Idle" ELSE "DraftReady"

SceneTransitionBegins ==
    /\ "SceneTransition" \in Features
    /\ ~sceneTransitionActive
    /\ sceneTransitionActive' = TRUE
    /\ CloseAuxCoreAmountMenu
    /\ auxCoreShopWaitingForInput' = FALSE
    /\ auxCoreShopSession' = FALSE
    /\ auxCoreListInputHandle' = 0
    /\ shopTransitionBlocked' = FALSE
    /\ OnSandboxMenuClosed
    /\ shopOpen' = FALSE
    /\ travelMenuOpen' = FALSE
    /\ IF ActiveTutorialBladeBond
       THEN UNCHANGED mainMenuVars
       ELSE /\ mainMenuOpen' = FALSE
            /\ mainMenuOpening' = FALSE
            /\ mainMenuInputReady' = FALSE
    /\ IF (state = "ArmedPlayback" \/ IsPlaybackActive) /\ ~PreservedSession
       THEN StopPlayback("Cancelled") /\ UNCHANGED <<activeKind, draftVars>>
       ELSE /\ IF CaptureSurvives
               THEN UNCHANGED <<captureVars, activeUiPadDataValid>>
               ELSE SetAcceptedActionCapture(FALSE)
            /\ state' = IF state \in {"Recording", "ArmedRecord"} /\ ~PreservedSession
                        THEN StateAfterRecording ELSE state
            /\ UNCHANGED <<activeKind, playbackActions, playbackRecording,
                           playbackIndex, playbackNeutralFrames, delivered,
                           sinceDelivery, draftVars, slotVars, offerVars>>
    /\ UNCHANGED <<otherInputVars, bondVars, openCall>>

SceneTransitionEnds ==
    /\ sceneTransitionActive
    /\ sceneTransitionActive' = FALSE
    /\ UNCHANGED <<otherInputVars, controlVars, auxVars, menuVars, auxShopVars,
                   bondVars, sandboxVars, openCall>>

-------------------------------------------------------------------------------
(***************************************************************************)
(* The window.  It is drawn, and modules are updated, between the game's   *)
(* own calls.                                                              *)
(***************************************************************************)
Idle == layerStack = <<>> /\ openCall = "none"

\* What a button of the window leaves alone.
WindowFrame ==
    /\ "Window" \in Features
    /\ Idle
    /\ UNCHANGED <<otherInputVars, auxVars, menuVars, auxShopVars, bondVars, gameVars>>

\* "Record": ArmRecording.  A running replay is stopped; an armed one is
\* merely replaced.
Record(kind) ==
    /\ state # "Recording"
    /\ IF IsPlaybackActive
       THEN StopPlayback("ArmedRecord")
       ELSE /\ state' = "ArmedRecord"
            /\ UNCHANGED <<playbackActions, playbackRecording, playbackIndex,
                           playbackNeutralFrames, delivered, sinceDelivery,
                           captureVars, activeUiPadDataValid, slotVars, offerVars>>
    /\ activeKind' = kind
    /\ draftActions' = <<>>
    /\ lastRecordedAction' = NoAction
    /\ UNCHANGED <<recordings, sandboxVars>>
    /\ WindowFrame

\* "Stop recording".
StopRecording ==
    /\ state = "Recording"
    /\ SetAcceptedActionCapture(FALSE)
    /\ state' = StateAfterRecording
    /\ UNCHANGED <<activeKind, playbackActions, playbackRecording, playbackIndex,
                   playbackNeutralFrames, delivered, sinceDelivery, draftVars,
                   slotVars, offerVars, sandboxVars>>
    /\ WindowFrame

\* "Save".
Save(name, kind, saved) ==
    /\ state = "DraftReady"
    /\ name # EmptyName
    /\ draftActions # <<>>
    /\ SaveDraft(name, kind, saved)
    /\ UNCHANGED <<activeKind, playbackActions, playbackRecording, playbackIndex,
                   playbackNeutralFrames, delivered, sinceDelivery,
                   lastRecordedAction, captureVars, activeUiPadDataValid,
                   slotVars, offerVars, sandboxVars>>
    /\ WindowFrame

\* "Start" with recording i selected.
Start(i) ==
    /\ state # "ArmedPlayback" /\ ~IsPlaybackActive
    /\ ArmPlayback(i)
    /\ WindowFrame

\* "Stop".
Stop ==
    /\ state = "ArmedPlayback" \/ IsPlaybackActive
    /\ StopPlayback("Cancelled")
    /\ UNCHANGED <<activeKind, draftVars, sandboxVars>>
    /\ WindowFrame

\* "Reload", when the file can be read.
Reload(file) ==
    /\ state \notin Armed \cup {"Recording"} /\ ~IsPlaybackActive
    /\ recordings' = LoadedFrom(file)
    /\ UNCHANGED <<sessionVars, draftActions, lastRecordedAction, captureVars,
                   activeUiPadDataValid, slotVars, offerVars, sandboxVars>>
    /\ WindowFrame

\* "Delete selected", whatever is going on.
Delete(i) ==
    /\ recordings' = RemoveAt(recordings, i)
    /\ UNCHANGED <<sessionVars, draftActions, lastRecordedAction, captureVars,
                   activeUiPadDataValid, slotVars, offerVars, sandboxVars>>
    /\ WindowFrame

\* The "Sandbox" checkbox.
ToggleSandbox ==
    /\ "Sandbox" \in Features
    /\ SandboxMode' = ~SandboxMode
    /\ sandboxDataActive' =
          /\ SandboxMode'
          /\ \/ sandboxDataActive
             \/ (shopOpen \/ mainMenuOpen \/ travelMenuOpen) /\ dataStoreBuilt
    /\ UNCHANGED <<controlVars, dataStoreBuilt>>
    /\ WindowFrame

Window ==
    \/ \E kind \in Kind : Record(kind)
    \/ StopRecording
    \/ \E name \in Name, kind \in Kind, saved \in BOOLEAN : Save(name, kind, saved)
    \/ \E i \in 1..Len(recordings) : Start(i)
    \/ Stop
    \/ \E file \in RecordingFiles : Reload(file)
    \/ \E i \in 1..Len(recordings) : Delete(i)
    \/ ToggleSandbox

-------------------------------------------------------------------------------
(***************************************************************************)
(* Targeting's calls: a route arms a replay for a shop or menu it comes    *)
(* to, opens the menu itself, or cancels.                                  *)
(***************************************************************************)
TargetingFrame ==
    /\ "Targeting" \in Features
    /\ Idle
    /\ ~sceneTransitionActive
    /\ UNCHANGED <<otherInputVars, auxVars, shopOpen, shopTransitionBlocked,
                   auxShopVars, bondVars, sceneTransitionActive>>

\* ArmShopPlayback, ArmMainMenuPlayback, ArmTravelMenuPlayback.
ArmNamedPlayback(i) ==
    /\ ArmPlayback(i)
    /\ UNCHANGED <<mainMenuVars, travelMenuOpen, openCall>>
    /\ TargetingFrame

\* StartMainMenuPlayback and StartTravelMenuPlayback up to the native
\* createOpenMenu2, itself hooked: OnMenuOpening or OnTravelOpening.  A replay
\* that begins at once needs no menu.
StartMenuPlayback(i) ==
    LET kind == recordings[i].kind IN
    /\ kind # "Shop"
    /\ ArmPlayback(i)
    /\ IF MenuIsReadyFor(kind)
       THEN UNCHANGED <<mainMenuVars, travelMenuOpen, openCall>>
       ELSE IF kind = "Menu"
       THEN OnMenuOpening /\ openCall' = "HelperMenu" /\ UNCHANGED travelMenuOpen
       ELSE travelMenuOpen' = FALSE /\ openCall' = "HelperTravel"
            /\ UNCHANGED mainMenuVars
    /\ TargetingFrame

CancelActivePlayback ==
    /\ state = "ArmedPlayback" \/ IsPlaybackActive
    /\ StopPlayback("Cancelled")
    /\ UNCHANGED <<activeKind, draftVars, sandboxVars, mainMenuVars,
                   travelMenuOpen, openCall>>
    /\ TargetingFrame

Targeting ==
    \/ \E i \in 1..Len(recordings) : ArmNamedPlayback(i) \/ StartMenuPlayback(i)
    \/ CancelActivePlayback

-------------------------------------------------------------------------------
(***************************************************************************)
(* Update: once per frame, except in scene transitions.                    *)
(***************************************************************************)

\* The one place that refills the slot while a replay runs.
QueueNextPlaybackAction ==
    IF \/ state # "Playing"
       \/ PlaybackActionPending
       \/ ShopBlocks(activeKind, shopTransitionBlocked)
    THEN UNCHANGED <<state, slotVars>>
    ELSE /\ state' = StateAfterQueueing(playbackActions, playbackIndex)
         /\ IF playbackIndex < Len(playbackActions)
            THEN SetPlaybackAction(NextAction(playbackActions, playbackIndex))
            ELSE UNCHANGED slotVars

FrameWithReplay ==
    /\ IF playbackNeutralFrames > 0
       THEN /\ playbackNeutralFrames' = playbackNeutralFrames - 1
            /\ UNCHANGED <<state, slotVars>>
       ELSE QueueNextPlaybackAction /\ UNCHANGED playbackNeutralFrames
    /\ UNCHANGED <<captureVars, activeUiPadDataValid, offerVars, playbackActions,
                   playbackRecording, playbackIndex, delivered>>

\* "abort" says whether P1 holds L + R + Plus.
Update(abort) ==
    /\ Idle
    /\ ~sceneTransitionActive
    /\ AdvanceFrameIndex
    /\ lastRecordedAction' = NoAction
    /\ IF IsPlaybackActive /\ abort
       THEN StopPlayback("Cancelled")
       ELSE /\ sinceDelivery' = IF sinceDelivery < 2 THEN sinceDelivery + 1 ELSE 2
            /\ IF IsPlaybackActive
               THEN FrameWithReplay
               ELSE UNCHANGED <<state, playbackActions, playbackRecording,
                               playbackIndex, playbackNeutralFrames, delivered,
                               captureVars, activeUiPadDataValid, slotVars, offerVars>>
    /\ UNCHANGED <<activeKind, recordings, draftActions, otherInputVars, menuVars,
                   auxShopVars, bondVars, sandboxVars, gameVars>>

-------------------------------------------------------------------------------
(***************************************************************************)
(* InputBuffer's hooks, with MenuHelper's callbacks.                       *)
(***************************************************************************)
HelperFrame == UNCHANGED <<menuVars, auxShopVars, bondVars, sandboxVars, gameVars>>

LayerRegistered(layer, handle) ==
    /\ RegisterInputLayer(layer, handle)
    /\ UNCHANGED <<buttonVars, inputLayerPadCaptureActive, activeUiPadData,
                   scriptedVars, autoUiVars, auxVars, controlVars>>
    /\ HelperFrame

LayerReleased(handle) ==
    /\ ReleaseInputLayer(handle)
    /\ UNCHANGED <<buttonVars, inputLayerPadCaptureActive, activeUiPadData,
                   scriptedVars, autoUiVars, auxVars, controlVars>>
    /\ HelperFrame

\* OnInputLayerUpdating, before the update: the Aux Core list is ready.
AuxCoreListReady(layer) ==
    /\ auxCoreShopWaitingForInput
    /\ auxCoreListInputHandle # 0
    /\ InputLayerHandle(layer) = auxCoreListInputHandle

\* OnAuxCoreShopInputReady.
OnAuxCoreShopInputReady ==
    /\ auxCoreShopWaitingForInput' = FALSE
    /\ auxCoreListInputHandle' = 0
    /\ shopOpen' = TRUE
    /\ BeginActiveSession("Shop", shopTransitionBlocked, TRUE)
    /\ UNCHANGED auxCoreShopSession

LayerUpdateBegins(layer) ==
    /\ UIInputLayerUpdateBegin(layer)
    /\ IF AuxCoreListReady(layer)
       THEN OnAuxCoreShopInputReady
       ELSE UNCHANGED <<auxShopVars, shopOpen, sessionVars, draftVars, captureVars,
                        slotVars>>
    /\ UNCHANGED <<buttonVars, inputLayerPadCaptureActive, auxVars,
                   shopTransitionBlocked, mainMenuVars, travelMenuOpen, bondVars,
                   sandboxVars, gameVars>>

LayerUpdateEnds(out) ==
    /\ UIInputLayerUpdateEnd(out)
    /\ OnAcceptedAction(PhysicalAcceptance(updatingInputLayer, out),
                        LayerServesPlayback(updatingInputLayer, out), FALSE)
    /\ HelperFrame

PadDataIsRead(words, enabled) ==
    /\ UIUtilGetPadData(words, enabled)
    /\ UNCHANGED <<sessionVars, draftVars>>
    /\ HelperFrame

RelayChecks(d, enabled) ==
    /\ PadRelayCheckAction(d, enabled)
    /\ OnAcceptedAction({}, RelayServesPlayback(d, enabled), FALSE)
    /\ HelperFrame

InputBufferHooks ==
    \/ \E pair \in RegisterPairs : LayerRegistered(pair[1], pair[2])
    \/ \E pair \in RegisterPairs : LayerReleased(pair[2])
    \/ \E layer \in Layer : LayerUpdateBegins(layer)
    \/ \E out \in LayerOutcome : LayerUpdateEnds(out)
    \/ \E words \in PadWords, enabled \in EnabledMasks : PadDataIsRead(words, enabled)
    \/ \E d \in Descriptor, enabled \in BOOLEAN : RelayChecks(d, enabled)

\* What the name box holds, and whether SaveRecordings succeeds.
SaveInputs == (Name \cup {EmptyName}) \X BOOLEAN

GameHooks ==
    \/ \E initializing \in BOOLEAN : ShopOpens(initializing)
    \/ \E save \in SaveInputs : ShopCloses(save[1], save[2])
    \/ MenuInputDisabled
    \/ MenuInputEnabled
    \/ AuxCoreShopOpening
    \/ \E handle \in Handle : AuxCoreListInputEnabled(handle)
    \/ \E kind \in {"shown", "opening", "closed"}, object \in Object :
          AuxRecipeEvent(kind, object)
    \/ \E object \in Object : AuxAmountInput(object)
    \/ \E menu \in Kind : MainMenuCreateBegin(menu)
    \/ MainMenuCreated
    \/ \E save \in SaveInputs : MainMenuNotCreated(save[1], save[2])
    \/ \E save \in SaveInputs : MainMenuSequenceEnds(save[1], save[2])
    \/ TravelButtonOpen
    \/ TutorialBladeBondRequested
    \/ TutorialBladeBondInitialized
    \/ TutorialBladeBondInputReady
    \/ \E save \in SaveInputs : TutorialBladeBondFinalized(save[1], save[2])
    \/ \E built \in BOOLEAN : DataStoreChanges(built)
    \/ SceneTransitionBegins
    \/ SceneTransitionEnds

Next ==
    \/ InputBufferHooks
    \/ GameHooks
    \/ Window
    \/ Targeting
    \/ \E abort \in BOOLEAN : Update(abort)

Spec == Init /\ [][Next]_vars

-------------------------------------------------------------------------------
(***************************************************************************)
(* Safety.                                                                 *)
(***************************************************************************)

\* The player's pad is taken over exactly while a replay runs: however a
\* replay ends (menu closed, stopped, aborted, re-armed, scene change), the
\* override that blanks P1 ends with it.
OverrideOnlyWhilePlaying == playbackOverrideActive <=> IsPlaybackActive

\* A recording session can hear the game: whatever happened since it began,
\* the accepted-action capture is on.
RecordingHasCapture == state = "Recording" => acceptedActionCaptureActive

\* What the game has accepted of a replay is exactly the counted prefix of
\* the recording: nothing lost, repeated, reordered or left uncounted.
DeliveredInOrder ==
    state = "ArmedPlayback" \/ IsPlaybackActive =>
        delivered = SubSeq(playbackActions, 1, playbackIndex)

\* The one pending action is the next one of the recording, so that neither a
\* late acceptance nor a restarted session can be counted for another input.
SlotIsNextAction ==
    playbackAction # NoAction =>
        /\ state = "Playing"
        /\ playbackIndex < Len(playbackActions)
        /\ playbackAction = NextAction(playbackActions, playbackIndex)

\* Sandbox data is never in use without the option that refuses saves (the
\* save hooks test both), nor after the store it stands in for was rebuilt or
\* destroyed.
SandboxIsRefusedAndBacked == sandboxDataActive => IsSandboxDataActive /\ dataStoreBuilt

\* A replay is what Replay promises: every step of the helper, the input layer
\* and the game is a step of the abstract replay or leaves it alone.
Abstract == INSTANCE Replay WITH
    Action <- AcceptedAction,
    phase <- IF state = "ArmedPlayback" THEN "armed"
             ELSE IF IsPlaybackActive THEN "running" ELSE "idle",
    script <- IF state = "ArmedPlayback" \/ IsPlaybackActive
              THEN playbackActions ELSE <<>>,
    out <- IF state = "ArmedPlayback" \/ IsPlaybackActive
           THEN delivered ELSE <<>>

ImplementsReplay == Abstract!Spec

\* An input the game has just taken is released for at least one full frame
\* before the same input (in a travel menu: any input) is pressed again, or
\* the game would see one long press.
RepeatedInputIsReleased ==
    [][    /\ playbackAction = NoAction /\ playbackAction' # NoAction
           /\ delivered # <<>> /\ delivered' = delivered
           /\ activeKind = "Travel" \/ Last(delivered).input = playbackAction'.input
        => sinceDelivery >= 1]_vars

Delivers == Len(delivered') = Len(delivered) + 1

\* In a shop or travel menu a UI action is accepted only by an update of the
\* layer it was recorded on ("InputBuffer exposes it only from the exact
\* stable input-layer handle"), the amount widget of the Aux Core excepted.
LayeredActionsReachTheirLayer ==
    [][    /\ Delivers
           /\ playbackMode # "StandardMenu"
           /\ IsUiPadAction(playbackAction)
           /\ ~auxCoreAmountMenuActive'
        => InputLayerHandle(updatingInputLayer) = playbackAction.layer]_vars

\* Once the amount widget has accepted an input, the rest of the sequence is
\* accepted by layers alone: a relay sees the buttons of the following
\* screens before those screens can take them.
AuxSequenceStaysOnLayers ==
    [][    /\ Delivers
           /\ auxCoreNativeAcceptanceActive
           /\ IsUiPadAction(playbackAction)
           /\ playbackAction.input.mask \cap LrButtonMask = {}
        => Len(layerStack') < Len(layerStack)]_vars

\* A recorded draft is not lost by closing a menu, replaying, reloading or a
\* scene change: it goes only into a saved recording, or when the player (or
\* the Aux Core shop inside the shop) starts the recording over.
DraftIsKept ==
    [][draftActions # <<>> /\ draftActions' = <<>> =>
          \/ state' = "ArmedRecord"
          \/ \E i \in 1..Len(recordings') : recordings'[i].actions = draftActions]_vars

\* "ShopTAS is explicitly armed for the next shop": only a shop that opens, or
\* the player's and Targeting's own commands, consume an armed shop replay.
ArmedShopReplaySurvives ==
    [][    /\ state = "ArmedPlayback" /\ activeKind = "Shop"
           /\ state' # "ArmedPlayback" \/ activeKind' # "Shop"
           /\ ~shopOpen'
        => Window \/ Targeting]_vars

-------------------------------------------------------------------------------
(***************************************************************************)
(* Liveness.  The framework's main loop comes around: native calls return  *)
(* and scene transitions end, again and again.  Each time it updates the   *)
(* modules.  An open menu keeps asking for the button it is waiting for.   *)
(***************************************************************************)
Fairness ==
    /\ []<>(Idle /\ ~sceneTransitionActive)
    /\ SF_vars(Update(FALSE))
    /\ SF_vars(\E d \in Descriptor :
                  RelayChecks(d, TRUE) /\ RelayServesPlayback(d, TRUE))

FairSpec == Spec /\ Fairness

\* A running menu replay gets past each of its inputs, or is stopped: the slot
\* is refilled after every acceptance, and the neutral frames run out.
ReplayAdvances ==
    \A i \in 0..MaxActions :
        (activeKind = "Menu" /\ state = "Playing" /\ playbackIndex = i)
            ~> (activeKind # "Menu" \/ state # "Playing" \/ playbackIndex # i)

-------------------------------------------------------------------------------
(***************************************************************************)
(* What a comment or a text of the user interface says, and the code does  *)
(* not do.                                                                 *)
(***************************************************************************)

\* ArmPlayback: when "the open callback has already run", "begin playback here
\* instead of waiting for another open".
ArmingInOpenShopBegins ==
    [][\A i \in 1..Len(recordings) :
              /\ ArmNamedPlayback(i)
              /\ recordings[i].kind = "Shop"
              /\ shopOpen /\ ~auxCoreShopWaitingForInput
           => state' # "ArmedPlayback"]_vars

================================================================================
