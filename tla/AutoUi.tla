--------------------------------- MODULE AutoUi ---------------------------------
(***************************************************************************)
(* src/xenomods/modules/AutoTutorials.cpp and AutoCutsceneSkips.cpp, the   *)
(* two modules that press A by themselves, on top of InputBuffer's single  *)
(* automatic-action slot:                                                  *)
(*   - tutorial popups of four families ask for A on the object that owns  *)
(*     their listener, as long as they are shown;                          *)
(*   - a cutscene gets + from its pad poll, and then exactly one A on the  *)
(*     confirmation menu, six native frames after + was accepted.          *)
(*                                                                         *)
(* The game: UI callbacks (initialize, finalize, listener events) come at  *)
(* any time, also from inside a native layer update; the event system, the *)
(* tutorial objects' update and the windows run between layer updates.     *)
(* One menu of a family is alive at a time.  A menu's native initialize    *)
(* registers its listener or does not; listener events carry the object    *)
(* that owns the listener or that of an animation child.  A layer's        *)
(* enabled entries stay what they are during its update.                   *)
(*                                                                         *)
(* Abstractions.  What only the trace shows is left out.  Of the native    *)
(* clock only the distance from the accepted + is kept, as far as it is    *)
(* compared with anything.                                                 *)
(***************************************************************************)
EXTENDS InputBuffer

CONSTANTS
    AButton,        \* UiAButtonMask and AButtonMask
    TutorialMenu,   \* tutorial menu objects
    NoMenu,         \* the null menu
    FamilyOf,       \* the family of a menu
    OwnerOf,        \* the object its listener is registered against
    SendersOf,      \* the objects its listener events may carry
    SkipSenders,    \* the objects the confirmation's listener events carry
    MaxSnapshots,   \* 64 in the code
    Features        \* the parts in play, a part of AllFeatures

Family == {"Standard", "Dummy", "Battle", "Tips"}

AllFeatures == {"Cutscene", "Trace", "SceneTransition"}

ASSUME AutoUiAssumption ==
    /\ AButton \in Bit
    /\ NoMenu \notin TutorialMenu
    /\ FamilyOf \in [TutorialMenu -> Family]
    /\ OwnerOf \in [TutorialMenu -> Object]
    /\ SendersOf \in [TutorialMenu -> SUBSET (Object \cup {0})]
    /\ SkipSenders \subseteq Object
    /\ MaxSnapshots \in Nat
    /\ Features \subseteq AllFeatures

ConfirmationDelayFrames == 6

PlaybackPhase == {"Idle", "WaitingForPlusAcceptance", "WaitingForAFrame",
                  "AQueued", "Finished"}

\* TutorialRuntime and its default value.
Runtime == [menu : TutorialMenu \cup {NoMenu}, sender : Object \cup {0},
            advanceArmed : BOOLEAN, observedBusy : BOOLEAN]
EmptyRuntime ==
    [menu |-> NoMenu, sender |-> 0, advanceArmed |-> TRUE, observedBusy |-> FALSE]

VARIABLES
    tutorialsEnabled,        \* AutoTutorials::Enabled
    runtime,                 \* the TutorialRuntime of each family
    liveMenus,               \* tutorial menus the game has initialized
    skipsEnabled,            \* AutoCutsceneSkips::Enabled
    phase,
    cutsceneActive,
    aAttemptInProgress,
    aAttemptObserved,
    sincePlus,               \* nativeFrame - plusAcceptedFrame while A is due
    confirmationMenu,        \* the live confirmation menu is known
    confirmationObject,
    skipMenuLive,            \* the game has a confirmation menu
    traceRunning,
    profilerCaptureEnabled,
    layerSnapshots,          \* layers with an entry in the table
    enabledStack             \* what each layer in layerStack has enabled

tutorialVars == <<tutorialsEnabled, runtime>>
attemptVars == <<phase, cutsceneActive, aAttemptInProgress, aAttemptObserved,
                 sincePlus>>
confirmationVars == <<confirmationMenu, confirmationObject>>
skipVars == <<skipsEnabled, attemptVars, confirmationVars>>
traceVars == <<traceRunning, layerSnapshots, inputLayerPadCaptureActive, padVars>>
gameVars == <<liveMenus, skipMenuLive>>

\* InputBuffer state that no handler below touches.
otherInputVars == <<buttonVars, captureVars, slotVars, offerVars, scriptedVars,
                    layerVars, auxVars>>

vars == <<ibVars, tutorialVars, skipVars, traceRunning, layerSnapshots,
          profilerCaptureEnabled, gameVars, enabledStack>>

\* The type invariant of both modules and the InputBuffer below them.
TypeOK ==
    /\ InputBufferTypeOK
    /\ tutorialsEnabled \in BOOLEAN
    /\ runtime \in [Family -> Runtime]
    /\ liveMenus \subseteq TutorialMenu
    /\ skipsEnabled \in BOOLEAN
    /\ phase \in PlaybackPhase
    /\ cutsceneActive \in BOOLEAN
    /\ aAttemptInProgress \in BOOLEAN
    /\ aAttemptObserved \in BOOLEAN
    /\ sincePlus \in 0..ConfirmationDelayFrames + 1
    /\ confirmationMenu \in BOOLEAN
    /\ confirmationObject \in Object \cup {0}
    /\ skipMenuLive \in BOOLEAN
    /\ traceRunning \in BOOLEAN
    /\ profilerCaptureEnabled \in BOOLEAN
    /\ layerSnapshots \subseteq Layer
    /\ enabledStack \in Seq(SUBSET Bit)
    /\ Len(enabledStack) = Len(layerStack)

\* The settings file decides what is enabled at start.
Init ==
    /\ InputBufferInit
    /\ tutorialsEnabled \in BOOLEAN
    /\ runtime = [f \in Family |-> EmptyRuntime]
    /\ liveMenus = {}
    /\ skipsEnabled \in BOOLEAN
    /\ phase = "Idle"
    /\ cutsceneActive = FALSE
    /\ aAttemptInProgress = FALSE
    /\ aAttemptObserved = FALSE
    /\ sincePlus = 0
    /\ confirmationMenu = FALSE
    /\ confirmationObject = 0
    /\ skipMenuLive = FALSE
    /\ traceRunning = FALSE
    /\ profilerCaptureEnabled = TRUE
    /\ layerSnapshots = {}
    /\ enabledStack = <<>>

OutsideLayers == layerStack = <<>>

-------------------------------------------------------------------------------
(***************************************************************************)
(* Auto Tutorials.                                                         *)
(***************************************************************************)

\* What the handlers below leave alone.
TutorialFrame ==
    UNCHANGED <<otherInputVars, skipVars, traceVars, profilerCaptureEnabled,
                skipMenuLive, enabledStack>>

RuntimeOf(menu) == runtime[FamilyOf[menu]]

\* BeginTutorial, and the sender that the registration of the menu's listener
\* brings, if the native initialize makes one.
BeginTutorial(menu) == [EmptyRuntime EXCEPT !.menu = menu]

ObserveRegisteredListener(old, sender) == [old EXCEPT !.sender = sender]

\* The initialize hook.  An automatic action for the family's last menu is not
\* cancelled.
TutorialInitializes(menu, registers) ==
    /\ \A other \in liveMenus : FamilyOf[other] # FamilyOf[menu]
    /\ runtime' = [runtime EXCEPT ![FamilyOf[menu]] =
                      IF registers
                      THEN ObserveRegisteredListener(BeginTutorial(menu), OwnerOf[menu])
                      ELSE BeginTutorial(menu)]
    /\ liveMenus' = liveMenus \cup {menu}
    /\ UNCHANGED <<autoUiVars, tutorialsEnabled>>
    /\ TutorialFrame

\* Mutant: the popup's pending action outlives it.
EndTutorialKeepsAction(menu) ==
    /\ IF RuntimeOf(menu).menu = menu
       THEN runtime' = [runtime EXCEPT ![FamilyOf[menu]] = EmptyRuntime]
       ELSE UNCHANGED runtime
    /\ UNCHANGED autoUiVars

\* EndTutorial: cancel the action of the runtime's sender; a sender of 0
\* cancels whoever's action is pending.
EndTutorial(menu) ==
    IF RuntimeOf(menu).menu = menu
    THEN /\ CancelAutoUiAction(RuntimeOf(menu).sender)
         /\ runtime' = [runtime EXCEPT ![FamilyOf[menu]] = EmptyRuntime]
    ELSE UNCHANGED <<autoUiVars, runtime>>

TutorialFinalizes(menu) ==
    /\ menu \in liveMenus
    /\ EndTutorial(menu)
    /\ liveMenus' = liveMenus \ {menu}
    /\ UNCHANGED tutorialsEnabled
    /\ TutorialFrame

\* Listener events: 0x104, the rest of 0x101..0x105, 0x22, any other.
TutorialEvent == {"start", "done", "close", "other"}

\* The start of a popup, seen before the native listener.
RestartsStandard(menu, event, sender) ==
    FamilyOf[menu] = "Standard" /\ event = "start" /\ sender # 0

\* The rest of ObserveListener on the runtime of the listener's own menu:
\* adopt a sender, and re-arm on completion when no sequence is running.
Observed(old, event, sender, idle) ==
    [old EXCEPT
        !.sender = IF @ = 0 THEN sender ELSE @,
        !.advanceArmed = @ \/ (event \in {"start", "done"} /\ idle),
        !.observedBusy = @ /\ ~(event \in {"start", "done"} /\ idle)]

\* A listener event with ObserveListener before and after the native handler.
\* "idle" says whether the menu's sequence count is zero at one of the two.
TutorialListener(menu, event, sender, idle) ==
    LET f == FamilyOf[menu]
        new == ObserveRegisteredListener(BeginTutorial(menu), sender)
    IN
    /\ menu \in liveMenus
    /\ f = "Dummy" => idle
    /\ IF RestartsStandard(menu, event, sender)
       THEN /\ CancelAutoUiAction(runtime[f].sender)
            /\ runtime' = [runtime EXCEPT ![f] = new]
       ELSE IF runtime[f].menu # menu
       THEN UNCHANGED <<autoUiVars, runtime>>
       ELSE IF f = "Standard" /\ event = "close"
       THEN /\ CancelAutoUiAction(Observed(runtime[f], event, sender, idle).sender)
            /\ runtime' = [runtime EXCEPT ![f] = EmptyRuntime]
       ELSE /\ runtime' = [runtime EXCEPT ![f] = Observed(@, event, sender, idle)]
            /\ UNCHANGED autoUiVars
    /\ UNCHANGED <<liveMenus, tutorialsEnabled>>
    /\ TutorialFrame

\* The runtime after AdvanceIfReady has looked at the sequence count.
AfterLook(old, busy) ==
    IF old.advanceArmed THEN old
    ELSE IF busy THEN [old EXCEPT !.observedBusy = TRUE]
    ELSE [old EXCEPT !.advanceArmed = old.observedBusy, !.observedBusy = FALSE]

\* The update hook (AdvanceIfReady): the standard popup asks at every update,
\* the others when armed and not busy.
TutorialUpdates(menu, busy) ==
    LET f == FamilyOf[menu]
        looked == IF f = "Standard" THEN runtime[f] ELSE AfterLook(runtime[f], busy)
        asks == f = "Standard" \/ (looked.advanceArmed /\ ~busy)
    IN
    /\ menu \in liveMenus
    /\ OutsideLayers
    /\ f = "Dummy" => ~busy
    /\ tutorialsEnabled
    /\ runtime[f].menu = menu
    /\ runtime[f].sender # 0
    /\ runtime' = [runtime EXCEPT ![f] = looked]
    /\ IF asks
       THEN RequestAutoUiAction(runtime[f].sender, {AButton})
       ELSE UNCHANGED autoUiActionVars
    /\ UNCHANGED <<autoUiActionOffered, liveMenus, tutorialsEnabled>>
    /\ TutorialFrame

\* OnAutoUiActionAccepted disarms the first family whose popup was pressed.
FamilyOrder == <<"Standard", "Dummy", "Battle", "Tips">>

Disarmed(object) ==
    LET pressed == {i \in 1..4 : /\ runtime[FamilyOrder[i]].menu # NoMenu
                                 /\ runtime[FamilyOrder[i]].sender = object}
    IN  IF pressed = {} THEN runtime
        ELSE [runtime EXCEPT ![FamilyOrder[FirstSlot(pressed)]] =
                 [@ EXCEPT !.advanceArmed = FALSE, !.observedBusy = FALSE]]

\* ClearRuntimeState, from the checkbox.
ToggleTutorials ==
    /\ OutsideLayers
    /\ tutorialsEnabled' = ~tutorialsEnabled
    /\ runtime' = [f \in Family |-> EmptyRuntime]
    /\ CancelAutoUiAction(0)
    /\ UNCHANGED liveMenus
    /\ TutorialFrame


-------------------------------------------------------------------------------
(***************************************************************************)
(* The trace of Auto Cutscene Skips, as far as it reaches the rest: the    *)
(* table of layer snapshots, which the attempt needs, and InputBuffer's    *)
(* pad capture.                                                            *)
(***************************************************************************)
StartTrace(starts) ==
    IF starts /\ profilerCaptureEnabled
    THEN /\ traceRunning' = TRUE
         /\ layerSnapshots' = {}
         /\ SetInputLayerPadCapture(TRUE)
    ELSE UNCHANGED traceVars

FinishTrace(finishes) ==
    IF finishes /\ traceRunning
    THEN /\ traceRunning' = FALSE
         /\ SetInputLayerPadCapture(FALSE)
         /\ UNCHANGED layerSnapshots
    ELSE UNCHANGED traceVars

\* FinishTrace and StartTrace in a row.
RestartTrace ==
    /\ traceRunning' = profilerCaptureEnabled
    /\ layerSnapshots' = IF profilerCaptureEnabled THEN {} ELSE layerSnapshots
    /\ inputLayerPadCaptureActive' =
          (profilerCaptureEnabled \/ (inputLayerPadCaptureActive /\ ~traceRunning))
    /\ activeUiPadDataValid' = (activeUiPadDataValid /\ ~traceRunning)
    /\ UNCHANGED activeUiPadData

-------------------------------------------------------------------------------
(***************************************************************************)
(* Auto Cutscene Skips.                                                    *)
(***************************************************************************)

\* What the event system's hooks leave alone.
SkipFrame == UNCHANGED <<otherInputVars, tutorialVars, liveMenus, enabledStack>>

\* The attempt is over.
Finish(next) ==
    /\ phase' = next
    /\ aAttemptInProgress' = FALSE
    /\ sincePlus' = 0

CancelConfirmation ==
    IF confirmationObject # 0
    THEN CancelAutoUiAction(confirmationObject)
    ELSE UNCHANGED autoUiVars

\* ResetPlaybackOnly; BeginCutscene goes on to set the phase and the flag.
ResetPlaybackTo(next, active) ==
    /\ CancelConfirmation
    /\ Finish(next)
    /\ cutsceneActive' = active
    /\ aAttemptObserved' = FALSE
    /\ confirmationMenu' = FALSE
    /\ confirmationObject' = 0

ResetPlaybackOnly == ResetPlaybackTo("Idle", FALSE)

\* The startScene hook: reset, build the scene, BeginCutscene.
StartScene ==
    /\ OutsideLayers
    /\ ResetPlaybackTo(IF skipsEnabled THEN "WaitingForPlusAcceptance" ELSE "Idle",
                       TRUE)
    /\ RestartTrace
    /\ UNCHANGED <<skipsEnabled, profilerCaptureEnabled, skipMenuLive>>
    /\ SkipFrame

\* The SeqManager::end and GfGameEvent::finalize hooks.
EndScene ==
    /\ OutsideLayers
    /\ \/ FinishTrace(TRUE)
       \/ FinishTrace(cutsceneActive)
    /\ ResetPlaybackOnly
    /\ UNCHANGED <<skipsEnabled, profilerCaptureEnabled, skipMenuLive>>
    /\ SkipFrame

AttemptPhases == {"WaitingForAFrame", "AQueued"}

\* FrameManagerUpdateHook: the native clock runs while a cutscene is active.
FrameManagerUpdate ==
    /\ OutsideLayers
    /\ traceRunning \/ cutsceneActive
    /\ phase \in AttemptPhases
    /\ sincePlus <= ConfirmationDelayFrames
    /\ sincePlus' = sincePlus + 1
    /\ UNCHANGED <<autoUiVars, skipsEnabled, phase, cutsceneActive,
                   aAttemptInProgress, aAttemptObserved, confirmationVars,
                   traceVars, profilerCaptureEnabled, skipMenuLive>>
    /\ SkipFrame

\* The pad poll, the confirmation's open and its initialize start a trace; the
\* + that the poll adds for a waiting cutscene is the game's to accept.
TraceStarts ==
    /\ "Trace" \in Features
    /\ StartTrace(~traceRunning)
    /\ UNCHANGED <<autoUiVars, skipVars, profilerCaptureEnabled, skipMenuLive>>
    /\ SkipFrame

\* UIManager::openSkip, the first acceptance of a +, the player's or ours.
OpenSkip ==
    /\ cutsceneActive
    /\ OutsideLayers
    /\ StartTrace(~traceRunning)
    /\ IF phase = "WaitingForPlusAcceptance"
       THEN phase' = "WaitingForAFrame" /\ sincePlus' = 0
       ELSE UNCHANGED <<phase, sincePlus>>
    /\ UNCHANGED <<autoUiVars, skipsEnabled, cutsceneActive, aAttemptInProgress,
                   aAttemptObserved, confirmationVars, profilerCaptureEnabled,
                   skipMenuLive>>
    /\ SkipFrame

\* Mutant: an attempt whose A was queued is not declared missed.
MissesOnlyUnqueued ==
    /\ skipsEnabled /\ cutsceneActive
    /\ phase = "WaitingForAFrame"
    /\ sincePlus > ConfirmationDelayFrames

\* GameEventUpdateHook, before the native update: past N+6 the one attempt is
\* declared missed.
DeclaresMiss ==
    /\ skipsEnabled /\ cutsceneActive
    /\ phase = "WaitingForAFrame" \/ (phase = "AQueued" /\ ~aAttemptObserved)
    /\ sincePlus > ConfirmationDelayFrames

GameEventUpdate ==
    /\ OutsideLayers
    /\ DeclaresMiss
    /\ CancelAutoUiAction(confirmationObject)
    /\ Finish("Finished")
    /\ UNCHANGED <<skipsEnabled, cutsceneActive, aAttemptObserved, confirmationVars,
                   traceVars, profilerCaptureEnabled, skipMenuLive>>
    /\ SkipFrame

\* The confirmation menu: initialize, finalize and its listener.
EventSkipInitializes ==
    /\ ~skipMenuLive
    /\ skipMenuLive' = TRUE
    /\ confirmationMenu' = TRUE
    /\ StartTrace(~traceRunning)
    /\ UNCHANGED <<autoUiVars, skipsEnabled, attemptVars, confirmationObject,
                   profilerCaptureEnabled>>
    /\ SkipFrame

EventSkipFinalizes ==
    /\ skipMenuLive
    /\ skipMenuLive' = FALSE
    /\ IF confirmationMenu
       THEN /\ CancelConfirmation
            /\ confirmationMenu' = FALSE
            /\ confirmationObject' = 0
       ELSE UNCHANGED <<autoUiVars, confirmationVars>>
    /\ UNCHANGED <<skipsEnabled, attemptVars, traceVars, profilerCaptureEnabled>>
    /\ SkipFrame

EventSkipListener(sender) ==
    /\ skipMenuLive
    /\ confirmationObject' = sender
    /\ UNCHANGED <<autoUiVars, skipsEnabled, attemptVars, confirmationMenu, traceVars,
                   profilerCaptureEnabled, skipMenuLive>>
    /\ SkipFrame

\* SetEnabled, from the checkbox or a route of Targeting.
SetSkipsEnabled ==
    /\ OutsideLayers
    /\ skipsEnabled' = ~skipsEnabled
    /\ IF skipsEnabled
       THEN /\ Finish(IF cutsceneActive THEN "Finished" ELSE "Idle")
            /\ CancelConfirmation
       ELSE /\ phase' = IF cutsceneActive THEN "WaitingForPlusAcceptance" ELSE phase
            /\ UNCHANGED <<autoUiVars, aAttemptInProgress, sincePlus>>
    /\ UNCHANGED <<cutsceneActive, aAttemptObserved, confirmationVars, traceVars,
                   profilerCaptureEnabled, skipMenuLive>>
    /\ SkipFrame

\* The profiler's window: Capture, Restart now, Clear (which stops the trace
\* and leaves the pad capture on).
ProfilerWindow ==
    /\ "Trace" \in Features
    /\ OutsideLayers
    /\ \/ /\ profilerCaptureEnabled' = ~profilerCaptureEnabled
          /\ FinishTrace(profilerCaptureEnabled)
       \/ /\ StartTrace(cutsceneActive)
          /\ UNCHANGED profilerCaptureEnabled
       \/ /\ traceRunning' = FALSE
          /\ UNCHANGED <<layerSnapshots, inputLayerPadCaptureActive, padVars,
                         profilerCaptureEnabled>>
    /\ UNCHANGED <<autoUiVars, skipVars, skipMenuLive>>
    /\ SkipFrame

-------------------------------------------------------------------------------
(***************************************************************************)
(* InputBuffer's hooks, with the callbacks of both modules.                *)
(***************************************************************************)
LayerFrame ==
    UNCHANGED <<tutorialsEnabled, skipsEnabled, cutsceneActive, sincePlus,
                confirmationVars, traceRunning, profilerCaptureEnabled, gameVars>>

EnabledHere == Last(enabledStack)

\* OnInputLayerUpdate looks at a layer when an attempt is due, if it exposes A
\* or is the confirmation's, and the table (SnapshotFor) has an entry for it.
LooksAt(layer, enabled) ==
    /\ phase = "WaitingForAFrame" \/ aAttemptInProgress
    /\ AButton \in enabled \/ ObjectOf[layer] = confirmationObject
    /\ layer \in layerSnapshots \/ Cardinality(layerSnapshots) < MaxSnapshots

ConfirmationIsDue(layer, enabled) ==
    /\ skipsEnabled /\ cutsceneActive
    /\ phase = "WaitingForAFrame"
    /\ ObjectOf[layer] = confirmationObject
    /\ AButton \in enabled
    /\ sincePlus = ConfirmationDelayFrames

\* Before the native update: at N+6 the confirmation's own layer queues its A.
LayerUpdateBegins(layer, enabled) ==
    /\ EnterInputLayer(layer)
    /\ enabledStack' = Append(enabledStack, enabled)
    /\ IF LooksAt(layer, enabled) /\ ConfirmationIsDue(layer, enabled)
       THEN /\ phase' = "AQueued"
            /\ aAttemptInProgress' = TRUE
            /\ aAttemptObserved' = FALSE
            /\ RequestAutoUiAction(confirmationObject, {AButton})
       ELSE UNCHANGED <<phase, aAttemptInProgress, aAttemptObserved, autoUiActionVars>>
    /\ UNCHANGED <<buttonVars, captureVars, inputLayerPadCaptureActive, slotVars,
                   auxVars, runtime, layerSnapshots>>
    /\ LayerFrame

PadDataIsRead(words) ==
    /\ ~OutsideLayers
    /\ UIUtilGetPadData(words, EnabledHere)
    /\ UNCHANGED <<runtime, phase, aAttemptInProgress, aAttemptObserved,
                   layerSnapshots, enabledStack>>
    /\ LayerFrame

\* After the native update: the attempt is observed when the layer's word held A.
AttemptIsObserved(layer) ==
    /\ LooksAt(layer, EnabledHere)
    /\ aAttemptInProgress /\ ~aAttemptObserved
    /\ ObjectOf[layer] = confirmationObject
    /\ activeUiPadDataValid
    /\ AButton \in activeUiPadData

\* A rejected attempt is cancelled before the hook looks at the slot again, so
\* that nothing is left for it to do.
ObserveAttempt(layer, out) ==
    IF AttemptIsObserved(layer)
    THEN /\ Finish("Finished")
         /\ aAttemptObserved' = TRUE
         /\ IF out.accepted /\ out.confirmed
            THEN AutoUiAfterUpdate(layer, out)
            ELSE CancelAutoUiAction(confirmationObject)
    ELSE /\ UNCHANGED <<phase, aAttemptInProgress, aAttemptObserved, sincePlus>>
         /\ AutoUiAfterUpdate(layer, out)

LayerUpdateEnds(out) ==
    LET layer == updatingInputLayer IN
    /\ LeaveInputLayer(layer, out)
    /\ enabledStack' = Front(enabledStack)
    /\ ObserveAttempt(layer, out)
    /\ layerSnapshots' = IF LooksAt(layer, EnabledHere)
                         THEN layerSnapshots \cup {layer} ELSE layerSnapshots
    /\ runtime' = IF autoUiActionPhase = "Pending" /\ autoUiActionPhase' = "Neutral"
                  THEN Disarmed(ObjectOf[layer]) ELSE runtime
    /\ UNCHANGED <<tutorialsEnabled, skipsEnabled, cutsceneActive,
                   confirmationVars, traceRunning, profilerCaptureEnabled, gameVars>>

\* State.cpp tells every module: both clear their state.
SceneTransition ==
    /\ "SceneTransition" \in Features
    /\ OutsideLayers
    /\ runtime' = [f \in Family |-> EmptyRuntime]
    /\ CancelAutoUiAction(0)
    /\ FinishTrace(TRUE)
    /\ Finish("Idle")
    /\ cutsceneActive' = FALSE
    /\ aAttemptObserved' = FALSE
    /\ confirmationMenu' = FALSE
    /\ confirmationObject' = 0
    /\ UNCHANGED <<otherInputVars, tutorialsEnabled, skipsEnabled,
                   profilerCaptureEnabled, gameVars, enabledStack>>

-------------------------------------------------------------------------------
Tutorials ==
    \/ \E menu \in TutorialMenu, registers \in BOOLEAN :
          TutorialInitializes(menu, registers)
    \/ \E menu \in TutorialMenu : TutorialFinalizes(menu)
    \/ \E menu \in TutorialMenu, event \in TutorialEvent, idle \in BOOLEAN :
          \E sender \in SendersOf[menu] : TutorialListener(menu, event, sender, idle)
    \/ \E menu \in TutorialMenu, busy \in BOOLEAN : TutorialUpdates(menu, busy)
    \/ ToggleTutorials

Cutscenes ==
    /\ "Cutscene" \in Features
    /\ \/ StartScene
       \/ EndScene
       \/ OpenSkip
       \/ EventSkipInitializes
       \/ EventSkipFinalizes
       \/ \E sender \in SkipSenders : EventSkipListener(sender)
       \/ SetSkipsEnabled

Layers ==
    \/ \E layer \in Layer, enabled \in EnabledMasks : LayerUpdateBegins(layer, enabled)
    \/ \E words \in PadWords : PadDataIsRead(words)
    \/ \E out \in LayerOutcome : LayerUpdateEnds(out)

Next ==
    \/ Tutorials
    \/ Cutscenes
    \/ TraceStarts
    \/ ProfilerWindow
    \/ FrameManagerUpdate
    \/ GameEventUpdate
    \/ Layers
    \/ SceneTransition

Spec == Init /\ [][Next]_vars

\* Native layer updates return, and an active cutscene is updated: its clock
\* and its game event, each again and again.
Fairness ==
    /\ WF_vars(\E out \in LayerOutcome : LayerUpdateEnds(out))
    /\ SF_vars(FrameManagerUpdate)
    /\ SF_vars(GameEventUpdate)

FairSpec == Spec /\ Fairness

-------------------------------------------------------------------------------
(***************************************************************************)
(* Properties.                                                             *)
(***************************************************************************)

\* A popup that is still shown, with the option on, wants the action.
WantedByPopup ==
    /\ tutorialsEnabled
    /\ \E menu \in liveMenus :
          RuntimeOf(menu).menu = menu /\ RuntimeOf(menu).sender = autoUiActionObject

\* What the next property needs of the game: one layer update at a time, of layers
\* that take A, and one object that the confirmation's listener hears of.
ConfirmationSetting ==
    /\ MaxNesting <= 1
    /\ \A mask \in EnabledMasks : AButton \in mask
    /\ \A sender, other \in SkipSenders : sender = other

\* "No queued A can escape into field control": an action that waits to be
\* pressed belongs to a tutorial popup that is still shown, with the option
\* on, or to the running attempt on the confirmation menu.  Popups end in
\* five ways and attempts in nine, and either module may take the slot over.
PendingIsOwned ==
    autoUiActionPhase = "Pending" =>
        \/ WantedByPopup
        \/ /\ skipsEnabled /\ cutsceneActive
           /\ phase = "AQueued"
           /\ confirmationObject = autoUiActionObject

\* The same of the tutorials' own actions, whatever the game does: an action that
\* waits on an object which no event of a confirmation carries belongs to a popup
\* that is still shown, with the option on.
TutorialActionIsOwned ==
    autoUiActionPhase = "Pending" /\ autoUiActionObject \notin SkipSenders =>
        WantedByPopup

\* The attempt on the confirmation menu always comes to an end, pressed or
\* missed, whatever the menu, the tutorials and the player do in between.
AttemptEnds == phase \in AttemptPhases ~> phase \notin AttemptPhases

================================================================================
