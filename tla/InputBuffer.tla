------------------------------ MODULE InputBuffer ------------------------------
(***************************************************************************)
(* src/xenomods/InputBuffer.cpp: the layer between the game's pad readers  *)
(* and the mod.  Hooks on the pad getters, on UIInputLayer::update and on  *)
(* PadRelay::checkAction feed four clients from one set of globals:        *)
(*   - the player's own presses, buffered until a relay consumes them;     *)
(*   - the accepted-action capture that records a menu session;            *)
(*   - the playback override, one pending action at a time;                *)
(*   - scripted field actions and the single automatic UI action.          *)
(*                                                                         *)
(* Everything runs on the game thread.  The interleaving that matters is   *)
(* nesting: UIInputLayer::update is hooked around the native call, and     *)
(* while the native call runs the game may read the pad, check a relay,    *)
(* open or close a menu, or update another layer.  A layer update is       *)
(* therefore two actions, and layerStack holds the updates in progress.    *)
(*                                                                         *)
(* Button words are sets of bits.  Sticks are not modelled here.           *)
(***************************************************************************)
EXTENDS Naturals, SequencesExt

CONSTANTS
    Bit,                 \* the buttons of a pad word
    DirectionButtonMask, \* navigation bits
    LrButtonMask,        \* the L and R bits of a UI action
    TriggerButtonMask,   \* bits also served by relay types 0 and 4
    RelayType,           \* descriptor types seen by PadRelay, a part of 0..7
    Layer,               \* UIInputLayer objects
    NoLayer,             \* the null UIInputLayer
    Handle,              \* handles the UIInputManager gives to layers
    Object,              \* UI object ids
    ObjectOf,            \* the object a layer belongs to
    MaxRegistrations,    \* size of layerRegistrations (256 in the code)
    MaxNesting,          \* bound on layer updates in progress at once
    PadWords,            \* the pad words the player can hold
    EnabledMasks         \* what a layer's enabled entries can accept

ASSUME MasksAssumption ==
    /\ DirectionButtonMask \subseteq Bit
    /\ LrButtonMask \subseteq Bit
    /\ TriggerButtonMask \subseteq Bit

ASSUME RelayTypeAssumption == RelayType \subseteq 0..7

ASSUME LayerAssumption ==
    /\ NoLayer \notin Layer
    /\ Handle \subseteq Nat \ {0}
    /\ Object \subseteq Nat \ {0}
    /\ ObjectOf \in [Layer -> Object]

ASSUME BoundsAssumption ==
    /\ MaxRegistrations \in Nat
    /\ MaxNesting \in Nat
    /\ PadWords \subseteq SUBSET Bit
    /\ EnabledMasks \subseteq SUBSET Bit

-------------------------------------------------------------------------------
(***************************************************************************)
(* Actions.  The two top bits of an action's input word say whether it is  *)
(* a UI-pad mask, an encoded relay descriptor or a plain button mask.      *)
(***************************************************************************)
Input == [form : {"UiPad", "Encoded", "Pad"},
          type : RelayType \cup {0},
          mask : SUBSET Bit]

AcceptedAction == [input : Input, layer : Handle]

\* The zero input word, and the empty AcceptedAction.
NoInput == [form |-> "Pad", type |-> 0, mask |-> {}]
NoAction == [input |-> NoInput, layer |-> 0]

UiPadAction(mask, handle) ==
    [input |-> [form |-> "UiPad", type |-> 0, mask |-> mask], layer |-> handle]

IsUiPadAction(action) == action.input.form = "UiPad"

PlaybackModes == {"StandardMenu", "ShopMenuLayered", "TravelUiBuffered"}

AuxCoreAmountRepeatFrames == 3

-------------------------------------------------------------------------------
VARIABLES
    Enabled,                     \* physical buffering switched on
    buttonFrames,                \* bits whose press is still buffered
    physicalHeld,                \* P1's word at the last getBtn
    rawButtonOverrideActive,     \* a field action drives the raw pad
    acceptedActionCaptureActive,
    acceptedActionCaptureWaitingForNeutral,
    inputLayerPadCaptureActive,  \* a profiler wants pad snapshots
    activeUiPadData,             \* the word the updating layer was given
    activeUiPadDataValid,
    playbackOverrideActive,
    playbackMode,
    playbackAction,              \* the one pending action, or NoAction
    playbackUiActionOffered,
    playbackUiDirectActionOffered,
    scriptedBufferedMask,
    scriptedUiOfferedMask,
    autoUiActionPhase,
    autoUiActionObject,
    autoUiActionMask,
    autoUiActionOffered,
    layerRegistrations,          \* slots of [layer, handle]
    layerStack,                  \* layers whose native update is running
    auxCoreAmountMenuActive,
    auxCoreAmountMenuObject,
    auxCoreNativeAcceptanceActive,
    auxCoreInputAge              \* frames since the last amount input, at most 3

buttonVars == <<Enabled, buttonFrames, physicalHeld, rawButtonOverrideActive>>
captureVars == <<acceptedActionCaptureActive,
                 acceptedActionCaptureWaitingForNeutral>>
padVars == <<activeUiPadData, activeUiPadDataValid>>
slotVars == <<playbackOverrideActive, playbackMode, playbackAction,
              auxCoreNativeAcceptanceActive>>
offerVars == <<playbackUiActionOffered, playbackUiDirectActionOffered>>
scriptedVars == <<scriptedBufferedMask, scriptedUiOfferedMask>>
autoUiActionVars == <<autoUiActionPhase, autoUiActionObject, autoUiActionMask>>
autoUiVars == <<autoUiActionVars, autoUiActionOffered>>
layerVars == <<layerRegistrations, layerStack>>
auxVars == <<auxCoreAmountMenuActive, auxCoreAmountMenuObject, auxCoreInputAge>>

ibVars == <<buttonVars, captureVars, inputLayerPadCaptureActive, padVars,
            slotVars, offerVars, scriptedVars, autoUiVars, layerVars, auxVars>>

FreeRegistration == [layer |-> NoLayer, handle |-> 0]

Registration == [layer : Layer, handle : Handle] \cup {FreeRegistration}

\* The type invariant of InputBuffer's globals.
InputBufferTypeOK ==
    /\ Enabled \in BOOLEAN
    /\ buttonFrames \subseteq Bit
    /\ physicalHeld \subseteq Bit
    /\ rawButtonOverrideActive \in BOOLEAN
    /\ acceptedActionCaptureActive \in BOOLEAN
    /\ acceptedActionCaptureWaitingForNeutral \in BOOLEAN
    /\ inputLayerPadCaptureActive \in BOOLEAN
    /\ activeUiPadData \subseteq Bit
    /\ activeUiPadDataValid \in BOOLEAN
    /\ playbackOverrideActive \in BOOLEAN
    /\ playbackMode \in PlaybackModes
    /\ playbackAction \in AcceptedAction \cup {NoAction}
    /\ playbackUiActionOffered \in BOOLEAN
    /\ playbackUiDirectActionOffered \in BOOLEAN
    /\ scriptedBufferedMask \subseteq Bit
    /\ scriptedUiOfferedMask \subseteq Bit
    /\ autoUiActionPhase \in {"Idle", "Pending", "Neutral"}
    /\ autoUiActionObject \in Object \cup {0}
    /\ autoUiActionMask \subseteq Bit
    /\ autoUiActionOffered \in BOOLEAN
    /\ layerRegistrations \in [1..MaxRegistrations -> Registration]
    /\ layerStack \in Seq(Layer)
    /\ auxCoreAmountMenuActive \in BOOLEAN
    /\ auxCoreAmountMenuObject \in Object \cup {0}
    /\ auxCoreNativeAcceptanceActive \in BOOLEAN
    /\ auxCoreInputAge \in 0..AuxCoreAmountRepeatFrames

InputBufferInit ==
    /\ Enabled \in BOOLEAN
    /\ buttonFrames = {}
    /\ physicalHeld = {}
    /\ rawButtonOverrideActive = FALSE
    /\ acceptedActionCaptureActive = FALSE
    /\ acceptedActionCaptureWaitingForNeutral = FALSE
    /\ inputLayerPadCaptureActive = FALSE
    /\ activeUiPadData = {}
    /\ activeUiPadDataValid = FALSE
    /\ playbackOverrideActive = FALSE
    /\ playbackMode = "StandardMenu"
    /\ playbackAction = NoAction
    /\ playbackUiActionOffered = FALSE
    /\ playbackUiDirectActionOffered = FALSE
    /\ scriptedBufferedMask = {}
    /\ scriptedUiOfferedMask = {}
    /\ autoUiActionPhase = "Idle"
    /\ autoUiActionObject = 0
    /\ autoUiActionMask = {}
    /\ autoUiActionOffered = FALSE
    /\ layerRegistrations = [i \in 1..MaxRegistrations |-> FreeRegistration]
    /\ layerStack = <<>>
    /\ auxCoreAmountMenuActive = FALSE
    /\ auxCoreAmountMenuObject = 0
    /\ auxCoreNativeAcceptanceActive = FALSE
    /\ auxCoreInputAge = AuxCoreAmountRepeatFrames

-------------------------------------------------------------------------------
(* Registered layers.                                                      *)

FirstSlot(slots) == CHOOSE i \in slots : \A j \in slots : i <= j

\* InputLayerHandle: the handle of the first slot that names the layer.
InputLayerHandle(layer) ==
    LET slots == {i \in 1..MaxRegistrations : layerRegistrations[i].layer = layer}
    IN  IF slots = {} THEN 0 ELSE layerRegistrations[FirstSlot(slots)].handle

\* The layer whose update is innermost; its caller's is restored on return.
updatingInputLayer ==
    IF layerStack = <<>> THEN NoLayer ELSE Last(layerStack)

\* Mutant: a layer that gets a new handle keeps its old slot as well.
RegisterByHandle(layer, handle) ==
    LET same == {i \in 1..MaxRegistrations : layerRegistrations[i].handle = handle}
        free == {i \in 1..MaxRegistrations :
                    layerRegistrations[i] = FreeRegistration}
        slots == IF same # {} THEN same ELSE free
    IN  /\ slots # {}
        /\ layerRegistrations' =
              [layerRegistrations EXCEPT ![FirstSlot(slots)] =
                  [layer |-> layer, handle |-> handle]]
        /\ UNCHANGED layerStack

\* RegisterInputLayer: overwrite the first slot that names the layer or the
\* handle, else take the first free slot, else drop the registration.
RegisterInputLayer(layer, handle) ==
    LET same == {i \in 1..MaxRegistrations :
                    \/ layerRegistrations[i].layer = layer
                    \/ layerRegistrations[i].handle = handle}
        free == {i \in 1..MaxRegistrations :
                    layerRegistrations[i] = FreeRegistration}
        slots == IF same # {} THEN same ELSE free
    IN  /\ slots # {}
        /\ layerRegistrations' =
              [layerRegistrations EXCEPT ![FirstSlot(slots)] =
                  [layer |-> layer, handle |-> handle]]
        /\ UNCHANGED layerStack

\* ReleaseInputLayer: free every slot that holds the handle.
ReleaseInputLayer(handle) ==
    /\ \E i \in 1..MaxRegistrations : layerRegistrations[i].handle = handle
    /\ layerRegistrations' =
          [i \in 1..MaxRegistrations |->
              IF layerRegistrations[i].handle = handle
              THEN FreeRegistration ELSE layerRegistrations[i]]
    /\ UNCHANGED layerStack

-------------------------------------------------------------------------------
(* Predicates on the pending playback action.                              *)

IsAuxCoreAmountPlaybackAction ==
    /\ auxCoreAmountMenuActive
    /\ IsUiPadAction(playbackAction)
    /\ playbackAction.input.mask \cap LrButtonMask # {}

\* Mutant: the test for L and R the wrong way round.
IsAuxCoreNativeLr ==
    /\ auxCoreNativeAcceptanceActive
    /\ IsUiPadAction(playbackAction)
    /\ playbackAction.input.mask \cap LrButtonMask # {}

IsAuxCoreNativePlaybackAction ==
    /\ auxCoreNativeAcceptanceActive
    /\ IsUiPadAction(playbackAction)
    /\ playbackAction.input.mask \cap LrButtonMask = {}

IsNavigation(mask) == mask \cap DirectionButtonMask # {}

\* PlaybackLayerMatches: the recorded handle, or the Aux Core amount widget.
PlaybackLayerMatches(layer) ==
    /\ layer # NoLayer
    /\ \/ InputLayerHandle(layer) # 0 /\ InputLayerHandle(layer) = playbackAction.layer
       \/ /\ IsAuxCoreAmountPlaybackAction
          /\ auxCoreAmountMenuObject # 0
          /\ ObjectOf[layer] = auxCoreAmountMenuObject

PlaybackActionPending == playbackOverrideActive /\ playbackAction.input # NoInput

\* Mutant: the client is told, but the slot is not emptied.
CompleteKeepsSlot ==
    UNCHANGED <<playbackAction, playbackOverrideActive, playbackMode>>

\* CompletePlaybackAction with the clearing that precedes it: the slot is
\* emptied, then the client is told which action was accepted.
CompletePlaybackAction ==
    /\ playbackAction' = NoAction
    /\ UNCHANGED <<playbackOverrideActive, playbackMode>>

-------------------------------------------------------------------------------
(***************************************************************************)
(* The calls other modules make.  Each one constrains only the variables   *)
(* it assigns, so that a caller can make several of them in one step.      *)
(***************************************************************************)

SetAcceptedActionCapture(active) ==
    /\ acceptedActionCaptureActive' = active
    /\ acceptedActionCaptureWaitingForNeutral' = active
    /\ activeUiPadDataValid' = FALSE

SetInputLayerPadCapture(active) ==
    /\ inputLayerPadCaptureActive' = active
    /\ activeUiPadDataValid' = (active /\ activeUiPadDataValid)
    /\ UNCHANGED activeUiPadData

\* SetPlaybackOverride; "queued" is what the slot holds when the caller
\* returns, since a caller that opens the override may fill the slot at once.
SetPlaybackOverride(active, mode, queued) ==
    /\ playbackOverrideActive' = active
    /\ playbackMode' = IF active THEN mode ELSE "StandardMenu"
    /\ playbackAction' = IF active THEN queued ELSE NoAction
    /\ auxCoreNativeAcceptanceActive' = (active /\ auxCoreNativeAcceptanceActive)
    /\ playbackUiActionOffered' = FALSE
    /\ playbackUiDirectActionOffered' = FALSE

SetPlaybackAction(action) ==
    /\ playbackOverrideActive
    /\ playbackAction' = action
    /\ UNCHANGED <<playbackOverrideActive, playbackMode,
                   auxCoreNativeAcceptanceActive>>

SetBufferedButtonAction(mask) ==
    /\ scriptedBufferedMask' = scriptedBufferedMask \cup mask
    /\ scriptedUiOfferedMask' = {}

CancelBufferedButtonAction ==
    /\ scriptedBufferedMask' = {}
    /\ scriptedUiOfferedMask' = {}

\* RequestAutoUiAction: repeating the request in progress changes nothing;
\* any other request takes the one slot over.
AutoUiActionInProgress(object, mask) ==
    /\ autoUiActionPhase # "Idle"
    /\ autoUiActionObject = object
    /\ autoUiActionMask = mask

RequestAutoUiAction(object, mask) ==
    IF object = 0 \/ mask = {} \/ AutoUiActionInProgress(object, mask)
    THEN UNCHANGED autoUiActionVars
    ELSE /\ autoUiActionPhase' = "Pending"
         /\ autoUiActionObject' = object
         /\ autoUiActionMask' = mask

\* CancelAutoUiAction: object 0 cancels whoever's action is in the slot.
CancelAutoUiAction(object) ==
    IF object # 0 /\ object # autoUiActionObject
    THEN UNCHANGED autoUiVars
    ELSE /\ autoUiActionPhase' = "Idle"
         /\ autoUiActionObject' = 0
         /\ autoUiActionMask' = {}
         /\ autoUiActionOffered' = FALSE

SetRawButtonOverride(active) ==
    /\ rawButtonOverrideActive' = active
    /\ UNCHANGED <<Enabled, buttonFrames, physicalHeld>>

ResetAuxCoreAmountInput == auxCoreInputAge' = AuxCoreAmountRepeatFrames

\* SetAuxCoreAmountMenu(true, object); the age of the last input is kept.
OpenAuxCoreAmountMenu(object) ==
    /\ auxCoreAmountMenuActive' = TRUE
    /\ auxCoreAmountMenuObject' = object

\* SetAuxCoreAmountMenu(false), which also resets the age.
CloseAuxCoreAmountMenu ==
    /\ auxCoreAmountMenuActive' = FALSE
    /\ auxCoreAmountMenuObject' = 0
    /\ ResetAuxCoreAmountInput

\* SetFrameIndex moves to the next frame: the last amount input gets older.
AdvanceFrameIndex ==
    /\ auxCoreInputAge' = IF auxCoreInputAge < AuxCoreAmountRepeatFrames
                          THEN auxCoreInputAge + 1 ELSE auxCoreInputAge
    /\ UNCHANGED <<auxCoreAmountMenuActive, auxCoreAmountMenuObject>>

\* AcceptAuxCoreAmountInput: whether an amount input gets through.
AuxCoreAmountInputPasses ==
    \/ ~Enabled /\ ~playbackOverrideActive
    \/ auxCoreInputAge = AuxCoreAmountRepeatFrames

\* Its side effect when it gets through: the input is stamped unless the
\* limiter is switched off.
StampAuxCoreAmountInput ==
    auxCoreInputAge' = IF ~Enabled /\ ~playbackOverrideActive
                       THEN auxCoreInputAge ELSE 0

\* AcceptAuxCoreAmountPlayback: the amount widget's own listener, with the
\* widget open, accepts the pending L or R; from here on the rest of the
\* sequence is native.
AuxCoreAmountServesPlayback ==
    /\ playbackOverrideActive
    /\ IsUiPadAction(playbackAction)
    /\ playbackAction.input.mask \cap LrButtonMask # {}

AcceptAuxCoreAmountPlayback ==
    IF AuxCoreAmountServesPlayback
    THEN CompletePlaybackAction /\ auxCoreNativeAcceptanceActive' = TRUE
    ELSE UNCHANGED slotVars

-------------------------------------------------------------------------------
(***************************************************************************)
(* The pad getters.  What they return is a word; the words below are what  *)
(* the game reads of P1.                                                   *)
(***************************************************************************)

PlaybackButtonMask ==
    IF playbackAction.input.form = "Pad" THEN playbackAction.input.mask ELSE {}

\* The down word of P1: what GetDownHook returns for the player's presses.
DownWord(original) ==
    IF playbackOverrideActive THEN PlaybackButtonMask \cup scriptedBufferedMask
    ELSE original \cup buttonFrames \cup scriptedBufferedMask

\* GetBtnHook for pad 0 remembers what is held.
GetBtn(original) ==
    /\ physicalHeld' = original
    /\ UNCHANGED <<Enabled, buttonFrames, rawButtonOverrideActive>>

\* GetDownHook for pad 0.  Both overrides return before the buffer is
\* touched; with buffering off everything buffered is dropped (Clear); else
\* a press edge is kept for as long as the button stays held.
GetDown(original) ==
    /\ ~playbackOverrideActive
    /\ ~rawButtonOverrideActive
    /\ buttonFrames' = IF Enabled
                       THEN physicalHeld \cap (buttonFrames \cup original)
                       ELSE {}
    /\ UNCHANGED <<Enabled, physicalHeld, rawButtonOverrideActive>>

\* The settings checkbox.
ToggleEnabled ==
    /\ Enabled' = ~Enabled
    /\ buttonFrames' = {}
    /\ UNCHANGED <<physicalHeld, rawButtonOverrideActive>>

-------------------------------------------------------------------------------
(***************************************************************************)
(* UIUtil::getPadData, read inside or outside a layer update.              *)
(***************************************************************************)

\* The first neutral word opens the capture.
CaptureWaitsAfter(words) ==
    acceptedActionCaptureWaitingForNeutral
        /\ ~(acceptedActionCaptureActive /\ words = {})

SeeUiPadData(words) ==
    activeUiPadData' = words /\ activeUiPadDataValid' = TRUE

\* The native word is kept for the capture once it is open, and for the
\* profilers whenever they ask.
KeepNativePadData(words) ==
    IF /\ updatingInputLayer # NoLayer
       /\ \/ inputLayerPadCaptureActive
          \/ acceptedActionCaptureActive /\ ~CaptureWaitsAfter(words)
    THEN SeeUiPadData(words)
    ELSE UNCHANGED padVars

AutoUiActionHere ==
    /\ autoUiActionPhase # "Idle"
    /\ updatingInputLayer # NoLayer
    /\ ObjectOf[updatingInputLayer] = autoUiActionObject

AutoUiNeutralHere == AutoUiActionHere /\ autoUiActionPhase = "Neutral"

AutoUiOfferedHere(enabled) ==
    /\ AutoUiActionHere
    /\ autoUiActionPhase = "Pending"
    /\ enabled \cap autoUiActionMask # {}

\* One word with the automatic action held back, so that it reads as released.
GetNeutralPadData(words) ==
    /\ AutoUiNeutralHere
    /\ SeeUiPadData(words \ autoUiActionMask)
    /\ UNCHANGED <<autoUiVars, scriptedVars, offerVars>>

OfferAutoUiAction(words, enabled) ==
    /\ AutoUiOfferedHere(enabled)
    /\ SeeUiPadData(words \cup autoUiActionMask)
    /\ autoUiActionOffered' = TRUE
    /\ UNCHANGED <<autoUiActionVars, scriptedVars, offerVars>>

\* Scripted field actions are offered to whatever layer is updating.
OfferScriptedAction(words, enabled) ==
    /\ ~AutoUiNeutralHere /\ ~AutoUiOfferedHere(enabled)
    /\ ~playbackOverrideActive
    /\ updatingInputLayer # NoLayer
    /\ scriptedBufferedMask # {}
    /\ scriptedUiOfferedMask' = scriptedBufferedMask \cap enabled
    /\ IF scriptedBufferedMask \cap enabled = {}
       THEN KeepNativePadData(words)
       ELSE SeeUiPadData(words \cup (scriptedBufferedMask \cap enabled))
    /\ UNCHANGED <<scriptedBufferedMask, autoUiVars, offerVars>>

\* The override blanks the word unless the pending action belongs here.
OfferPlaybackAction(words, enabled) ==
    /\ ~AutoUiNeutralHere /\ ~AutoUiOfferedHere(enabled)
    /\ playbackOverrideActive
    /\ LET mask == playbackAction.input.mask
           direct == mask \cap enabled # {}
           available == direct \/ IsNavigation(mask) \/ IsAuxCoreAmountPlaybackAction
       IN  IF /\ IsUiPadAction(playbackAction)
              /\ PlaybackLayerMatches(updatingInputLayer)
              /\ available
           THEN /\ playbackUiActionOffered' = TRUE
                /\ playbackUiDirectActionOffered' = direct
           ELSE UNCHANGED offerVars
    /\ KeepNativePadData(words)
    /\ UNCHANGED <<autoUiVars, scriptedVars>>

\* Nothing to inject: the caller gets the native word.
GetNativePadData(words, enabled) ==
    /\ ~AutoUiNeutralHere /\ ~AutoUiOfferedHere(enabled)
    /\ ~playbackOverrideActive
    /\ updatingInputLayer = NoLayer \/ scriptedBufferedMask = {}
    /\ KeepNativePadData(words)
    /\ UNCHANGED <<autoUiVars, scriptedVars, offerVars>>

\* UIUtilGetPadDataHook: the neutral gate, then one of the five outcomes.
UIUtilGetPadData(words, enabled) ==
    /\ acceptedActionCaptureWaitingForNeutral' = CaptureWaitsAfter(words)
    /\ \/ GetNeutralPadData(words)
       \/ OfferAutoUiAction(words, enabled)
       \/ OfferScriptedAction(words, enabled)
       \/ OfferPlaybackAction(words, enabled)
       \/ GetNativePadData(words, enabled)
    /\ UNCHANGED <<acceptedActionCaptureActive, inputLayerPadCaptureActive,
                   buttonVars, slotVars, layerVars, auxVars>>

-------------------------------------------------------------------------------
(***************************************************************************)
(* UIInputLayer::update.  Begin is the hook up to the native call, End the *)
(* rest of it; "out" is what the native call leaves behind: whether the    *)
(* layer accepted, whether it emitted its navigation event (6), and        *)
(* whether it emitted the secondary action event (8) with action 1.        *)
(***************************************************************************)
LayerOutcome == [accepted : BOOLEAN, navigated : BOOLEAN, confirmed : BOOLEAN]

\* Mutant: what was offered to the last layer still counts for this one.
UpdateBeginKeepsOffers(layer) ==
    /\ Len(layerStack) < MaxNesting
    /\ layerStack' = Append(layerStack, layer)
    /\ activeUiPadDataValid' = FALSE
    /\ autoUiActionOffered' = FALSE
    /\ scriptedUiOfferedMask' = {}
    /\ UNCHANGED <<offerVars, layerRegistrations, activeUiPadData,
                   scriptedBufferedMask, autoUiActionVars>>

\* The hook after its before-update callback: the layer is the updating one,
\* and nothing has been offered to it.
EnterInputLayer(layer) ==
    /\ Len(layerStack) < MaxNesting
    /\ layerStack' = Append(layerStack, layer)
    /\ activeUiPadDataValid' = FALSE
    /\ playbackUiActionOffered' = FALSE
    /\ playbackUiDirectActionOffered' = FALSE
    /\ autoUiActionOffered' = FALSE
    /\ scriptedUiOfferedMask' = {}
    /\ UNCHANGED <<layerRegistrations, activeUiPadData, scriptedBufferedMask>>

\* With a callback that leaves the automatic action alone.
UIInputLayerUpdateBegin(layer) ==
    EnterInputLayer(layer) /\ UNCHANGED autoUiActionVars

\* The automatic action the layer has just carried out.
AutoUiActionAccepted(layer, out) ==
    /\ autoUiActionPhase = "Pending"
    /\ autoUiActionOffered
    /\ out.accepted /\ out.confirmed
    /\ ObjectOf[layer] = autoUiActionObject

AutoUiAfterUpdate(layer, out) ==
    IF autoUiActionPhase = "Neutral" /\ ObjectOf[layer] = autoUiActionObject
    THEN /\ autoUiActionPhase' = "Idle"
         /\ autoUiActionObject' = 0
         /\ autoUiActionMask' = {}
         /\ UNCHANGED autoUiActionOffered
    ELSE IF AutoUiActionAccepted(layer, out)
    THEN /\ autoUiActionPhase' = "Neutral"
         /\ UNCHANGED <<autoUiActionObject, autoUiActionMask, autoUiActionOffered>>
    ELSE UNCHANGED autoUiVars

\* What the capture reports of this update, as a set of at most one action.
PhysicalAcceptance(layer, out) ==
    {UiPadAction(activeUiPadData, handle) : handle \in
        {h \in Handle : /\ out.accepted
                        /\ acceptedActionCaptureActive
                        /\ activeUiPadDataValid
                        /\ activeUiPadData # {}
                        /\ h = InputLayerHandle(layer)}}

\* Whether this update carried out the pending playback action.
LayerServesPlayback(layer, out) ==
    /\ out.accepted
    /\ playbackOverrideActive
    /\ ~IsAuxCoreAmountPlaybackAction
    /\ IsUiPadAction(playbackAction)
    /\ PlaybackLayerMatches(layer)
    /\ playbackUiActionOffered
    /\ playbackUiDirectActionOffered \/ out.navigated

\* The layer whose update called this one is the updating layer again.
RestoreUpdatingLayer == layerStack' = Front(layerStack)

\* The hook after the native update, but for the automatic action.
LeaveInputLayer(layer, out) ==
    /\ layerStack # <<>>
    /\ RestoreUpdatingLayer
    /\ scriptedBufferedMask' = IF out.accepted
                               THEN scriptedBufferedMask \ scriptedUiOfferedMask
                               ELSE scriptedBufferedMask
    /\ IF LayerServesPlayback(layer, out)
       THEN CompletePlaybackAction /\ UNCHANGED auxCoreNativeAcceptanceActive
       ELSE UNCHANGED slotVars
    /\ UNCHANGED <<layerRegistrations, scriptedUiOfferedMask, buttonVars,
                   captureVars, inputLayerPadCaptureActive, padVars, offerVars,
                   auxVars>>

UIInputLayerUpdateEnd(out) ==
    /\ LeaveInputLayer(updatingInputLayer, out)
    /\ AutoUiAfterUpdate(updatingInputLayer, out)

-------------------------------------------------------------------------------
(***************************************************************************)
(* PadRelay::checkAction of a valid descriptor d, when the hook answers    *)
(* TRUE.  (When it answers FALSE nothing changes.)  "enabled" is the       *)
(* resource's own enable word.                                             *)
(***************************************************************************)
Descriptor == [type : RelayType, index : Bit]

\* A scripted press waiting for this relay, outside any layer update.
RelayServesScripted(d) ==
    updatingInputLayer = NoLayer /\ d.index \in scriptedBufferedMask

\* Mutant: relays serve UI actions in the layered modes too.
UiActionUsesRelayInAnyMode ==
    /\ playbackOverrideActive
    /\ IsUiPadAction(playbackAction)
    /\ ~IsAuxCoreAmountPlaybackAction
    /\ ~IsAuxCoreNativePlaybackAction
    /\ ~IsNavigation(playbackAction.input.mask)

\* In the standard mode a UI action other than navigation and the Aux Core
\* exceptions belongs to the relays: they serve it or are told "no".
UiActionUsesRelay ==
    /\ playbackOverrideActive
    /\ playbackMode = "StandardMenu"
    /\ IsUiPadAction(playbackAction)
    /\ ~IsAuxCoreAmountPlaybackAction
    /\ ~IsAuxCoreNativePlaybackAction
    /\ ~IsNavigation(playbackAction.input.mask)

RelayServesUiAction(d) ==
    /\ UiActionUsesRelay
    /\ d.index \in playbackAction.input.mask
    /\ \/ d.type = 2
       \/ d.type \in {0, 4} /\ playbackAction.input.mask \cap TriggerButtonMask # {}

RelayServesEncodedAction(d) ==
    /\ playbackOverrideActive
    /\ playbackAction.input.form = "Encoded"
    /\ playbackAction.input.type = d.type
    /\ d.index \in playbackAction.input.mask

\* The native check is reached when neither kind of playback claims relays.
NativeCheckRuns ==
    /\ ~UiActionUsesRelay
    /\ ~(playbackOverrideActive /\ playbackAction.input.form = "Encoded")

NativeCheckServesPlayback(d) ==
    /\ NativeCheckRuns
    /\ playbackOverrideActive
    /\ playbackAction.input.form = "Pad"
    /\ d.index \in playbackAction.input.mask

\* Whether this answer completes the pending playback action.
RelayServesPlayback(d, enabled) ==
    /\ ~(enabled /\ RelayServesScripted(d))
    /\ \/ enabled /\ (RelayServesUiAction(d) \/ RelayServesEncodedAction(d))
       \/ NativeCheckServesPlayback(d)

PadRelayCheckAction(d, enabled) ==
    LET scripted == enabled /\ RelayServesScripted(d) IN
    /\ scripted \/ RelayServesPlayback(d, enabled) \/ NativeCheckRuns
    /\ scriptedBufferedMask' = IF scripted THEN scriptedBufferedMask \ {d.index}
                               ELSE scriptedBufferedMask
    /\ buttonFrames' = IF ~scripted /\ NativeCheckRuns /\ Enabled
                       THEN buttonFrames \ {d.index} ELSE buttonFrames
    /\ IF RelayServesPlayback(d, enabled)
       THEN CompletePlaybackAction /\ UNCHANGED auxCoreNativeAcceptanceActive
       ELSE UNCHANGED slotVars
    /\ UNCHANGED <<Enabled, physicalHeld, rawButtonOverrideActive, captureVars,
                   inputLayerPadCaptureActive, padVars, offerVars,
                   scriptedUiOfferedMask, autoUiVars, layerVars, auxVars>>

================================================================================
