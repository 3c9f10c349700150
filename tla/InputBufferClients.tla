--------------------------- MODULE InputBufferClients ---------------------------
(***************************************************************************)
(* InputBuffer with every client it serves, none of them in detail:        *)
(*   - the accepted-action capture and the playback slot (MenuHelper);     *)
(*   - scripted presses and the raw override (Targeting);                  *)
(*   - the automatic UI action (AutoTutorials, AutoCutsceneSkips);         *)
(*   - pad snapshots (the profilers' SetInputLayerPadCapture).             *)
(* Their calls come at any point, also from inside a native layer update,  *)
(* which is where the game's callbacks run; only the frame that queues the *)
(* next action of a replay runs between the updates.                       *)
(*                                                                         *)
(* Two history variables say what really happened: which bits the mod put  *)
(* into the words read since each update in progress began, by it or by an *)
(* update within it, and which handle the UIInputManager last gave each    *)
(* live layer.                                                             *)
(***************************************************************************)
EXTENDS InputBuffer

CONSTANTS
    Clients,           \* the clients present, a part of ClientNames
    PlaybackActions,   \* the actions a replay may queue
    ScriptedMasks,     \* the presses Targeting may script
    AutoUiMasks        \* the automatic UI action (both clients use A alone)

ClientNames == {"manager", "buttons", "capture", "playback", "scripted", "autoUi"}

ASSUME ClientsAssumption ==
    /\ Clients \subseteq ClientNames
    /\ PlaybackActions \subseteq AcceptedAction
    /\ \A action \in PlaybackActions : action.input # NoInput
    /\ ScriptedMasks \subseteq SUBSET Bit
    /\ AutoUiMasks \subseteq SUBSET Bit
    /\ \A mask, other \in AutoUiMasks : mask = other

VARIABLES
    injected,   \* for each update in progress, the bits injected since it began
    live        \* the manager's own table: layer -> handle, 0 when released

vars == <<ibVars, injected, live>>

historyVars == <<injected, live>>

TypeOK ==
    /\ InputBufferTypeOK
    /\ injected \in Seq(SUBSET Bit)
    /\ Len(injected) = Len(layerStack)
    /\ live \in [Layer -> Handle \cup {0}]

Init ==
    /\ InputBufferInit
    /\ injected = <<>>
    /\ live = [layer \in Layer |-> 0]

LiveLayers == {layer \in Layer : live[layer] # 0}

-------------------------------------------------------------------------------
(* The game.                                                               *)

\* registInputLayer: a fresh handle; the game keeps fewer layers than slots.
ManagerRegisters(layer, handle) ==
    /\ \A other \in Layer : live[other] # handle
    /\ layer \in LiveLayers \/ Cardinality(LiveLayers) < MaxRegistrations
    /\ layer \notin {layerStack[i] : i \in 1..Len(layerStack)}
    /\ RegisterInputLayer(layer, handle)
    /\ live' = [live EXCEPT ![layer] = handle]
    /\ UNCHANGED <<buttonVars, captureVars, inputLayerPadCaptureActive, padVars,
                   slotVars, offerVars, scriptedVars, autoUiVars, auxVars, injected>>

ManagerReleases(layer) ==
    /\ layer \in LiveLayers
    /\ ReleaseInputLayer(live[layer])
    /\ live' = [live EXCEPT ![layer] = 0]
    /\ UNCHANGED <<buttonVars, captureVars, inputLayerPadCaptureActive, padVars,
                   slotVars, offerVars, scriptedVars, autoUiVars, auxVars, injected>>

LayerUpdateBegins(layer) ==
    /\ UIInputLayerUpdateBegin(layer)
    /\ injected' = Append(injected, {})
    /\ UNCHANGED <<buttonVars, captureVars, inputLayerPadCaptureActive, slotVars,
                   auxVars, live>>

\* What this read adds to the word of the updating layer.
InjectedBy(enabled) ==
    IF AutoUiNeutralHere THEN {}
    ELSE IF AutoUiOfferedHere(enabled) THEN autoUiActionMask
    ELSE IF playbackOverrideActive
    THEN IF playbackUiActionOffered' THEN playbackAction.input.mask ELSE {}
    ELSE scriptedBufferedMask \cap enabled

PadDataIsRead(words, enabled) ==
    /\ UIUtilGetPadData(words, enabled)
    /\ injected' = IF injected = <<>> THEN injected
                   ELSE [injected EXCEPT ![Len(injected)] = @ \cup InjectedBy(enabled)]
    /\ UNCHANGED live

\* What an update was given counts for the update that called it, too.
HandedToCaller ==
    [i \in 1..Len(injected) - 1 |->
        IF i = Len(injected) - 1 THEN injected[i] \cup Last(injected) ELSE injected[i]]

LayerUpdateEnds(out) ==
    /\ UIInputLayerUpdateEnd(out)
    /\ injected' = HandedToCaller
    /\ UNCHANGED live

RelayChecks(d, enabled) ==
    /\ PadRelayCheckAction(d, enabled)
    /\ UNCHANGED historyVars

ButtonsAreRead(words) ==
    /\ GetBtn(words) \/ GetDown(words)
    /\ UNCHANGED <<captureVars, inputLayerPadCaptureActive, padVars, slotVars,
                   offerVars, scriptedVars, autoUiVars, layerVars, auxVars,
                   historyVars>>

-------------------------------------------------------------------------------
(* The clients.                                                            *)

CaptureClient ==
    /\ \/ SetAcceptedActionCapture(~acceptedActionCaptureActive)
          /\ UNCHANGED <<inputLayerPadCaptureActive, activeUiPadData>>
       \/ SetInputLayerPadCapture(~inputLayerPadCaptureActive)
          /\ UNCHANGED captureVars
    /\ UNCHANGED <<buttonVars, slotVars, offerVars, scriptedVars, autoUiVars,
                   layerVars, auxVars, historyVars>>

\* A replay is opened and closed at any point; its next action is queued by the
\* frame (MenuHelper::Update), which runs outside the layer updates.
PlaybackClient ==
    /\ \/ /\ ~playbackOverrideActive
          /\ \E mode \in PlaybackModes, action \in PlaybackActions :
                SetPlaybackOverride(TRUE, mode, action)
       \/ playbackOverrideActive /\ SetPlaybackOverride(FALSE, "StandardMenu", NoAction)
       \/ /\ layerStack = <<>>
          /\ playbackOverrideActive
          /\ ~PlaybackActionPending
          /\ \E action \in PlaybackActions : SetPlaybackAction(action)
          /\ UNCHANGED offerVars
    /\ UNCHANGED <<buttonVars, captureVars, inputLayerPadCaptureActive, padVars,
                   scriptedVars, autoUiVars, layerVars, auxVars, historyVars>>

ScriptedClient ==
    /\ \/ /\ \/ \E mask \in ScriptedMasks : SetBufferedButtonAction(mask)
             \/ CancelBufferedButtonAction
          /\ UNCHANGED buttonVars
       \/ SetRawButtonOverride(~rawButtonOverrideActive) /\ UNCHANGED scriptedVars
       \/ ToggleEnabled /\ UNCHANGED scriptedVars
    /\ UNCHANGED <<captureVars, inputLayerPadCaptureActive, padVars, slotVars,
                   offerVars, autoUiVars, layerVars, auxVars, historyVars>>

AutoUiClient ==
    /\ \/ /\ \E object \in Object, mask \in AutoUiMasks :
                RequestAutoUiAction(object, mask)
          /\ UNCHANGED autoUiActionOffered
       \/ \E object \in Object \cup {0} : CancelAutoUiAction(object)
    /\ UNCHANGED <<buttonVars, captureVars, inputLayerPadCaptureActive, padVars,
                   slotVars, offerVars, scriptedVars, layerVars, auxVars,
                   historyVars>>

Next ==
    \/ \E layer \in Layer, handle \in Handle : ManagerRegisters(layer, handle)
    \/ "manager" \in Clients /\ \E layer \in Layer : ManagerReleases(layer)
    \/ \E layer \in LiveLayers : LayerUpdateBegins(layer)
    \/ \E words \in PadWords, enabled \in EnabledMasks : PadDataIsRead(words, enabled)
    \/ \E out \in LayerOutcome : LayerUpdateEnds(out)
    \/ \E d \in Descriptor, enabled \in BOOLEAN : RelayChecks(d, enabled)
    \/ "buttons" \in Clients /\ \E words \in PadWords : ButtonsAreRead(words)
    \/ "capture" \in Clients /\ CaptureClient
    \/ "playback" \in Clients /\ PlaybackClient
    \/ "scripted" \in Clients /\ ScriptedClient
    \/ "autoUi" \in Clients /\ AutoUiClient

Spec == Init /\ [][Next]_vars

-------------------------------------------------------------------------------
(* Properties.                                                             *)

\* The mod never takes credit for a press the layer was not given: what a
\* layer update completes (the pending replay action, scripted bits, the
\* automatic action) was injected into a word read during that very update, by
\* it or by an update run within it.  The offers are globals that every update
\* resets and none restores, and requests, cancellations and a new replay may
\* come between offer and result.
AcceptedWasInjected ==
    [][Len(injected') < Len(injected) =>    \* a layer's update ends
         LET here == Last(injected) IN
         /\ playbackAction' # playbackAction => playbackAction.input.mask \subseteq here
         /\ scriptedBufferedMask \ scriptedBufferedMask' \subseteq here
         /\ autoUiActionPhase = "Pending" /\ autoUiActionPhase' = "Neutral"
               => autoUiActionMask \subseteq here]_vars

\* Every live layer is known by the handle the manager gave it, so that a
\* recorded handle finds its layer again: re-registration, release and slot
\* reuse in layerRegistrations keep no stale or duplicate entry.
RegistrationsFollowManager ==
    \A layer \in Layer : InputLayerHandle(layer) = live[layer]

================================================================================
