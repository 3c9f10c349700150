------------------------------ MODULE InputTraces ------------------------------
(* The two input traces of SkipTravelProfiler.cpp: the Aux Core trace, fed by its *)
(* own hooks and MenuHelper's, and the tutorial trace, fed by AutoTutorials.      *)
(*                                                                                *)
(* A layer is known by the object that owns it, and each object has one.  Of a    *)
(* sample the trace keeps what a layer was seen in; every other kind is Other.    *)
EXTENDS Integers, SequencesExt

CONSTANTS
    TracedObjects, NoObject,
    LayerState,         \* handle, events and pad words; tutorial: also if accepted
    Unseen,
    TraceCapacity,      \* AuxTraceCapacity and TutorialTraceCapacity
    SnapshotCapacity,   \* tutorialLayerSnapshots.size()
    MaxNesting,         \* bound: native handlers within each other
    CounterModulus      \* 2^32, of the counters of handlers

ASSUME TracesAssumption ==
    /\ NoObject \notin TracedObjects
    /\ Unseen \notin LayerState
    /\ TraceCapacity \in Nat /\ SnapshotCapacity \in Nat /\ MaxNesting \in Nat
    /\ CounterModulus \in Nat \ {0}

VARIABLES
    auxCaptureEnabled, auxTraceRunning, auxTraceComplete,
    auxTrace, auxTraceDropped,
    auxRecipeObject, auxListObject,
    auxLast,                    \* auxLast... and auxHaveLayerSample
    insideAuxRecipeHandler, insideAuxListHandler,
    nativeHandlers,             \* game: the listeners that are being called
    auxSeen,                    \* history: a layer's state at its last update traced
    tutorialCaptureEnabled, tutorialTraceRunning,
    tutorialTrace, tutorialTraceDropped,
    tutorialTargetObject, tutorialLastRequestedObject,
    tutorialLayerSnapshots,     \* object -> the state of its layer, Unseen if free
    inputLayerPadCaptureActive, \* InputBuffer's, shared with AutoCutsceneSkips
    tutorialSeen                \* history, as auxSeen

auxVars == <<auxCaptureEnabled, auxTraceRunning, auxTraceComplete, auxTrace,
             auxTraceDropped, auxRecipeObject, auxListObject, auxLast,
             insideAuxRecipeHandler, insideAuxListHandler, nativeHandlers, auxSeen>>
tutorialVars == <<tutorialCaptureEnabled, tutorialTraceRunning, tutorialTrace,
                  tutorialTraceDropped, tutorialTargetObject,
                  tutorialLastRequestedObject, tutorialLayerSnapshots,
                  inputLayerPadCaptureActive, tutorialSeen>>

Other == [object |-> NoObject, state |-> Unseen]
LayerReturn(object, state) == [object |-> object, state |-> state]
Sample == {Other} \cup [object : TracedObjects, state : LayerState]
NothingSeen == [object \in TracedObjects |-> Unseen]
SeenStates == [TracedObjects -> LayerState \cup {Unseen}]
Counter == 0 .. CounterModulus - 1

TracesTypeOK ==
    /\ auxCaptureEnabled \in BOOLEAN /\ auxTraceRunning \in BOOLEAN
    /\ auxTraceComplete \in BOOLEAN
    /\ auxTrace \in Seq(Sample) /\ Len(auxTrace) <= TraceCapacity
    /\ auxTraceDropped \in BOOLEAN
    /\ auxRecipeObject \in TracedObjects \cup {NoObject}
    /\ auxListObject \in TracedObjects \cup {NoObject}
    /\ auxLast \in Sample
    /\ insideAuxRecipeHandler \in Counter /\ insideAuxListHandler \in Counter
    /\ nativeHandlers \in Seq({"List", "Recipe", "Close"})
    /\ auxSeen \in SeenStates
    /\ tutorialCaptureEnabled \in BOOLEAN /\ tutorialTraceRunning \in BOOLEAN
    /\ tutorialTrace \in Seq(Sample) /\ Len(tutorialTrace) <= TraceCapacity
    /\ tutorialTraceDropped \in BOOLEAN
    /\ tutorialTargetObject \in TracedObjects \cup {NoObject}
    /\ tutorialLastRequestedObject \in TracedObjects \cup {NoObject}
    /\ tutorialLayerSnapshots \in SeenStates
    /\ inputLayerPadCaptureActive \in BOOLEAN
    /\ tutorialSeen \in SeenStates

\* What a trace holds once the samples were offered to it, in their order.
Recorded(trace, samples) ==
    SubSeq(trace \o samples, 1, IF Len(trace) + Len(samples) < TraceCapacity
                                THEN Len(trace) + Len(samples) ELSE TraceCapacity)

Overflows(trace, samples) == Len(trace) + Len(samples) > TraceCapacity

-------------------------------------------------------------------------------
(* The Aux Core trace. *)

AuxTraceInit ==
    /\ auxCaptureEnabled = TRUE /\ auxTraceRunning = TRUE /\ auxTraceComplete = FALSE
    /\ auxTrace = <<>> /\ auxTraceDropped = FALSE
    /\ auxRecipeObject = NoObject /\ auxListObject = NoObject
    /\ auxLast = Other
    /\ insideAuxRecipeHandler = 0 /\ insideAuxListHandler = 0
    /\ nativeHandlers = <<>>
    /\ auxSeen = NothingSeen

\* The trace as a handler finds it, after the restart that the handler may owe it.
Restarts == auxCaptureEnabled /\ ~auxTraceRunning
AuxTraceHere == IF Restarts THEN <<>> ELSE auxTrace
RecipeObjectHere == IF Restarts THEN NoObject ELSE auxRecipeObject
ListObjectHere == IF Restarts THEN NoObject ELSE auxListObject
InsideRecipeHere == IF Restarts THEN 0 ELSE insideAuxRecipeHandler
InsideListHere == IF Restarts THEN 0 ELSE insideAuxListHandler

\* RecordAuxTrace, after the same restart.
RecordAuxTrace(samples) ==
    IF auxTraceRunning \/ Restarts
    THEN /\ auxTrace' = Recorded(AuxTraceHere, samples)
         /\ auxTraceDropped' = (Overflows(AuxTraceHere, samples)
                                \/ (auxTraceDropped /\ ~Restarts))
    ELSE UNCHANGED <<auxTrace, auxTraceDropped>>

\* ClearAuxTrace, in what a restart inside a handler leaves to that handler.
ForgetLayers ==
    IF Restarts THEN auxLast' = Other /\ auxSeen' = NothingSeen
                ELSE UNCHANGED <<auxLast, auxSeen>>

ClearAuxTrace(running) ==
    /\ auxTrace' = <<>> /\ auxTraceDropped' = FALSE
    /\ auxRecipeObject' = NoObject /\ auxListObject' = NoObject
    /\ auxTraceRunning' = running /\ auxTraceComplete' = FALSE
    /\ auxLast' = Other /\ auxSeen' = NothingSeen
    /\ insideAuxRecipeHandler' = 0 /\ insideAuxListHandler' = 0

ToggleAuxCapture ==
    /\ auxCaptureEnabled' = ~auxCaptureEnabled
    /\ IF auxCaptureEnabled
       THEN /\ auxTraceRunning' = FALSE
            /\ UNCHANGED <<auxTraceComplete, auxTrace, auxTraceDropped, auxRecipeObject,
                           auxListObject, auxLast, insideAuxRecipeHandler,
                           insideAuxListHandler, auxSeen>>
       ELSE ClearAuxTrace(TRUE)

\* The window, which is drawn between the calls of the game.
DrawAuxTrace ==
    /\ nativeHandlers = <<>>
    /\ \/ ToggleAuxCapture
       \/ auxCaptureEnabled' = TRUE /\ ClearAuxTrace(TRUE)
       \/ ClearAuxTrace(FALSE) /\ UNCHANGED auxCaptureEnabled
    /\ UNCHANGED nativeHandlers

OnSceneTransitionAux ==
    /\ auxCaptureEnabled
    /\ ClearAuxTrace(TRUE)
    /\ UNCHANGED <<auxCaptureEnabled, nativeHandlers>>

OnAuxShopRequest ==
    /\ auxCaptureEnabled
    /\ RecordAuxTrace(<<Other>>)
    /\ ForgetLayers
    /\ auxTraceRunning' = TRUE
    /\ auxTraceComplete' = (auxTraceComplete /\ ~Restarts)
    /\ auxRecipeObject' = RecipeObjectHere /\ auxListObject' = ListObjectHere
    /\ insideAuxRecipeHandler' = InsideRecipeHere
    /\ insideAuxListHandler' = InsideListHere
    /\ UNCHANGED <<auxCaptureEnabled, nativeHandlers>>

\* The OrbListListener hook before and after the native handler.
OrbListEnter(object) ==
    /\ Len(nativeHandlers) < MaxNesting
    /\ nativeHandlers' = Append(nativeHandlers, "List")
    /\ RecordAuxTrace(<<Other>>)
    /\ ForgetLayers
    /\ auxTraceRunning' = (auxTraceRunning \/ Restarts)
    /\ auxTraceComplete' = (auxTraceComplete /\ ~Restarts)
    /\ auxListObject' = IF object = NoObject THEN ListObjectHere ELSE object
    /\ auxRecipeObject' = RecipeObjectHere
    /\ insideAuxRecipeHandler' = InsideRecipeHere
    /\ insideAuxListHandler' = (InsideListHere + 1) % CounterModulus
    /\ UNCHANGED auxCaptureEnabled

Record(samples) ==
    IF auxTraceRunning
    THEN /\ auxTrace' = Recorded(auxTrace, samples)
         /\ auxTraceDropped' = (auxTraceDropped \/ Overflows(auxTrace, samples))
    ELSE UNCHANGED <<auxTrace, auxTraceDropped>>

\* Nothing keeps the counter from going below zero.
OrbListReturn ==
    /\ nativeHandlers # <<>> /\ Last(nativeHandlers) = "List"
    /\ nativeHandlers' = Front(nativeHandlers)
    /\ Record(<<Other>>)
    /\ insideAuxListHandler' = (insideAuxListHandler - 1) % CounterModulus
    /\ UNCHANGED <<auxCaptureEnabled, auxTraceRunning, auxTraceComplete, auxRecipeObject,
                   auxListObject, auxLast, insideAuxRecipeHandler, auxSeen>>

\* OnAuxRecipeEvent; opening events name the recipe's object, others only the first.
OnAuxRecipeEvent(after, opening, object) ==
    /\ RecordAuxTrace(<<Other>>)
    /\ ForgetLayers
    /\ auxRecipeObject' =
          IF object # NoObject /\ (opening \/ RecipeObjectHere = NoObject) THEN object
          ELSE RecipeObjectHere
    /\ auxListObject' = ListObjectHere
    /\ insideAuxListHandler' = InsideListHere
    /\ insideAuxRecipeHandler' =
          IF ~after THEN (InsideRecipeHere + 1) % CounterModulus
          ELSE IF InsideRecipeHere # 0 THEN InsideRecipeHere - 1
          ELSE 0
    /\ UNCHANGED auxCaptureEnabled

\* The OrbRecipeListener hook of MenuHelper; event 1 closes the recipe.
OrbRecipeEnter(handler, opening, object) ==
    /\ Len(nativeHandlers) < MaxNesting
    /\ nativeHandlers' = Append(nativeHandlers, handler)
    /\ IF auxCaptureEnabled
       THEN /\ OnAuxRecipeEvent(FALSE, opening, object)
            /\ auxTraceRunning' = TRUE
            /\ auxTraceComplete' = (auxTraceComplete /\ ~Restarts)
       ELSE UNCHANGED <<auxCaptureEnabled, auxTraceRunning, auxTraceComplete, auxTrace,
                        auxTraceDropped, auxRecipeObject, auxListObject, auxLast,
                        insideAuxRecipeHandler, insideAuxListHandler, auxSeen>>

OrbRecipeReturn(opening, object) ==
    /\ nativeHandlers # <<>> /\ Last(nativeHandlers) \in {"Recipe", "Close"}
    /\ nativeHandlers' = Front(nativeHandlers)
    /\ IF auxCaptureEnabled
       THEN LET closes == Last(nativeHandlers) = "Close"
            IN  /\ OnAuxRecipeEvent(TRUE, opening, object)
                /\ auxTraceRunning' = ~closes
                /\ auxTraceComplete' = (closes \/ (auxTraceComplete /\ ~Restarts))
       ELSE UNCHANGED <<auxCaptureEnabled, auxTraceRunning, auxTraceComplete, auxTrace,
                        auxTraceDropped, auxRecipeObject, auxListObject, auxLast,
                        insideAuxRecipeHandler, insideAuxListHandler, auxSeen>>

Traced(samples) ==
    /\ auxTraceRunning
    /\ Record(samples)
    /\ UNCHANGED <<auxCaptureEnabled, auxTraceRunning, auxTraceComplete, auxRecipeObject,
                   auxListObject, auxLast, insideAuxRecipeHandler, insideAuxListHandler,
                   nativeHandlers, auxSeen>>

InsideAuxHandler == insideAuxRecipeHandler # 0 \/ insideAuxListHandler # 0

\* The hooks that are of interest within the listeners: selection and input of the
\* manager.  The one of enableInput also gives MenuHelper the list's handle while
\* the list's counter is up, which is an action of MenuHelper's model.
ManagerHook == InsideAuxHandler /\ Traced(<<Other, Other>>)

IsAuxInputLayer(object) == object \in {auxRecipeObject, auxListObject}

\* The hooks of the pad and of an event that is sent; the pad's return is recorded
\* only if it has a result.
PadHook(object) ==
    /\ IsAuxInputLayer(object)
    /\ \E samples \in {<<Other>>, <<Other, Other>>} : Traced(samples)

\* OnAuxEnableInput and OnAuxAcceptedAction.
OnAuxAcceptedAction == Traced(<<Other>>)

\* Mutant: the state is compared whatever layer it was of.
UnchangedAnywhere(object, state) == auxLast # Other /\ auxLast.state = state

SeenLast(object, state) == auxLast = LayerReturn(object, state)

\* OnAuxInputLayerUpdate before and after the native update, which may hold other
\* layers' updates.  An update that was accepted is recorded though nothing changed.
OnAuxInputLayerUpdateBefore(object) ==
    /\ IsAuxInputLayer(object)
    /\ auxLast.object # object
    /\ Traced(<<Other>>)

OnAuxInputLayerUpdateAfter(object, state, accepted) ==
    /\ auxTraceRunning /\ IsAuxInputLayer(object)
    /\ auxLast' = LayerReturn(object, state)
    /\ auxSeen' = [auxSeen EXCEPT ![object] = state]
    /\ IF SeenLast(object, state) /\ ~accepted
       THEN UNCHANGED <<auxTrace, auxTraceDropped>>
       ELSE Record(<<LayerReturn(object, state)>>)
    /\ UNCHANGED <<auxCaptureEnabled, auxTraceRunning, auxTraceComplete, auxRecipeObject,
                   auxListObject, insideAuxRecipeHandler, insideAuxListHandler,
                   nativeHandlers>>

AuxTraceNext ==
    \/ DrawAuxTrace
    \/ OnSceneTransitionAux
    \/ OnAuxShopRequest
    \/ OrbListReturn
    \/ ManagerHook
    \/ OnAuxAcceptedAction
    \/ \E object \in TracedObjects \cup {NoObject}, opening \in BOOLEAN :
          \/ ~opening /\ OrbListEnter(object)
          \/ \E handler \in {"Recipe", "Close"} : OrbRecipeEnter(handler, opening, object)
          \/ OrbRecipeReturn(opening, object)
    \/ \E object \in TracedObjects :
          \/ PadHook(object)
          \/ OnAuxInputLayerUpdateBefore(object)
          \/ \E state \in LayerState, accepted \in BOOLEAN :
                OnAuxInputLayerUpdateAfter(object, state, accepted)

-------------------------------------------------------------------------------
(* The tutorial trace. *)

TutorialTraceInit ==
    /\ tutorialCaptureEnabled = TRUE /\ tutorialTraceRunning = FALSE
    /\ tutorialTrace = <<>> /\ tutorialTraceDropped = FALSE
    /\ tutorialTargetObject = NoObject /\ tutorialLastRequestedObject = NoObject
    /\ tutorialLayerSnapshots = NothingSeen
    /\ inputLayerPadCaptureActive = FALSE
    /\ tutorialSeen = NothingSeen

\* Mutant: the snapshots of the trace before stay.
ClearKeepsSnapshots == UNCHANGED tutorialLayerSnapshots

ClearSnapshots == tutorialLayerSnapshots' = NothingSeen

\* ClearTutorialTrace and StartTutorialTrace, with the first samples of the new
\* trace.  The capture of the pad is taken or dropped whoever else has it.
ResetTutorialTrace(running, samples, target) ==
    /\ tutorialTrace' = Recorded(<<>>, samples)
    /\ tutorialTraceDropped' = Overflows(<<>>, samples)
    /\ tutorialTargetObject' = target
    /\ tutorialLastRequestedObject' = NoObject
    /\ ClearSnapshots
    /\ tutorialTraceRunning' = running
    /\ inputLayerPadCaptureActive' = running
    /\ tutorialSeen' = NothingSeen

RecordTutorialTrace(samples) ==
    /\ tutorialTrace' = Recorded(tutorialTrace, samples)
    /\ tutorialTraceDropped' = (tutorialTraceDropped \/ Overflows(tutorialTrace, samples))

\* Switching the capture off stops the trace and leaves the pad's capture on.
ToggleTutorialCapture ==
    /\ tutorialCaptureEnabled' = ~tutorialCaptureEnabled
    /\ IF tutorialCaptureEnabled
       THEN /\ tutorialTraceRunning' = FALSE
            /\ UNCHANGED <<tutorialTrace, tutorialTraceDropped, tutorialTargetObject,
                           tutorialLastRequestedObject, tutorialLayerSnapshots,
                           inputLayerPadCaptureActive, tutorialSeen>>
       ELSE ResetTutorialTrace(TRUE, <<>>, NoObject)

DrawTutorialTrace ==
    \/ ToggleTutorialCapture
    \/ tutorialCaptureEnabled' = TRUE /\ ResetTutorialTrace(TRUE, <<>>, NoObject)
    \/ ResetTutorialTrace(FALSE, <<>>, NoObject) /\ UNCHANGED tutorialCaptureEnabled

OnTutorialBegin ==
    /\ tutorialCaptureEnabled
    /\ ResetTutorialTrace(TRUE, <<Other>>, NoObject)
    /\ UNCHANGED tutorialCaptureEnabled

\* Of whatever popup: the trace is not asked whose it is.
OnTutorialEnd ==
    /\ tutorialTraceRunning
    /\ RecordTutorialTrace(<<Other>>)
    /\ tutorialTraceRunning' = FALSE
    /\ UNCHANGED <<tutorialCaptureEnabled, tutorialTargetObject,
                   tutorialLastRequestedObject, tutorialLayerSnapshots,
                   inputLayerPadCaptureActive, tutorialSeen>>

OnTutorialListenerRegistered(object) ==
    /\ tutorialTraceRunning
    /\ RecordTutorialTrace(<<Other>>)
    /\ tutorialTargetObject' = object
    /\ tutorialLastRequestedObject' = NoObject
    /\ UNCHANGED <<tutorialCaptureEnabled, tutorialTraceRunning, tutorialLayerSnapshots,
                   inputLayerPadCaptureActive, tutorialSeen>>

OnTutorialListenerEvent(object) ==
    /\ tutorialTraceRunning
    /\ RecordTutorialTrace(<<Other>>)
    /\ tutorialTargetObject' = IF object = NoObject THEN tutorialTargetObject ELSE object
    /\ UNCHANGED <<tutorialCaptureEnabled, tutorialTraceRunning,
                   tutorialLastRequestedObject, tutorialLayerSnapshots,
                   inputLayerPadCaptureActive, tutorialSeen>>

\* ObserveListener's event 0x104, before the native handler: the event is recorded
\* in the old trace and a popup begins a new one, with its listener.
PopupStarts(object) ==
    /\ tutorialCaptureEnabled
    /\ ResetTutorialTrace(TRUE, <<Other, Other>>, object)
    /\ UNCHANGED tutorialCaptureEnabled

\* A request is recorded once a page; its acceptance makes way for the next.
OnTutorialAdvanceRequested(object) ==
    /\ tutorialTraceRunning /\ tutorialLastRequestedObject # object
    /\ RecordTutorialTrace(<<Other>>)
    /\ tutorialLastRequestedObject' = object
    /\ UNCHANGED <<tutorialCaptureEnabled, tutorialTraceRunning, tutorialTargetObject,
                   tutorialLayerSnapshots, inputLayerPadCaptureActive, tutorialSeen>>

OnTutorialAdvanceAccepted ==
    /\ tutorialTraceRunning
    /\ RecordTutorialTrace(<<Other>>)
    /\ tutorialLastRequestedObject' = NoObject
    /\ UNCHANGED <<tutorialCaptureEnabled, tutorialTraceRunning, tutorialTargetObject,
                   tutorialLayerSnapshots, inputLayerPadCaptureActive, tutorialSeen>>

\* TutorialSnapshotFor: the layer's own snapshot or a free one.
HasSnapshot(object) == tutorialLayerSnapshots[object] # Unseen
FreeSnapshot ==
    Cardinality({object \in TracedObjects : HasSnapshot(object)}) < SnapshotCapacity

OnTutorialInputLayerUpdateBefore(object) ==
    /\ tutorialTraceRunning /\ ~HasSnapshot(object)
    /\ IF FreeSnapshot
       THEN RecordTutorialTrace(<<Other>>)
       ELSE tutorialTraceDropped' = TRUE /\ UNCHANGED tutorialTrace
    /\ UNCHANGED <<tutorialCaptureEnabled, tutorialTraceRunning, tutorialTargetObject,
                   tutorialLastRequestedObject, tutorialLayerSnapshots,
                   inputLayerPadCaptureActive, tutorialSeen>>

OnTutorialInputLayerUpdateAfter(object, state) ==
    /\ tutorialTraceRunning
    /\ tutorialSeen' = [tutorialSeen EXCEPT ![object] = state]
    /\ IF HasSnapshot(object) \/ FreeSnapshot
       THEN /\ tutorialLayerSnapshots' = [tutorialLayerSnapshots EXCEPT ![object] = state]
            /\ IF tutorialLayerSnapshots[object] = state
               THEN UNCHANGED <<tutorialTrace, tutorialTraceDropped>>
               ELSE RecordTutorialTrace(<<LayerReturn(object, state)>>)
       ELSE /\ tutorialTraceDropped' = TRUE
            /\ UNCHANGED <<tutorialTrace, tutorialLayerSnapshots>>
    /\ UNCHANGED <<tutorialCaptureEnabled, tutorialTraceRunning, tutorialTargetObject,
                   tutorialLastRequestedObject, inputLayerPadCaptureActive>>

\* AutoCutsceneSkips starts and finishes a trace of its own.
CutsceneTraceCaptures ==
    /\ inputLayerPadCaptureActive' = ~inputLayerPadCaptureActive
    /\ UNCHANGED <<tutorialCaptureEnabled, tutorialTraceRunning, tutorialTrace,
                   tutorialTraceDropped, tutorialTargetObject,
                   tutorialLastRequestedObject, tutorialLayerSnapshots, tutorialSeen>>

TutorialTraceNext ==
    \/ DrawTutorialTrace
    \/ OnTutorialBegin
    \/ OnTutorialEnd
    \/ OnTutorialAdvanceAccepted
    \/ CutsceneTraceCaptures
    \/ \E object \in TracedObjects \cup {NoObject} : OnTutorialListenerEvent(object)
    \/ \E object \in TracedObjects :
          \/ OnTutorialListenerRegistered(object)
          \/ PopupStarts(object)
          \/ OnTutorialAdvanceRequested(object)
          \/ OnTutorialInputLayerUpdateBefore(object)
          \/ \E state \in LayerState : OnTutorialInputLayerUpdateAfter(object, state)

TracesSpec ==
    /\ AuxTraceInit /\ TutorialTraceInit
    /\ [][\/ AuxTraceNext /\ UNCHANGED tutorialVars
          \/ TutorialTraceNext /\ UNCHANGED auxVars]_<<auxVars, tutorialVars>>

-------------------------------------------------------------------------------
\* What a trace says last of a layer.
LastOf(trace, object) ==
    LET shown == {i \in DOMAIN trace : trace[i].object = object}
    IN  IF shown = {} THEN Unseen
        ELSE trace[CHOOSE i \in shown : \A j \in shown : j <= i].state

Faithful(trace, dropped, seen) ==
    dropped \/ \A object \in TracedObjects : LastOf(trace, object) = seen[object]

\* The traces leave out what did not change: through restarts, new objects and
\* updates within updates, a trace that counts nothing dropped still ends, for
\* every layer it followed, with the state the layer's last update had.
NothingIsLost ==
    /\ Faithful(auxTrace, auxTraceDropped, auxSeen)
    /\ Faithful(tutorialTrace, tutorialTraceDropped, tutorialSeen)

================================================================================
