---- MODULE AutoUi_proofs ----
(***************************************************************************)
(* Proofs about Auto Tutorials and Auto Cutscene Skips on the one slot of  *)
(* InputBuffer, for every set of popups, layers, objects and buttons: the  *)
(* types, and that an action of the tutorials which waits to be pressed    *)
(* has a popup that still wants it pressed.                                *)
(*                                                                         *)
(* The state falls into parts that the actions treat as one (SlotTyped,    *)
(* PadTyped, ...), so that an action's step speaks only of the parts it    *)
(* changes.                                                                *)
(***************************************************************************)
EXTENDS AutoUi, SequenceTheorems, TLAPS

----
(* Types, in parts.                                                        *)

OthersTyped ==
    /\ Enabled \in BOOLEAN
    /\ buttonFrames \subseteq Bit
    /\ physicalHeld \subseteq Bit
    /\ rawButtonOverrideActive \in BOOLEAN
    /\ acceptedActionCaptureActive \in BOOLEAN
    /\ acceptedActionCaptureWaitingForNeutral \in BOOLEAN
    /\ playbackOverrideActive \in BOOLEAN
    /\ playbackMode \in PlaybackModes
    /\ playbackAction \in AcceptedAction \cup {NoAction}
    /\ playbackUiActionOffered \in BOOLEAN
    /\ playbackUiDirectActionOffered \in BOOLEAN
    /\ scriptedBufferedMask \subseteq Bit
    /\ scriptedUiOfferedMask \subseteq Bit
    /\ layerRegistrations \in [1..MaxRegistrations -> Registration]
    /\ auxCoreAmountMenuActive \in BOOLEAN
    /\ auxCoreAmountMenuObject \in Object \cup {0}
    /\ auxCoreNativeAcceptanceActive \in BOOLEAN
    /\ auxCoreInputAge \in 0..AuxCoreAmountRepeatFrames

StacksTyped ==
    /\ layerStack \in Seq(Layer)
    /\ enabledStack \in Seq(SUBSET Bit)
    /\ Len(enabledStack) = Len(layerStack)

SlotTyped ==
    /\ autoUiActionPhase \in {"Idle", "Pending", "Neutral"}
    /\ autoUiActionObject \in Object \cup {0}
    /\ autoUiActionMask \subseteq Bit
    /\ autoUiActionOffered \in BOOLEAN

TraceTyped ==
    /\ inputLayerPadCaptureActive \in BOOLEAN
    /\ activeUiPadData \subseteq Bit
    /\ activeUiPadDataValid \in BOOLEAN
    /\ traceRunning \in BOOLEAN
    /\ profilerCaptureEnabled \in BOOLEAN
    /\ layerSnapshots \subseteq Layer

TutorialsTyped ==
    /\ tutorialsEnabled \in BOOLEAN
    /\ runtime \in [Family -> Runtime]
    /\ liveMenus \subseteq TutorialMenu

SkipsTyped ==
    /\ skipsEnabled \in BOOLEAN
    /\ phase \in PlaybackPhase
    /\ cutsceneActive \in BOOLEAN
    /\ aAttemptInProgress \in BOOLEAN
    /\ aAttemptObserved \in BOOLEAN
    /\ sincePlus \in 0..ConfirmationDelayFrames + 1
    /\ confirmationMenu \in BOOLEAN
    /\ confirmationObject \in Object \cup {0}
    /\ skipMenuLive \in BOOLEAN

Typed ==
    OthersTyped /\ StacksTyped /\ SlotTyped /\ TraceTyped /\ TutorialsTyped /\ SkipsTyped

LEMMA TypeParts == TypeOK <=> Typed
  BY DEF TypeOK, InputBufferTypeOK, Typed, OthersTyped, StacksTyped, SlotTyped,
     TraceTyped, TutorialsTyped, SkipsTyped

LEMMA TypePartsNext == TypeOK' <=> Typed'
  BY TypeParts, PTL

LEMMA OthersKept ==
    ASSUME OthersTyped, UNCHANGED <<buttonVars, captureVars, slotVars, offerVars,
                                    scriptedVars, layerRegistrations, auxVars>>
    PROVE  OthersTyped'
  BY DEF OthersTyped, buttonVars, captureVars, slotVars, offerVars, scriptedVars,
     auxVars

LEMMA StacksKept ==
    ASSUME StacksTyped, UNCHANGED <<layerStack, enabledStack>>
    PROVE  StacksTyped'
  BY DEF StacksTyped

LEMMA SlotKept ==
    ASSUME SlotTyped, UNCHANGED autoUiVars
    PROVE  SlotTyped'
  BY DEF SlotTyped, autoUiVars, autoUiActionVars

LEMMA TraceKept ==
    ASSUME TraceTyped, UNCHANGED <<traceVars, profilerCaptureEnabled>>
    PROVE  TraceTyped'
  BY DEF TraceTyped, traceVars, padVars

LEMMA TutorialsKept ==
    ASSUME TutorialsTyped, UNCHANGED <<tutorialVars, liveMenus>>
    PROVE  TutorialsTyped'
  BY DEF TutorialsTyped, tutorialVars

LEMMA SkipsKept ==
    ASSUME SkipsTyped, UNCHANGED <<skipVars, skipMenuLive>>
    PROVE  SkipsTyped'
  BY DEF SkipsTyped, skipVars, attemptVars, confirmationVars

\* A cancelled action leaves the slot empty, another's as it was.
LEMMA CancelSlot ==
    ASSUME SlotTyped, NEW object, CancelAutoUiAction(object)
    PROVE  /\ SlotTyped'
           /\ \/ autoUiActionPhase' = "Idle"
              \/ object # 0 /\ object # autoUiActionObject /\ UNCHANGED autoUiVars
  BY DEF SlotTyped, CancelAutoUiAction, autoUiVars, autoUiActionVars

LEMMA RequestSlot ==
    ASSUME SlotTyped, NEW object \in Object \cup {0}, NEW mask \in SUBSET Bit,
           RequestAutoUiAction(object, mask), autoUiActionOffered' \in BOOLEAN
    PROVE  /\ SlotTyped'
           /\ \/ UNCHANGED autoUiActionVars
              \/ /\ object # 0
                 /\ autoUiActionPhase' = "Pending"
                 /\ autoUiActionObject' = object
                 /\ autoUiActionMask' = mask
  BY DEF SlotTyped, RequestAutoUiAction, autoUiActionVars

LEMMA FamilyOfMenu ==
    ASSUME NEW menu \in TutorialMenu
    PROVE  /\ FamilyOf[menu] \in Family
           /\ OwnerOf[menu] \in Object
           /\ SendersOf[menu] \subseteq Object \cup {0}
           /\ menu # NoMenu
  BY AutoUiAssumption

----
(* The operators on a popup's runtime.                                     *)

LEMMA EmptyRuntimeType == EmptyRuntime \in Runtime /\ EmptyRuntime.menu = NoMenu
  BY Zenon DEF EmptyRuntime, Runtime

LEMMA BeginType ==
    ASSUME NEW menu \in TutorialMenu, NEW sender \in Object \cup {0}
    PROVE  /\ BeginTutorial(menu) \in Runtime
           /\ BeginTutorial(menu).menu = menu
           /\ ObserveRegisteredListener(BeginTutorial(menu), sender) \in Runtime
           /\ ObserveRegisteredListener(BeginTutorial(menu), sender).menu = menu
           /\ ObserveRegisteredListener(BeginTutorial(menu), sender).sender = sender
  BY DEF BeginTutorial, ObserveRegisteredListener, EmptyRuntime, Runtime

\* A listener event keeps the menu, and the sender that is known.
LEMMA ObservedType ==
    ASSUME NEW old \in Runtime, NEW event, NEW sender \in Object \cup {0},
           NEW idle \in BOOLEAN
    PROVE  /\ Observed(old, event, sender, idle) \in Runtime
           /\ Observed(old, event, sender, idle).menu = old.menu
           /\ Observed(old, event, sender, idle).sender
                 = IF old.sender = 0 THEN sender ELSE old.sender
  BY DEF Observed, Runtime

LEMMA AfterLookType ==
    ASSUME NEW old \in Runtime, NEW busy \in BOOLEAN
    PROVE  /\ AfterLook(old, busy) \in Runtime
           /\ AfterLook(old, busy).menu = old.menu
           /\ AfterLook(old, busy).sender = old.sender
  BY DEF AfterLook, Runtime

\* Disarming leaves menus and senders alone.
LEMMA DisarmedType ==
    ASSUME runtime \in [Family -> Runtime], NEW object
    PROVE  /\ Disarmed(object) \in [Family -> Runtime]
           /\ \A f \in Family : /\ Disarmed(object)[f].menu = runtime[f].menu
                                /\ Disarmed(object)[f].sender = runtime[f].sender
<1> DEFINE pressed == {i \in 1..4 : /\ runtime[FamilyOrder[i]].menu # NoMenu
                                    /\ runtime[FamilyOrder[i]].sender = object}
           g == FamilyOrder[FirstSlot(pressed)]
           one(f) == [runtime[f] EXCEPT !.advanceArmed = FALSE, !.observedBusy = FALSE]
<1>a. ASSUME NEW f \in Family
      PROVE  one(f) \in Runtime /\ one(f).menu = runtime[f].menu
             /\ one(f).sender = runtime[f].sender
  BY <1>a DEF Runtime
<1>b. Disarmed(object) = IF pressed = {} THEN runtime
                         ELSE [runtime EXCEPT ![g] = one(g)]
  BY DEF Disarmed
<1> HIDE DEF one, pressed, g
<1>c. \A f \in Family : [runtime EXCEPT ![g] = one(g)][f]
                           = IF f = g THEN one(g) ELSE runtime[f]
  OBVIOUS
<1>d. CASE pressed = {}
  BY <1>b, <1>d
<1>e. CASE pressed # {} /\ g \in Family
  BY <1>a, <1>b, <1>c, <1>e
<1>f. CASE pressed # {} /\ g \notin Family
  <2>a. [runtime EXCEPT ![g] = one(g)] = runtime
    BY <1>f
  <2> QED BY <1>b, <1>f, <2>a
<1> QED BY <1>d, <1>e, <1>f

----
(* The trace.                                                              *)

LEMMA TraceStep ==
    ASSUME TraceTyped, UNCHANGED profilerCaptureEnabled, NEW b \in BOOLEAN,
           StartTrace(b) \/ FinishTrace(b) \/ RestartTrace
    PROVE  TraceTyped' /\ (activeUiPadDataValid' => activeUiPadDataValid)
<1> USE DEF TraceTyped, traceVars, padVars, SetInputLayerPadCapture
<1>a. CASE StartTrace(b)
  BY <1>a DEF StartTrace
<1>b. CASE FinishTrace(b)
  BY <1>b DEF FinishTrace
<1>c. CASE RestartTrace
  BY <1>c DEF RestartTrace
<1> QED BY <1>a, <1>b, <1>c

----
(* Types are kept by every action.                                         *)

LEMMA TutorialFrameTypes ==
    ASSUME Typed, TutorialFrame
    PROVE  OthersTyped' /\ StacksTyped' /\ TraceTyped' /\ SkipsTyped'
  BY OthersKept, StacksKept, TraceKept, SkipsKept
     DEF Typed, TutorialFrame, otherInputVars, layerVars

LEMMA SkipFrameTypes ==
    ASSUME Typed, SkipFrame
    PROVE  OthersTyped' /\ StacksTyped' /\ TutorialsTyped'
  BY OthersKept, StacksKept, TutorialsKept
     DEF Typed, SkipFrame, otherInputVars, layerVars

LEMMA TutorialsKeepTypes ==
    ASSUME Typed, Tutorials
    PROVE  Typed'
<1>0. /\ SlotTyped /\ TutorialsTyped
      /\ runtime \in [Family -> Runtime] /\ liveMenus \subseteq TutorialMenu
  BY DEF Typed, TutorialsTyped
<1>a. ASSUME NEW menu \in TutorialMenu, NEW registers \in BOOLEAN,
             TutorialInitializes(menu, registers)
      PROVE  Typed'
  <2>a. OwnerOf[menu] \in Object \cup {0}
    BY FamilyOfMenu
  <2>b. TutorialsTyped'
    BY <1>0, <1>a, <2>a, BeginType DEF TutorialInitializes, TutorialsTyped
  <2> QED BY <1>0, <1>a, <2>b, SlotKept, TutorialFrameTypes DEF TutorialInitializes, Typed
<1>b. ASSUME NEW menu \in TutorialMenu, TutorialFinalizes(menu)
      PROVE  Typed'
  <2>a. TutorialsTyped'
    BY <1>0, <1>b, EmptyRuntimeType DEF TutorialFinalizes, EndTutorial, TutorialsTyped
  <2>b. SlotTyped'
    BY <1>0, <1>b, CancelSlot, SlotKept DEF TutorialFinalizes, EndTutorial
  <2> QED BY <1>b, <2>a, <2>b, TutorialFrameTypes DEF TutorialFinalizes, Typed
<1>c. ASSUME NEW menu \in TutorialMenu, NEW event \in TutorialEvent,
             NEW idle \in BOOLEAN, NEW sender \in SendersOf[menu],
             TutorialListener(menu, event, sender, idle)
      PROVE  Typed'
  <2> DEFINE f == FamilyOf[menu]
             new == ObserveRegisteredListener(BeginTutorial(menu), sender)
             seen == Observed(runtime[f], event, sender, idle)
  <2>a. f \in Family /\ sender \in Object \cup {0}
    BY FamilyOfMenu
  <2>b. new \in Runtime /\ seen \in Runtime
    BY <1>0, <2>a, BeginType, ObservedType
  <2>c. /\ UNCHANGED <<liveMenus, tutorialsEnabled>>
        /\ TutorialFrame
        /\ \/ runtime' = [runtime EXCEPT ![f] = new]
           \/ runtime' = [runtime EXCEPT ![f] = EmptyRuntime]
           \/ runtime' = [runtime EXCEPT ![f] = seen]
           \/ UNCHANGED runtime
    BY <1>c, Zenon DEF TutorialListener
  <2>d. \/ UNCHANGED autoUiVars
        \/ CancelAutoUiAction(runtime[f].sender)
        \/ CancelAutoUiAction(seen.sender)
    BY <1>c, Zenon DEF TutorialListener
  <2> HIDE DEF f, new, seen
  <2>e. TutorialsTyped'
    BY <1>0, <2>a, <2>b, <2>c, EmptyRuntimeType DEF TutorialsTyped
  <2>f. SlotTyped'
    BY <1>0, <2>d, CancelSlot, SlotKept
  <2> QED BY <2>c, <2>e, <2>f, TutorialFrameTypes DEF Typed
<1>d. ASSUME NEW menu \in TutorialMenu, NEW busy \in BOOLEAN,
             TutorialUpdates(menu, busy)
      PROVE  Typed'
  <2> DEFINE f == FamilyOf[menu]
             looked == IF f = "Standard" THEN runtime[f] ELSE AfterLook(runtime[f], busy)
  <2>a. f \in Family /\ runtime[f].sender \in Object \cup {0} /\ {AButton} \in SUBSET Bit
    BY <1>0, FamilyOfMenu, AutoUiAssumption DEF Runtime
  <2>b. looked \in Runtime
    BY <1>0, <2>a, AfterLookType
  <2>c. /\ runtime' = [runtime EXCEPT ![f] = looked]
        /\ UNCHANGED <<autoUiActionOffered, liveMenus, tutorialsEnabled>>
        /\ TutorialFrame
        /\ \/ UNCHANGED autoUiActionVars
           \/ RequestAutoUiAction(runtime[f].sender, {AButton})
    BY <1>d DEF TutorialUpdates
  <2> HIDE DEF f, looked
  <2>d. TutorialsTyped'
    BY <1>0, <2>a, <2>b, <2>c DEF TutorialsTyped
  <2>e. SlotTyped'
    BY <1>0, <2>a, <2>c, RequestSlot, SlotKept DEF autoUiVars, SlotTyped
  <2> QED BY <2>c, <2>d, <2>e, TutorialFrameTypes DEF Typed
<1>e. CASE ToggleTutorials
  <2>a. TutorialsTyped'
    BY <1>0, <1>e, EmptyRuntimeType DEF ToggleTutorials, TutorialsTyped
  <2> QED BY <1>0, <1>e, <2>a, CancelSlot, TutorialFrameTypes DEF ToggleTutorials, Typed
<1> QED BY <1>a, <1>b, <1>c, <1>d, <1>e DEF Tutorials

LEMMA FinishTypes ==
    ASSUME NEW next \in PlaybackPhase, Finish(next)
    PROVE  /\ phase' \in PlaybackPhase
           /\ aAttemptInProgress' \in BOOLEAN
           /\ sincePlus' \in 0..ConfirmationDelayFrames + 1
<1>a. 0 \in 0..ConfirmationDelayFrames + 1
  BY DEF ConfirmationDelayFrames
<1> QED BY <1>a DEF Finish

LEMMA ConfirmationCancelled ==
    ASSUME SlotTyped, CancelConfirmation
    PROVE  /\ SlotTyped'
           /\ \/ autoUiActionPhase' = "Idle"
              \/ confirmationObject # autoUiActionObject /\ UNCHANGED autoUiVars
              \/ confirmationObject = 0 /\ UNCHANGED autoUiVars
  BY CancelSlot, SlotKept DEF CancelConfirmation

LEMMA ResetTypes ==
    ASSUME Typed, NEW next \in PlaybackPhase, NEW active \in BOOLEAN,
           ResetPlaybackTo(next, active), UNCHANGED <<skipsEnabled, skipMenuLive>>
    PROVE  SlotTyped' /\ SkipsTyped'
<1>a. SlotTyped'
  BY ConfirmationCancelled DEF Typed, ResetPlaybackTo
<1>b. SkipsTyped'
  BY FinishTypes DEF Typed, SkipsTyped, ResetPlaybackTo
<1> QED BY <1>a, <1>b

LEMMA CutscenesKeepTypes ==
    ASSUME Typed, Cutscenes
    PROVE  Typed'
<1>0. /\ SlotTyped /\ SkipsTyped /\ TraceTyped
      /\ {"Idle", "Finished", "WaitingForPlusAcceptance", "WaitingForAFrame"}
            \subseteq PlaybackPhase
  BY DEF Typed, PlaybackPhase
<1>a. CASE StartScene
  <2> DEFINE next == IF skipsEnabled THEN "WaitingForPlusAcceptance" ELSE "Idle"
  <2>a. next \in PlaybackPhase
    BY <1>0
  <2>b. ResetPlaybackTo(next, TRUE) /\ UNCHANGED <<skipsEnabled, skipMenuLive>>
    BY <1>a DEF StartScene
  <2> HIDE DEF next
  <2>c. SlotTyped' /\ SkipsTyped'
    BY <2>a, <2>b, ResetTypes
  <2>d. TraceTyped'
    BY <1>0, <1>a, TraceStep DEF StartScene
  <2> QED BY <1>a, <2>c, <2>d, SkipFrameTypes DEF StartScene, Typed
<1>b. CASE EndScene
  <2>a. SlotTyped' /\ SkipsTyped'
    BY <1>0, <1>b, ResetTypes DEF EndScene, ResetPlaybackOnly
  <2>b. TraceTyped'
    BY <1>0, <1>b, TraceStep DEF EndScene, SkipsTyped
  <2> QED BY <1>b, <2>a, <2>b, SkipFrameTypes DEF EndScene, Typed
<1>c. CASE OpenSkip
  <2>a. SkipsTyped'
    BY <1>0, <1>c DEF OpenSkip, SkipsTyped, confirmationVars, ConfirmationDelayFrames
  <2>b. TraceTyped'
    BY <1>0, <1>c, TraceStep DEF OpenSkip, TraceTyped
  <2> QED BY <1>0, <1>c, <2>a, <2>b, SlotKept, SkipFrameTypes DEF OpenSkip, Typed
<1>d. CASE EventSkipInitializes
  <2>a. SkipsTyped'
    BY <1>0, <1>d DEF EventSkipInitializes, SkipsTyped, attemptVars
  <2>b. TraceTyped'
    BY <1>0, <1>d, TraceStep DEF EventSkipInitializes, TraceTyped
  <2> QED BY <1>0, <1>d, <2>a, <2>b, SlotKept, SkipFrameTypes
          DEF EventSkipInitializes, Typed
<1>e. CASE EventSkipFinalizes
  <2>a. SkipsTyped'
    BY <1>0, <1>e DEF EventSkipFinalizes, SkipsTyped, attemptVars, confirmationVars
  <2>b. SlotTyped'
    BY <1>0, <1>e, ConfirmationCancelled, SlotKept DEF EventSkipFinalizes
  <2> QED BY <1>0, <1>e, <2>a, <2>b, TraceKept, SkipFrameTypes
          DEF EventSkipFinalizes, Typed
<1>f. ASSUME NEW sender \in SkipSenders, EventSkipListener(sender)
      PROVE  Typed'
  <2>a. SkipsTyped'
    BY <1>0, <1>f, AutoUiAssumption DEF EventSkipListener, SkipsTyped, attemptVars
  <2> QED BY <1>0, <1>f, <2>a, SlotKept, TraceKept, SkipFrameTypes
          DEF EventSkipListener, Typed
<1>g. CASE SetSkipsEnabled
  <2>a. SkipsTyped'
    BY <1>0, <1>g, FinishTypes DEF SetSkipsEnabled, SkipsTyped, confirmationVars
  <2>b. SlotTyped'
    BY <1>0, <1>g, ConfirmationCancelled, SlotKept DEF SetSkipsEnabled
  <2> QED BY <1>0, <1>g, <2>a, <2>b, TraceKept, SkipFrameTypes DEF SetSkipsEnabled, Typed
<1> QED BY <1>a, <1>b, <1>c, <1>d, <1>e, <1>f, <1>g DEF Cutscenes

LEMMA GameKeepsTypes ==
    ASSUME Typed,
           TraceStarts \/ ProfilerWindow \/ FrameManagerUpdate \/ GameEventUpdate
               \/ SceneTransition
    PROVE  Typed'
<1>0. /\ SlotTyped /\ SkipsTyped /\ TraceTyped /\ TutorialsTyped
      /\ {"Idle", "Finished"} \subseteq PlaybackPhase
  BY DEF Typed, PlaybackPhase
<1>a. CASE TraceStarts
  <2>a. TraceTyped'
    BY <1>0, <1>a, TraceStep DEF TraceStarts, TraceTyped
  <2> QED BY <1>0, <1>a, <2>a, SlotKept, SkipsKept, SkipFrameTypes DEF TraceStarts, Typed
<1>b. CASE ProfilerWindow
  <2>a. TraceTyped'
    <3> USE DEF TraceTyped, traceVars, padVars, SetInputLayerPadCapture
    <3> QED BY <1>0, <1>b DEF ProfilerWindow, FinishTrace, StartTrace
  <2> QED BY <1>0, <1>b, <2>a, SlotKept, SkipsKept, SkipFrameTypes
          DEF ProfilerWindow, Typed
<1>c. CASE FrameManagerUpdate
  <2>a. SkipsTyped'
    BY <1>0, <1>c DEF FrameManagerUpdate, SkipsTyped, confirmationVars,
       ConfirmationDelayFrames
  <2> QED BY <1>0, <1>c, <2>a, SlotKept, TraceKept, SkipFrameTypes
          DEF FrameManagerUpdate, Typed
<1>d. CASE GameEventUpdate
  <2>a. SkipsTyped'
    BY <1>0, <1>d, FinishTypes DEF GameEventUpdate, SkipsTyped, confirmationVars
  <2> QED BY <1>0, <1>d, <2>a, CancelSlot, TraceKept, SkipFrameTypes
          DEF GameEventUpdate, Typed
<1>e. CASE SceneTransition
  <2>a. SkipsTyped'
    BY <1>0, <1>e, FinishTypes DEF SceneTransition, SkipsTyped, gameVars
  <2>b. TutorialsTyped'
    BY <1>0, <1>e, EmptyRuntimeType DEF SceneTransition, TutorialsTyped, gameVars
  <2>c. TraceTyped'
    BY <1>0, <1>e, TraceStep DEF SceneTransition
  <2>d. OthersTyped' /\ StacksTyped'
    BY <1>e, OthersKept, StacksKept DEF SceneTransition, otherInputVars, layerVars, Typed
  <2> QED BY <1>0, <1>e, <2>a, <2>b, <2>c, <2>d, CancelSlot DEF SceneTransition, Typed
<1> QED BY <1>a, <1>b, <1>c, <1>d, <1>e

----
(* InputBuffer's hooks.                                                    *)

LEMMA PrefixLength ==
    ASSUME NEW S, NEW s \in Seq(S), NEW n \in Nat, n <= Len(s)
    PROVE  SubSeq(s, 1, n) \in Seq(S) /\ Len(SubSeq(s, 1, n)) = n
  BY SubSeqProperties, ElementOfSeq, SMT

LEMMA FrontInSeq ==
    ASSUME NEW S, NEW s \in Seq(S), s # <<>>
    PROVE  Front(s) \in Seq(S) /\ Len(Front(s)) = Len(s) - 1 /\ Last(s) \in S
<1>a. Len(s) \in Nat /\ Len(s) > 0
  BY LenProperties, SMT
<1>b. Last(s) \in S
  BY <1>a, ElementOfSeq, SMT DEF Last
<1>c. PICK n \in Nat : n = Len(s) - 1
  BY <1>a
<1>d. n <= Len(s)
  BY <1>a, <1>c
<1>e. SubSeq(s, 1, n) \in Seq(S) /\ Len(SubSeq(s, 1, n)) = n
  BY <1>d, PrefixLength
<1> QED BY <1>b, <1>c, <1>e, Zenon DEF Front

LEMMA LastLayer ==
    ASSUME StacksTyped, layerStack # <<>>
    PROVE  updatingInputLayer \in Layer /\ updatingInputLayer # NoLayer
           /\ EnabledHere \in SUBSET Bit
<1>a. enabledStack # <<>>
  BY LenProperties, SMT DEF StacksTyped
<1>b. Last(layerStack) \in Layer /\ Last(enabledStack) \in SUBSET Bit
  BY <1>a, FrontInSeq DEF StacksTyped
<1> QED BY <1>b, LayerAssumption, Zenon DEF updatingInputLayer, EnabledHere

LEMMA LayerUpdateBeginsTypes ==
    ASSUME Typed, NEW layer \in Layer, NEW enabled \in EnabledMasks,
           LayerUpdateBegins(layer, enabled)
    PROVE  Typed'
<1>0. enabled \in SUBSET Bit /\ {AButton} \in SUBSET Bit
  BY BoundsAssumption, AutoUiAssumption
<1>a. StacksTyped'
  <2>a. layerStack' = Append(layerStack, layer) /\ enabledStack' = Append(enabledStack, enabled)
    BY DEF LayerUpdateBegins, EnterInputLayer
  <2> QED BY <1>0, <2>a, AppendProperties DEF Typed, StacksTyped
<1>b. OthersTyped'
  BY DEF Typed, OthersTyped, LayerUpdateBegins, EnterInputLayer, buttonVars, captureVars,
     slotVars, auxVars
<1>c. TraceTyped'
  BY DEF Typed, TraceTyped, LayerUpdateBegins, LayerFrame, EnterInputLayer
<1>d. TutorialsTyped'
  BY TutorialsKept DEF Typed, LayerUpdateBegins, LayerFrame, tutorialVars, gameVars
<1>e. SkipsTyped'
  BY DEF Typed, SkipsTyped, LayerUpdateBegins, LayerFrame, confirmationVars, gameVars,
     PlaybackPhase
<1>f. SlotTyped'
  <2>a. /\ autoUiActionOffered' = FALSE
        /\ \/ RequestAutoUiAction(confirmationObject, {AButton})
           \/ UNCHANGED autoUiActionVars
    BY DEF LayerUpdateBegins, EnterInputLayer
  <2> QED BY <1>0, <2>a, RequestSlot DEF Typed, SlotTyped, SkipsTyped, autoUiActionVars
<1> QED BY <1>a, <1>b, <1>c, <1>d, <1>e, <1>f DEF Typed

LEMMA PadWordTypes ==
    ASSUME TraceTyped, NEW words \in SUBSET Bit
    PROVE  /\ SeeUiPadData(words) => activeUiPadData' \subseteq Bit
                                     /\ activeUiPadDataValid' \in BOOLEAN
           /\ KeepNativePadData(words) => activeUiPadData' \subseteq Bit
                                          /\ activeUiPadDataValid' \in BOOLEAN
  BY DEF TraceTyped, SeeUiPadData, KeepNativePadData, padVars

LEMMA PadDataIsReadTypes ==
    ASSUME Typed, NEW words \in PadWords, PadDataIsRead(words)
    PROVE  Typed'
<1>0. /\ SlotTyped /\ OthersTyped /\ TraceTyped /\ SkipsTyped /\ TutorialsTyped
      /\ StacksTyped
      /\ autoUiActionMask \subseteq Bit /\ scriptedBufferedMask \subseteq Bit
  BY DEF Typed, SlotTyped, OthersTyped
<1>a. words \in SUBSET Bit /\ EnabledHere \in SUBSET Bit
  BY <1>0, BoundsAssumption, LastLayer DEF PadDataIsRead, OutsideLayers
<1>b. PICK enabled \in SUBSET Bit : enabled = EnabledHere
  BY <1>a
<1>c. /\ UIUtilGetPadData(words, enabled)
      /\ UNCHANGED <<runtime, phase, aAttemptInProgress, aAttemptObserved,
                     layerSnapshots, enabledStack>>
      /\ LayerFrame
  BY <1>b DEF PadDataIsRead
<1>d. /\ acceptedActionCaptureWaitingForNeutral' = CaptureWaitsAfter(words)
      /\ UNCHANGED <<acceptedActionCaptureActive, inputLayerPadCaptureActive,
                     buttonVars, slotVars, layerVars, auxVars>>
  BY <1>c DEF UIUtilGetPadData
<1>e. /\ UNCHANGED autoUiActionVars /\ autoUiActionOffered' \in BOOLEAN
      /\ activeUiPadData' \subseteq Bit /\ activeUiPadDataValid' \in BOOLEAN
      /\ scriptedBufferedMask' = scriptedBufferedMask
      /\ scriptedUiOfferedMask' \subseteq Bit
      /\ playbackUiActionOffered' \in BOOLEAN
      /\ playbackUiDirectActionOffered' \in BOOLEAN
  <2> USE DEF autoUiVars, offerVars, scriptedVars
  <2>0. /\ autoUiActionOffered \in BOOLEAN /\ scriptedUiOfferedMask \subseteq Bit
        /\ playbackUiActionOffered \in BOOLEAN
        /\ playbackUiDirectActionOffered \in BOOLEAN
    BY <1>0 DEF SlotTyped, OthersTyped
  <2>a. CASE GetNeutralPadData(words)
    BY <1>0, <1>a, <2>0, <2>a, PadWordTypes DEF GetNeutralPadData, SeeUiPadData
  <2>b. CASE OfferAutoUiAction(words, enabled)
    BY <1>0, <1>a, <2>0, <2>b, PadWordTypes DEF OfferAutoUiAction, SeeUiPadData
  <2>c. CASE OfferScriptedAction(words, enabled)
    BY <1>0, <1>a, <2>0, <2>c, PadWordTypes DEF OfferScriptedAction, SeeUiPadData
  <2>d. CASE OfferPlaybackAction(words, enabled)
    BY <1>0, <1>a, <2>0, <2>d, PadWordTypes DEF OfferPlaybackAction
  <2>e. CASE GetNativePadData(words, enabled)
    BY <1>0, <1>a, <2>0, <2>e, PadWordTypes DEF GetNativePadData
  <2> QED BY <1>c, <2>a, <2>b, <2>c, <2>d, <2>e DEF UIUtilGetPadData
<1>f. CaptureWaitsAfter(words) \in BOOLEAN
  BY DEF CaptureWaitsAfter
<1>g. OthersTyped'
  BY <1>0, <1>d, <1>e, <1>f DEF OthersTyped, buttonVars, slotVars, layerVars, auxVars
<1>h. StacksTyped' /\ SlotTyped' /\ TutorialsTyped' /\ SkipsTyped' /\ TraceTyped'
  <2>a. StacksTyped'
    BY <1>0, <1>c, <1>d, StacksKept DEF layerVars
  <2>b. SlotTyped'
    BY <1>0, <1>e DEF SlotTyped, autoUiActionVars
  <2>c. TutorialsTyped'
    BY <1>0, <1>c, TutorialsKept DEF LayerFrame, tutorialVars, gameVars
  <2>d. SkipsTyped'
    BY <1>0, <1>c DEF SkipsTyped, LayerFrame, confirmationVars, gameVars
  <2>e. TraceTyped'
    BY <1>0, <1>c, <1>d, <1>e DEF TraceTyped, LayerFrame
  <2> QED BY <2>a, <2>b, <2>c, <2>d, <2>e
<1> QED BY <1>g, <1>h DEF Typed

\* What the end of an update may do to the slot.
LEMMA AfterUpdateSlot ==
    ASSUME SlotTyped, NEW layer \in Layer, NEW out \in LayerOutcome,
           AutoUiAfterUpdate(layer, out)
    PROVE  /\ SlotTyped'
           /\ \/ autoUiActionPhase' # "Pending"
              \/ ~AutoUiActionAccepted(layer, out) /\ UNCHANGED autoUiVars
  BY DEF SlotTyped, AutoUiAfterUpdate, autoUiVars, autoUiActionVars

LEMMA LayerUpdateEndsTypes ==
    ASSUME Typed, NEW out \in LayerOutcome, LayerUpdateEnds(out)
    PROVE  Typed'
<1>0. /\ SlotTyped /\ OthersTyped /\ TraceTyped /\ SkipsTyped /\ TutorialsTyped
      /\ StacksTyped /\ layerStack # <<>> /\ enabledStack # <<>>
  <2>a. StacksTyped /\ layerStack # <<>>
    BY DEF Typed, LayerUpdateEnds, LeaveInputLayer
  <2>b. enabledStack # <<>>
    BY <2>a, LenProperties, SMT DEF StacksTyped
  <2> QED BY <2>a, <2>b DEF Typed
<1>a. PICK layer \in Layer : layer = updatingInputLayer
  BY <1>0, LastLayer
<1>b. /\ LeaveInputLayer(layer, out)
      /\ enabledStack' = Front(enabledStack)
      /\ ObserveAttempt(layer, out)
      /\ layerSnapshots' \in {layerSnapshots, layerSnapshots \cup {layer}}
      /\ runtime' \in {runtime, Disarmed(ObjectOf[layer])}
      /\ UNCHANGED <<tutorialsEnabled, skipsEnabled, cutsceneActive,
                     confirmationVars, traceRunning, profilerCaptureEnabled, gameVars>>
  BY <1>a DEF LayerUpdateEnds
<1>c. StacksTyped'
  BY <1>0, <1>b, FrontInSeq, LenProperties, SMT
     DEF StacksTyped, LeaveInputLayer, RestoreUpdatingLayer
<1>d. OthersTyped'
  BY <1>0, <1>b DEF OthersTyped, LeaveInputLayer, CompletePlaybackAction, buttonVars,
     captureVars, slotVars, offerVars, auxVars
<1>e. TraceTyped'
  BY <1>0, <1>b DEF TraceTyped, LeaveInputLayer, padVars
<1>f. TutorialsTyped'
  BY <1>0, <1>b, DisarmedType DEF TutorialsTyped, gameVars
<1>g. SkipsTyped'
  <2>a. "Finished" \in PlaybackPhase
    BY DEF PlaybackPhase
  <2> QED BY <1>0, <1>b, <2>a, FinishTypes
          DEF SkipsTyped, ObserveAttempt, confirmationVars, gameVars
<1>h. SlotTyped'
  BY <1>0, <1>b, AfterUpdateSlot, CancelSlot DEF ObserveAttempt
<1> QED BY <1>c, <1>d, <1>e, <1>f, <1>g, <1>h DEF Typed

LEMMA TypesNext ==
    ASSUME Typed, [Next]_vars
    PROVE  Typed'
<1>a. CASE Layers
  BY <1>a, LayerUpdateBeginsTypes, PadDataIsReadTypes, LayerUpdateEndsTypes DEF Layers
<1>b. CASE UNCHANGED vars
  BY <1>b DEF Typed, OthersTyped, StacksTyped, SlotTyped, TraceTyped, TutorialsTyped,
     SkipsTyped, vars, ibVars, buttonVars, captureVars, padVars, slotVars, offerVars,
     scriptedVars, autoUiVars, autoUiActionVars, layerVars, auxVars, tutorialVars,
     skipVars, attemptVars, confirmationVars, gameVars
<1> QED BY <1>a, <1>b, TutorialsKeepTypes, CutscenesKeepTypes, GameKeepsTypes DEF Next

LEMMA InitTypes == Init => Typed
<1> SUFFICES ASSUME Init PROVE Typed
  OBVIOUS
<1>a. OthersTyped
  <2>a. AuxCoreAmountRepeatFrames \in 0..AuxCoreAmountRepeatFrames
    BY DEF AuxCoreAmountRepeatFrames
  <2>b. [i \in 1..MaxRegistrations |-> FreeRegistration]
           \in [1..MaxRegistrations -> Registration]
    BY DEF Registration
  <2> QED BY <2>a, <2>b DEF Init, InputBufferInit, OthersTyped, PlaybackModes
<1>b. StacksTyped
  <2>a. layerStack = <<>> /\ enabledStack = <<>>
    BY DEF Init, InputBufferInit
  <2> QED BY <2>a, SMT DEF StacksTyped
<1>c. SlotTyped /\ TraceTyped
  BY DEF Init, InputBufferInit, SlotTyped, TraceTyped
<1>d. TutorialsTyped
  BY EmptyRuntimeType DEF Init, TutorialsTyped
<1>e. SkipsTyped
  <2>a. 0 \in 0..ConfirmationDelayFrames + 1
    BY DEF ConfirmationDelayFrames
  <2> QED BY <2>a DEF Init, SkipsTyped, PlaybackPhase
<1> QED BY <1>a, <1>b, <1>c, <1>d, <1>e DEF Typed

\* Whatever popups, cutscenes, layers and the player do, and however deep updates
\* are nested, every global of the two modules and of InputBuffer keeps its type.
THEOREM TypeCorrect == Spec => []TypeOK
<1>a. Init => Typed
  BY InitTypes
<1>b. Typed /\ [Next]_vars => Typed'
  BY TypesNext
<1> QED BY <1>a, <1>b, TypeParts, PTL DEF Spec

----
(***************************************************************************)
(* Who owns a pending action.                                              *)
(***************************************************************************)

\* What waits is wanted by a popup that is still shown, or was queued on an object
\* that an event of the confirmation named.
PendingInv ==
    /\ confirmationObject \in SkipSenders \cup {0}
    /\ autoUiActionPhase = "Pending" =>
          /\ autoUiActionObject # 0
          /\ WantedByPopup \/ autoUiActionObject \in SkipSenders

\* What decides about an owner, the slot aside.
PopupFacts == <<tutorialsEnabled, liveMenus, runtime>>

LEMMA PopupStays ==
    ASSUME WantedByPopup, UNCHANGED PopupFacts, UNCHANGED autoUiActionObject
    PROVE  WantedByPopup'
  BY DEF WantedByPopup, PopupFacts, RuntimeOf

\* A step that leaves the popups alone, and the slot too or empties it.
LEMMA OwnerKept ==
    ASSUME PendingInv, UNCHANGED PopupFacts,
           confirmationObject' \in SkipSenders \cup {0},
           \/ UNCHANGED <<autoUiActionPhase, autoUiActionObject>>
           \/ autoUiActionPhase' # "Pending"
    PROVE  PendingInv'
  BY PopupStays DEF PendingInv

----
(* Popups: an owner's popup can go only with its action.                   *)

\* The slot is untouched, and so are the live popup and its sender.
LEMMA OwnerStays ==
    ASSUME PendingInv, TutorialFrame, UNCHANGED autoUiVars,
           WantedByPopup => WantedByPopup'
    PROVE  PendingInv'
<1>a. /\ UNCHANGED <<autoUiActionPhase, autoUiActionObject>>
      /\ UNCHANGED confirmationObject
  BY DEF TutorialFrame, skipVars, confirmationVars, autoUiVars, autoUiActionVars
<1> QED BY <1>a DEF PendingInv

\* Nothing waits any more.
LEMMA OwnerGone ==
    ASSUME PendingInv, TutorialFrame, autoUiActionPhase' # "Pending"
    PROVE  PendingInv'
  BY DEF PendingInv, TutorialFrame, skipVars, confirmationVars

LEMMA TutorialsKeepOwner ==
    ASSUME Typed, PendingInv, Tutorials
    PROVE  PendingInv'
<1>0. /\ SlotTyped
      /\ runtime \in [Family -> Runtime] /\ liveMenus \subseteq TutorialMenu
  BY DEF Typed, TutorialsTyped
\* A popup is initialized only when no other of its family is shown.
<1>a. ASSUME NEW menu \in TutorialMenu, NEW registers \in BOOLEAN,
             TutorialInitializes(menu, registers)
      PROVE  PendingInv'
  <2>a. ASSUME WantedByPopup
        PROVE  WantedByPopup'
    <3>a. PICK owner \in liveMenus :
             /\ runtime[FamilyOf[owner]].menu = owner
             /\ runtime[FamilyOf[owner]].sender = autoUiActionObject
      BY <2>a DEF WantedByPopup, RuntimeOf
    <3>b. FamilyOf[owner] # FamilyOf[menu] /\ FamilyOf[owner] \in Family
      BY <1>0, <1>a, FamilyOfMenu DEF TutorialInitializes
    <3>c. runtime'[FamilyOf[owner]] = runtime[FamilyOf[owner]] /\ owner \in liveMenus'
      BY <1>0, <1>a, <3>b DEF TutorialInitializes
    <3>d. tutorialsEnabled' /\ autoUiActionObject' = autoUiActionObject
      BY <1>a, <2>a DEF TutorialInitializes, WantedByPopup, autoUiVars, autoUiActionVars
    <3> QED BY <3>a, <3>c, <3>d DEF WantedByPopup, RuntimeOf
  <2> QED BY <1>a, <2>a, OwnerStays DEF TutorialInitializes
<1>b. ASSUME NEW menu \in TutorialMenu, TutorialFinalizes(menu)
      PROVE  PendingInv'
  <2>a. CASE autoUiActionPhase' # "Pending"
    BY <1>b, <2>a, OwnerGone DEF TutorialFinalizes
  <2>b. CASE autoUiActionPhase' = "Pending"
    <3>a. UNCHANGED autoUiVars
          /\ \/ UNCHANGED runtime /\ RuntimeOf(menu).menu # menu
             \/ /\ runtime' = [runtime EXCEPT ![FamilyOf[menu]] = EmptyRuntime]
                /\ RuntimeOf(menu).sender # autoUiActionObject
                /\ RuntimeOf(menu).menu = menu
      BY <1>0, <1>b, <2>b, CancelSlot DEF TutorialFinalizes, EndTutorial
    <3>b. ASSUME WantedByPopup
          PROVE  WantedByPopup'
      <4>a. PICK owner \in liveMenus :
               /\ runtime[FamilyOf[owner]].menu = owner
               /\ runtime[FamilyOf[owner]].sender = autoUiActionObject
        BY <3>b DEF WantedByPopup, RuntimeOf
      <4>b. owner # menu /\ FamilyOf[owner] \in Family
        BY <1>0, <3>a, <4>a, FamilyOfMenu DEF RuntimeOf
      <4>c. runtime'[FamilyOf[owner]] = runtime[FamilyOf[owner]]
        BY <1>0, <3>a, <4>a, <4>b DEF RuntimeOf
      <4>d. owner \in liveMenus' /\ tutorialsEnabled'
            /\ autoUiActionObject' = autoUiActionObject
        BY <1>b, <3>a, <3>b, <4>b DEF TutorialFinalizes, WantedByPopup, autoUiVars,
           autoUiActionVars
      <4> QED BY <4>a, <4>c, <4>d DEF WantedByPopup, RuntimeOf
    <3> QED BY <1>b, <3>a, <3>b, OwnerStays DEF TutorialFinalizes
  <2> QED BY <2>a, <2>b
<1>c. ASSUME NEW menu \in TutorialMenu, NEW event \in TutorialEvent,
             NEW idle \in BOOLEAN, NEW sender \in SendersOf[menu],
             TutorialListener(menu, event, sender, idle)
      PROVE  PendingInv'
  <2> DEFINE f == FamilyOf[menu]
             new == ObserveRegisteredListener(BeginTutorial(menu), sender)
             seen == Observed(runtime[f], event, sender, idle)
  <2>a. f \in Family /\ sender \in Object \cup {0}
    BY FamilyOfMenu
  <2>b. /\ seen.menu = runtime[f].menu
        /\ runtime[f].sender # 0 => seen.sender = runtime[f].sender
    BY <1>0, <2>a, ObservedType
  <2>c. /\ UNCHANGED <<liveMenus, tutorialsEnabled>>
        /\ TutorialFrame
        /\ \/ /\ CancelAutoUiAction(runtime[f].sender)
              /\ runtime' = [runtime EXCEPT ![f] = new]
           \/ UNCHANGED <<autoUiVars, runtime>>
           \/ /\ CancelAutoUiAction(seen.sender)
              /\ runtime' = [runtime EXCEPT ![f] = EmptyRuntime]
           \/ /\ runtime' = [runtime EXCEPT ![f] = seen]
              /\ UNCHANGED autoUiVars
    BY <1>c, Zenon DEF TutorialListener
  <2> HIDE DEF f, new, seen
  <2>d. CASE autoUiActionPhase' # "Pending"
    BY <2>c, <2>d, OwnerGone
  <2>e. CASE autoUiActionPhase' = "Pending"
    <3>a. /\ UNCHANGED autoUiVars
          /\ \/ /\ runtime[f].sender # autoUiActionObject \/ seen.sender # autoUiActionObject
                /\ \E r : runtime' = [runtime EXCEPT ![f] = r]
             \/ UNCHANGED runtime
             \/ runtime' = [runtime EXCEPT ![f] = seen]
      BY <1>0, <2>c, <2>e, CancelSlot, Zenon
    <3>b. autoUiActionPhase = "Pending" /\ autoUiActionObject # 0
      BY <2>e, <3>a DEF PendingInv, autoUiVars, autoUiActionVars
    <3>c. ASSUME WantedByPopup
          PROVE  WantedByPopup'
      <4>a. PICK owner \in liveMenus :
               /\ runtime[FamilyOf[owner]].menu = owner
               /\ runtime[FamilyOf[owner]].sender = autoUiActionObject
        BY <3>c DEF WantedByPopup, RuntimeOf
      <4>b. FamilyOf[owner] \in Family
        BY <1>0, FamilyOfMenu
      <4>c. /\ runtime'[FamilyOf[owner]].menu = runtime[FamilyOf[owner]].menu
            /\ runtime'[FamilyOf[owner]].sender = runtime[FamilyOf[owner]].sender
        <5>a. CASE FamilyOf[owner] # f
          BY <1>0, <3>a, <4>b, <5>a
        <5>b. CASE FamilyOf[owner] = f
          <6>a. runtime[f].sender # 0 /\ seen.sender = runtime[f].sender
            BY <2>b, <3>b, <4>a, <5>b
          <6>b. runtime' = runtime \/ runtime'[f] = seen
            BY <1>0, <2>a, <3>a, <4>a, <5>b, <6>a
          <6> QED BY <2>b, <5>b, <6>a, <6>b
        <5> QED BY <5>a, <5>b
      <4>d. owner \in liveMenus' /\ tutorialsEnabled'
            /\ autoUiActionObject' = autoUiActionObject
        BY <2>c, <3>a, <3>c DEF WantedByPopup, autoUiVars, autoUiActionVars
      <4> QED BY <4>a, <4>c, <4>d DEF WantedByPopup, RuntimeOf
    <3> QED BY <2>c, <3>a, <3>c, OwnerStays
  <2> QED BY <2>d, <2>e
\* The popup that asks is shown, and its sender is the action's object.
<1>d. ASSUME NEW menu \in TutorialMenu, NEW busy \in BOOLEAN,
             TutorialUpdates(menu, busy)
      PROVE  PendingInv'
  <2> DEFINE f == FamilyOf[menu]
             looked == IF f = "Standard" THEN runtime[f] ELSE AfterLook(runtime[f], busy)
  <2>a. f \in Family /\ runtime[f] \in Runtime
    BY <1>0, FamilyOfMenu
  <2>b. looked.menu = runtime[f].menu /\ looked.sender = runtime[f].sender
    BY <2>a, AfterLookType
  <2>c. /\ runtime' = [runtime EXCEPT ![f] = looked]
        /\ UNCHANGED <<autoUiActionOffered, liveMenus, tutorialsEnabled>>
        /\ TutorialFrame
        /\ \/ UNCHANGED autoUiActionVars
           \/ RequestAutoUiAction(runtime[f].sender, {AButton})
        /\ menu \in liveMenus /\ tutorialsEnabled
        /\ runtime[f].menu = menu
    BY <1>d DEF TutorialUpdates
  <2>d. \A g \in Family : /\ runtime'[g].menu = runtime[g].menu
                         /\ runtime'[g].sender = runtime[g].sender
    <3> HIDE DEF f, looked
    <3> QED BY <1>0, <2>a, <2>b, <2>c
  <2>e. CASE UNCHANGED autoUiActionVars
    <3>a. UNCHANGED autoUiVars
      BY <2>c, <2>e DEF autoUiVars
    <3>b. WantedByPopup => WantedByPopup'
      BY <1>0, <2>c, <2>d, <2>e, FamilyOfMenu DEF WantedByPopup, RuntimeOf, autoUiActionVars
    <3> QED BY <2>c, <3>a, <3>b, OwnerStays
  <2>f. CASE ~UNCHANGED autoUiActionVars
    <3>a. autoUiActionObject' = runtime[f].sender /\ autoUiActionObject' # 0
      BY <2>c, <2>f DEF RequestAutoUiAction
    <3>b. WantedByPopup'
      BY <2>a, <2>c, <2>d, <3>a DEF WantedByPopup, RuntimeOf
    <3>c. UNCHANGED confirmationObject
      BY <2>c DEF TutorialFrame, skipVars, confirmationVars
    <3> QED BY <3>a, <3>b, <3>c DEF PendingInv
  <2> QED BY <2>e, <2>f
<1>e. CASE ToggleTutorials
  <2>a. autoUiActionPhase' = "Idle"
    BY <1>0, <1>e, CancelSlot DEF ToggleTutorials
  <2> QED BY <1>e, <2>a, OwnerGone DEF ToggleTutorials
<1> QED BY <1>a, <1>b, <1>c, <1>d, <1>e DEF Tutorials

----
(* Cutscenes: they let go of what they queued, and touch no popup.         *)

LEMMA SkipFrameKeeps ==
    ASSUME SkipFrame
    PROVE  UNCHANGED PopupFacts
  BY DEF SkipFrame, tutorialVars, PopupFacts

\* Cancelling, by whatever object, leaves the slot empty or as it was.
LEMMA CancelKeepsOwner ==
    ASSUME SlotTyped, PendingInv, UNCHANGED PopupFacts,
           confirmationObject' \in SkipSenders \cup {0},
           NEW object, CancelAutoUiAction(object) \/ UNCHANGED autoUiVars
    PROVE  PendingInv'
<1>a. \/ UNCHANGED <<autoUiActionPhase, autoUiActionObject>>
      \/ autoUiActionPhase' # "Pending"
  BY CancelSlot DEF autoUiVars, autoUiActionVars
<1> QED BY <1>a, OwnerKept

LEMMA CutscenesKeepOwner ==
    ASSUME Typed, PendingInv, Cutscenes
    PROVE  PendingInv'
<1>0. SlotTyped /\ confirmationObject \in SkipSenders \cup {0}
  BY DEF Typed, PendingInv
<1>a. ASSUME SkipFrame, confirmationObject' \in SkipSenders \cup {0},
             CancelConfirmation \/ UNCHANGED autoUiVars
      PROVE  PendingInv'
  BY <1>0, <1>a, SkipFrameKeeps, CancelKeepsOwner DEF CancelConfirmation
<1>b. CASE StartScene
  BY <1>a, <1>b DEF StartScene, ResetPlaybackTo
<1>c. CASE EndScene
  BY <1>a, <1>c DEF EndScene, ResetPlaybackOnly, ResetPlaybackTo
<1>d. CASE OpenSkip
  BY <1>0, <1>a, <1>d DEF OpenSkip, confirmationVars
<1>e. CASE EventSkipInitializes
  BY <1>0, <1>a, <1>e DEF EventSkipInitializes
<1>f. CASE EventSkipFinalizes
  BY <1>0, <1>a, <1>f DEF EventSkipFinalizes, confirmationVars
<1>g. ASSUME NEW sender \in SkipSenders, EventSkipListener(sender)
      PROVE  PendingInv'
  BY <1>a, <1>g DEF EventSkipListener
<1>h. CASE SetSkipsEnabled
  BY <1>0, <1>a, <1>h DEF SetSkipsEnabled, confirmationVars
<1> QED BY <1>b, <1>c, <1>d, <1>e, <1>f, <1>g, <1>h DEF Cutscenes

LEMMA GameKeepsOwner ==
    ASSUME Typed, PendingInv,
           TraceStarts \/ ProfilerWindow \/ FrameManagerUpdate \/ GameEventUpdate
               \/ SceneTransition
    PROVE  PendingInv'
<1>0. SlotTyped /\ confirmationObject \in SkipSenders \cup {0}
  BY DEF Typed, PendingInv
<1>a. ASSUME SkipFrame, UNCHANGED autoUiVars, UNCHANGED confirmationObject
      PROVE  PendingInv'
  BY <1>0, <1>a, SkipFrameKeeps, CancelKeepsOwner
<1>b. CASE TraceStarts
  BY <1>a, <1>b DEF TraceStarts, skipVars, confirmationVars
<1>c. CASE ProfilerWindow
  BY <1>a, <1>c DEF ProfilerWindow, skipVars, confirmationVars
<1>d. CASE FrameManagerUpdate
  BY <1>a, <1>d DEF FrameManagerUpdate, confirmationVars
<1>e. CASE GameEventUpdate
  BY <1>0, <1>e, SkipFrameKeeps, CancelKeepsOwner DEF GameEventUpdate, confirmationVars
<1>f. CASE SceneTransition
  <2>a. autoUiActionPhase' = "Idle"
    BY <1>0, <1>f, CancelSlot DEF SceneTransition
  <2> QED BY <1>f, <2>a DEF PendingInv, SceneTransition
<1> QED BY <1>b, <1>c, <1>d, <1>e, <1>f

----
(* Layers: what is queued here is queued on the confirmation's object.     *)

LEMMA LayerFrameKeeps ==
    ASSUME LayerFrame
    PROVE  UNCHANGED <<tutorialsEnabled, liveMenus, confirmationObject>>
  BY DEF LayerFrame, confirmationVars, gameVars

LEMMA LayerUpdateBeginsKeepsOwner ==
    ASSUME Typed, PendingInv, NEW layer \in Layer, NEW enabled \in EnabledMasks,
           LayerUpdateBegins(layer, enabled)
    PROVE  PendingInv'
<1>a. UNCHANGED PopupFacts /\ UNCHANGED confirmationObject
  BY LayerFrameKeeps DEF LayerUpdateBegins, PopupFacts
<1>b. CASE UNCHANGED autoUiActionVars
  BY <1>a, <1>b, OwnerKept DEF PendingInv, autoUiActionVars
\* A layer's object is never 0, so that the object is one an event named.
<1>c. CASE ~UNCHANGED autoUiActionVars
  <2>a. /\ ConfirmationIsDue(layer, enabled)
        /\ RequestAutoUiAction(confirmationObject, {AButton})
    BY <1>c DEF LayerUpdateBegins
  <2>b. autoUiActionObject' = confirmationObject /\ confirmationObject # 0
    BY <1>c, <2>a DEF RequestAutoUiAction
  <2> QED BY <1>a, <2>b DEF PendingInv
<1> QED BY <1>b, <1>c

LEMMA PadDataIsReadKeepsOwner ==
    ASSUME PendingInv, NEW words, PadDataIsRead(words)
    PROVE  PendingInv'
<1>a. UNCHANGED PopupFacts /\ UNCHANGED confirmationObject
  BY LayerFrameKeeps DEF PadDataIsRead, PopupFacts
<1>b. UNCHANGED autoUiActionVars
  BY DEF PadDataIsRead, UIUtilGetPadData, GetNeutralPadData, OfferAutoUiAction,
     OfferScriptedAction, OfferPlaybackAction, GetNativePadData, autoUiVars
<1> QED BY <1>a, <1>b, OwnerKept DEF PendingInv, autoUiActionVars

\* A popup that is disarmed is shown all the same, under the same sender.
LEMMA LayerUpdateEndsKeepsOwner ==
    ASSUME Typed, PendingInv, NEW out \in LayerOutcome, LayerUpdateEnds(out)
    PROVE  PendingInv'
<1>0. SlotTyped /\ runtime \in [Family -> Runtime] /\ liveMenus \subseteq TutorialMenu
  BY DEF Typed, TutorialsTyped
<1>a. PICK layer \in Layer : layer = updatingInputLayer
  <2>a. StacksTyped /\ layerStack # <<>>
    BY DEF Typed, LayerUpdateEnds, LeaveInputLayer
  <2> QED BY <2>a, LastLayer
<1>b. /\ ObserveAttempt(layer, out)
      /\ runtime' \in {runtime, Disarmed(ObjectOf[layer])}
      /\ UNCHANGED <<tutorialsEnabled, liveMenus, confirmationObject>>
  BY <1>a DEF LayerUpdateEnds, confirmationVars, gameVars
<1>c. CASE autoUiActionPhase' # "Pending"
  BY <1>b, <1>c DEF PendingInv
<1>d. CASE autoUiActionPhase' = "Pending"
  <2>a. UNCHANGED <<autoUiActionPhase, autoUiActionObject>>
    <3>a. UNCHANGED autoUiVars
      BY <1>0, <1>b, <1>d, AfterUpdateSlot, CancelSlot DEF ObserveAttempt
    <3> QED BY <3>a DEF autoUiVars, autoUiActionVars
  <2>b. ASSUME WantedByPopup
        PROVE  WantedByPopup'
    <3>a. PICK owner \in liveMenus :
             /\ runtime[FamilyOf[owner]].menu = owner
             /\ runtime[FamilyOf[owner]].sender = autoUiActionObject
      BY <2>b DEF WantedByPopup, RuntimeOf
    <3>b. FamilyOf[owner] \in Family
      BY <1>0, FamilyOfMenu
    <3>c. /\ runtime'[FamilyOf[owner]].menu = owner
          /\ runtime'[FamilyOf[owner]].sender = autoUiActionObject
      BY <1>0, <1>b, <3>a, <3>b, DisarmedType
    <3> QED BY <1>b, <2>a, <2>b, <3>a, <3>c DEF WantedByPopup, RuntimeOf
  <2> QED BY <1>b, <2>a, <2>b DEF PendingInv
<1> QED BY <1>c, <1>d

LEMMA PendingNext ==
    ASSUME Typed, PendingInv, [Next]_vars
    PROVE  PendingInv'
<1>a. CASE Layers
  BY <1>a, LayerUpdateBeginsKeepsOwner, PadDataIsReadKeepsOwner, LayerUpdateEndsKeepsOwner
     DEF Layers
<1>b. CASE UNCHANGED vars
  BY <1>b, OwnerKept DEF PendingInv, PopupFacts, vars, ibVars, autoUiVars,
     autoUiActionVars, tutorialVars, skipVars, confirmationVars, gameVars
<1> QED BY <1>a, <1>b, TutorialsKeepOwner, CutscenesKeepOwner, GameKeepsOwner DEF Next

\* No A of the tutorials outlives its popup: an A that waits on an object which no event
\* of a confirmation carries belongs to a popup that is still shown, with the option on.
\* This for all popups, families, objects and layers, however deep updates are nested and
\* however popups, cutscenes and the two options cross in the one slot.
THEOREM TutorialActionIsOwnedHolds == Spec => []TutorialActionIsOwned
<1>a. Init => Typed /\ PendingInv
  <2>a. Init => PendingInv
    BY DEF Init, InputBufferInit, PendingInv
  <2> QED BY <2>a, InitTypes
<1>b. Typed /\ PendingInv /\ [Next]_vars => (Typed /\ PendingInv)'
  BY TypesNext, PendingNext
<1>c. PendingInv => TutorialActionIsOwned
  BY DEF PendingInv, TutorialActionIsOwned
<1> QED BY <1>a, <1>b, <1>c, PTL DEF Spec

====
