---- MODULE MenuHelper_proofs ----
(***************************************************************************)
(* Proofs about MenuHelper, for every set of recordings, kinds, layers,    *)
(* handles and buttons.                                                    *)
(*                                                                         *)
(* The inductive invariant is IInv: the types, and four facts that tie a   *)
(* session to the input layer below it.  The handlers change a session     *)
(* only through a handful of operators (BeginActiveSession, StopPlayback,  *)
(* ...), so there is one lemma per operator, which says that it keeps the  *)
(* session part of the invariant and makes a step of the abstract Replay,  *)
(* and one step per action, which adds the variables outside a session.    *)
(***************************************************************************)
EXTENDS MenuHelper, SequenceTheorems, WellFoundedInduction, TLAPS

----
(* Sequences.                                                              *)

LEMMA SubSeqNone ==
    ASSUME NEW s
    PROVE  SubSeq(s, 1, 0) = <<>>
  BY SubSeqEmpty, SMT

\* One more element of a prefix.
LEMMA PrefixGrows ==
    ASSUME NEW S, NEW s \in Seq(S), NEW n \in Nat, n < Len(s)
    PROVE  SubSeq(s, 1, n + 1) = Append(SubSeq(s, 1, n), s[n + 1])
<1>a. /\ 1 \in 1..Len(s) /\ n + 1 \in 1..Len(s) /\ n + 1 \in 1..Len(s)
      /\ s[n + 1] \in S
  BY ElementOfSeq, SMT
<1>b. SubSeq(s, 1, n) \in Seq(S)
  BY <1>a, SubSeqProperties, ElementOfSeq, SMT
<1>c. SubSeq(s, 1, n + 1) = SubSeq(s, 1, n) \o <<s[n + 1]>>
  <2>a. (n + 1) - 1 = n
    BY SMT
  <2>b. SubSeq(s, 1, n + 1) = SubSeq(s, 1, (n + 1) - 1) \o <<s[n + 1]>>
    BY <1>a, SubSeqRecursiveSecond, SMT
  <2> QED BY <2>a, <2>b
<1> QED BY <1>a, <1>b, <1>c, AppendIsConcat

LEMMA PrefixLength ==
    ASSUME NEW S, NEW s \in Seq(S), NEW n \in Nat, n <= Len(s)
    PROVE  /\ SubSeq(s, 1, n) \in Seq(S)
           /\ Len(SubSeq(s, 1, n)) = n
  BY SubSeqProperties, ElementOfSeq, SMT

\* Replacing an entry, whether or not it exists.
LEMMA ExceptInSeq ==
    ASSUME NEW S, NEW s \in Seq(S), NEW i, NEW e \in S
    PROVE  [s EXCEPT ![i] = e] \in Seq(S)
<1>a. CASE i \in 1..Len(s)
  BY <1>a, ExceptSeq
<1>b. CASE i \notin 1..Len(s)
  <2>a. s = [j \in 1..Len(s) |-> s[j]]
    BY LenProperties
  <2>b. [s EXCEPT ![i] = e] = s
    BY <1>b, <2>a, SMT
  <2> QED BY <2>b
<1> QED BY <1>a, <1>b

LEMMA RemoveAtInSeq ==
    ASSUME NEW S, NEW s \in Seq(S), NEW i \in 1..Len(s)
    PROVE  RemoveAt(s, i) \in Seq(S)
<1>a. SubSeq(s, 1, i - 1) \in Seq(S)
  BY SubSeqProperties, ElementOfSeq, LenProperties, SMT
<1>b. SubSeq(s, i + 1, Len(s)) \in Seq(S)
  BY SubSeqProperties, ElementOfSeq, LenProperties, SMT
<1> QED BY <1>a, <1>b, ConcatProperties DEF RemoveAt

LEMMA FrontInSeq ==
    ASSUME NEW S, NEW s \in Seq(S)
    PROVE  Front(s) \in Seq(S)
  BY SubSeqProperties, ElementOfSeq, LenProperties, SMT DEF Front

----
(***************************************************************************)
(* The invariant, in the parts that the operators of MenuHelper change     *)
(* together.                                                               *)
(***************************************************************************)

\* The types of controlVars: the session, the recordings and the draft, the
\* slot, and the capture with the offers.
SessionTypeOK ==
    /\ state \in HelperState
    /\ activeKind \in AllKinds
    /\ playbackActions \in Seq(AcceptedAction)
    /\ playbackRecording \in Nat
    /\ playbackIndex \in Nat
    /\ playbackNeutralFrames \in 0..2
    /\ delivered \in Seq(AcceptedAction)
    /\ sinceDelivery \in 0..2

DraftTypeOK ==
    /\ recordings \in Seq(Recording)
    /\ draftActions \in Seq(AcceptedAction)
    /\ lastRecordedAction \in AcceptedAction \cup {NoAction}

SlotTypeOK ==
    /\ playbackOverrideActive \in BOOLEAN
    /\ playbackMode \in PlaybackModes
    /\ playbackAction \in AcceptedAction \cup {NoAction}
    /\ auxCoreNativeAcceptanceActive \in BOOLEAN

CaptureTypeOK ==
    /\ acceptedActionCaptureActive \in BOOLEAN
    /\ acceptedActionCaptureWaitingForNeutral \in BOOLEAN
    /\ activeUiPadDataValid \in BOOLEAN
    /\ playbackUiActionOffered \in BOOLEAN
    /\ playbackUiDirectActionOffered \in BOOLEAN

ControlTypeOK == SessionTypeOK /\ DraftTypeOK /\ SlotTypeOK /\ CaptureTypeOK

\* The types of otherInputVars.
OtherInputTypeOK ==
    /\ Enabled \in BOOLEAN
    /\ buttonFrames \subseteq Bit
    /\ physicalHeld \subseteq Bit
    /\ rawButtonOverrideActive \in BOOLEAN
    /\ inputLayerPadCaptureActive \in BOOLEAN
    /\ activeUiPadData \subseteq Bit
    /\ scriptedBufferedMask \subseteq Bit
    /\ scriptedUiOfferedMask \subseteq Bit
    /\ autoUiActionPhase \in {"Idle", "Pending", "Neutral"}
    /\ autoUiActionObject \in Object \cup {0}
    /\ autoUiActionMask \subseteq Bit
    /\ autoUiActionOffered \in BOOLEAN
    /\ layerRegistrations \in [1..MaxRegistrations -> Registration]
    /\ layerStack \in Seq(Layer)

\* The types of the menus, the Aux Core shop and its amount widget, the
\* sandbox and the game.
MenuTypeOK ==
    /\ shopOpen \in BOOLEAN
    /\ shopTransitionBlocked \in BOOLEAN
    /\ mainMenuOpen \in BOOLEAN
    /\ mainMenuOpening \in BOOLEAN
    /\ mainMenuInputReady \in BOOLEAN
    /\ travelMenuOpen \in BOOLEAN

AuxShopTypeOK ==
    /\ auxCoreShopWaitingForInput \in BOOLEAN
    /\ auxCoreShopSession \in BOOLEAN
    /\ auxCoreListInputHandle \in Handle \cup {0}

AmountTypeOK ==
    /\ auxCoreAmountMenuActive \in BOOLEAN
    /\ auxCoreAmountMenuObject \in Object \cup {0}
    /\ auxCoreInputAge \in 0..AuxCoreAmountRepeatFrames

SandboxTypeOK ==
    /\ SandboxMode \in BOOLEAN
    /\ sandboxDataActive \in BOOLEAN
    /\ dataStoreBuilt \in BOOLEAN

EventTypeOK ==
    /\ tutorialBladeBondPending \in BOOLEAN
    /\ tutorialBladeBondOpen \in BOOLEAN
    /\ openCall \in OpenCalls
    /\ sceneTransitionActive \in BOOLEAN

GameTypeOK ==
    MenuTypeOK /\ AuxShopTypeOK /\ AmountTypeOK /\ SandboxTypeOK /\ EventTypeOK

LEMMA TypeOKParts ==
    TypeOK <=> ControlTypeOK /\ OtherInputTypeOK /\ GameTypeOK
  BY DEF TypeOK, InputBufferTypeOK, ControlTypeOK, OtherInputTypeOK, GameTypeOK,
     SessionTypeOK, DraftTypeOK, SlotTypeOK, CaptureTypeOK, MenuTypeOK,
     AuxShopTypeOK, AmountTypeOK, SandboxTypeOK, EventTypeOK

LEMMA TypeOKPartsNext ==
    TypeOK' <=> ControlTypeOK' /\ OtherInputTypeOK' /\ GameTypeOK'
  BY DEF TypeOK, InputBufferTypeOK, ControlTypeOK, OtherInputTypeOK, GameTypeOK,
     SessionTypeOK, DraftTypeOK, SlotTypeOK, CaptureTypeOK, MenuTypeOK,
     AuxShopTypeOK, AmountTypeOK, SandboxTypeOK, EventTypeOK

\* A replay that is armed or running is inside its script.
IndexInScript ==
    state = "ArmedPlayback" \/ IsPlaybackActive => playbackIndex <= Len(playbackActions)

ReplayInv ==
    /\ OverrideOnlyWhilePlaying
    /\ IndexInScript
    /\ DeliveredInOrder
    /\ SlotIsNextAction

SessionInv == ControlTypeOK /\ ReplayInv

IInv == TypeOK /\ ReplayInv

\* What every operator on a session is shown to do.
SessionStep ==
    /\ SessionInv'
    /\ [Abstract!Next]_(Abstract!replayVars)

----
(* Operators on a session.                                                 *)

\* Parts that a step leaves alone keep their types.
LEMMA UnchangedTypes ==
    /\ SessionTypeOK /\ UNCHANGED sessionVars => SessionTypeOK'
    /\ DraftTypeOK /\ UNCHANGED draftVars => DraftTypeOK'
    /\ SlotTypeOK /\ UNCHANGED slotVars => SlotTypeOK'
    /\ CaptureTypeOK /\ UNCHANGED <<captureVars, activeUiPadDataValid, offerVars>>
          => CaptureTypeOK'
    /\ OtherInputTypeOK /\ UNCHANGED otherInputVars => OtherInputTypeOK'
    /\ MenuTypeOK /\ UNCHANGED menuVars => MenuTypeOK'
    /\ AuxShopTypeOK /\ UNCHANGED auxShopVars => AuxShopTypeOK'
    /\ AmountTypeOK /\ UNCHANGED auxVars => AmountTypeOK'
    /\ SandboxTypeOK /\ UNCHANGED sandboxVars => SandboxTypeOK'
    /\ EventTypeOK /\ UNCHANGED <<bondVars, gameVars>> => EventTypeOK'
<1>a. SessionTypeOK /\ UNCHANGED sessionVars => SessionTypeOK'
  BY DEF SessionTypeOK, sessionVars
<1>b. DraftTypeOK /\ UNCHANGED draftVars => DraftTypeOK'
  BY DEF DraftTypeOK, draftVars
<1>c. SlotTypeOK /\ UNCHANGED slotVars => SlotTypeOK'
  BY DEF SlotTypeOK, slotVars
<1>d. CaptureTypeOK /\ UNCHANGED <<captureVars, activeUiPadDataValid, offerVars>>
         => CaptureTypeOK'
  BY DEF CaptureTypeOK, captureVars, offerVars
<1>e. OtherInputTypeOK /\ UNCHANGED otherInputVars => OtherInputTypeOK'
  BY DEF OtherInputTypeOK, otherInputVars, buttonVars, scriptedVars, autoUiVars,
         autoUiActionVars,
         layerVars
<1>f. MenuTypeOK /\ UNCHANGED menuVars => MenuTypeOK'
  BY DEF MenuTypeOK, menuVars, mainMenuVars
<1>g. AuxShopTypeOK /\ UNCHANGED auxShopVars => AuxShopTypeOK'
  BY DEF AuxShopTypeOK, auxShopVars
<1>h. AmountTypeOK /\ UNCHANGED auxVars => AmountTypeOK'
  BY DEF AmountTypeOK, auxVars
<1>i. SandboxTypeOK /\ UNCHANGED sandboxVars => SandboxTypeOK'
  BY DEF SandboxTypeOK, sandboxVars
<1>j.  EventTypeOK /\ UNCHANGED <<bondVars, gameVars>> => EventTypeOK'
  BY DEF EventTypeOK, bondVars, gameVars
<1> QED BY <1>a, <1>b, <1>c, <1>d, <1>e, <1>f, <1>g, <1>h, <1>i, <1>j

\* A step that leaves the session alone.
LEMMA SessionUnchanged ==
    ASSUME SessionInv, UNCHANGED controlVars
    PROVE  SessionStep
<1>a. ControlTypeOK'
  BY UnchangedTypes DEF SessionInv, ControlTypeOK, controlVars
<1>b. ReplayInv'
  BY DEF SessionInv, ReplayInv, OverrideOnlyWhilePlaying, IndexInScript,
         DeliveredInOrder, SlotIsNextAction, IsPlaybackActive, controlVars,
         sessionVars, slotVars
<1>c. UNCHANGED Abstract!replayVars
  BY DEF Abstract!replayVars, IsPlaybackActive, controlVars, sessionVars
<1> QED BY <1>a, <1>b, <1>c DEF SessionStep, SessionInv

\* Nothing of the replay itself changes: only recordings, the draft, the
\* capture, the offers, the pad word, or a session that is not a replay.
LEMMA ReplayUnchanged ==
    ASSUME ReplayInv,
           UNCHANGED <<playbackActions, playbackIndex, delivered,
                       playbackOverrideActive, playbackAction>>,
           \/ UNCHANGED state
           \/ ~IsPlaybackActive /\ state # "ArmedPlayback"
                /\ ~IsPlaybackActive' /\ state' # "ArmedPlayback"
           \/ IsPlaybackActive /\ IsPlaybackActive' /\ playbackAction = NoAction
    PROVE  ReplayInv' /\ UNCHANGED Abstract!replayVars
<1>a. ReplayInv'
  BY DEF ReplayInv, OverrideOnlyWhilePlaying, IndexInScript,
         DeliveredInOrder, SlotIsNextAction, IsPlaybackActive, NextAction
<1>b. UNCHANGED Abstract!replayVars
  BY DEF Abstract!replayVars, IsPlaybackActive
<1> QED BY <1>a, <1>b

\* Stopping a replay, or a session that is none.
LEMMA StopPlaybackStep ==
    ASSUME NEW nextState \in {"Complete", "Cancelled", "ArmedRecord"},
           ControlTypeOK, StopPlayback(nextState),
           activeKind' \in AllKinds, DraftTypeOK'
    PROVE  SessionStep
<1>a. SessionTypeOK'
  BY EmptySeq DEF ControlTypeOK, SessionTypeOK, StopPlayback, HelperState
<1>b. SlotTypeOK' /\ CaptureTypeOK'
  BY DEF SlotTypeOK, CaptureTypeOK, StopPlayback, SetAcceptedActionCapture,
     SetPlaybackOverride, PlaybackModes
<1>c. state' \notin {"ArmedPlayback", "Playing", "WaitingForShopClose"}
  BY DEF StopPlayback
<1>d. ReplayInv'
  BY <1>c DEF ReplayInv, OverrideOnlyWhilePlaying, IndexInScript,
     DeliveredInOrder, SlotIsNextAction, IsPlaybackActive, StopPlayback,
     SetPlaybackOverride
<1>e. Abstract!Stop
  BY <1>c DEF Abstract!Stop, IsPlaybackActive
<1> QED BY <1>a, <1>b, <1>d, <1>e DEF SessionStep, SessionInv, ControlTypeOK,
                                      Abstract!Next

\* Opening the override on a script at an index within it.
LEMMA StartPlayingStep ==
    ASSUME NEW script \in Seq(AcceptedAction), NEW index \in Nat,
           index <= Len(script), NEW kind \in AllKinds, NEW blocked,
           SlotTypeOK, StartPlaying(script, index, kind, blocked)
    PROVE  /\ SlotTypeOK'
           /\ state' \in {"Playing", "WaitingForShopClose"}
           /\ playbackOverrideActive' = TRUE
           /\ playbackAction' # NoAction =>
                 /\ state' = "Playing"
                 /\ index < Len(script)
                 /\ playbackAction' = NextAction(script, index)
           /\ playbackUiActionOffered' = FALSE
           /\ playbackUiDirectActionOffered' = FALSE
<1>a. ModeFor(kind) \in PlaybackModes
  BY DEF ModeFor, PlaybackModes
<1>b. Queued(script, index) \in AcceptedAction \cup {NoAction}
  BY ElementOfSeq DEF Queued, NextAction
<1>c. CASE ShopBlocks(kind, blocked)
  BY <1>a, <1>c DEF StartPlaying, SetPlaybackOverride, SlotTypeOK
<1>d. CASE ~ShopBlocks(kind, blocked)
  <2>a. /\ state' = StateAfterQueueing(script, index)
        /\ SetPlaybackOverride(TRUE, ModeFor(kind), Queued(script, index))
    BY <1>d DEF StartPlaying
  <2>b. SlotTypeOK'
    BY <1>a, <1>b, <2>a DEF SetPlaybackOverride, SlotTypeOK
  <2> QED BY <2>a, <2>b DEF SetPlaybackOverride, StateAfterQueueing, Queued
<1> QED BY <1>c, <1>d

\* An armed session of the given kind begins.
LEMMA BeginActiveSessionStep ==
    ASSUME SessionInv, NEW kind \in AllKinds, NEW blocked, NEW entering \in BOOLEAN,
           BeginActiveSession(kind, blocked, entering)
    PROVE  SessionStep
<1> USE DEF SessionInv, ControlTypeOK
<1>0. DraftTypeOK'
  BY UnchangedTypes DEF BeginActiveSession
<1>a. CASE activeKind = kind /\ state = "ArmedRecord"
  <2>a. /\ state' = "Recording"
        /\ SetAcceptedActionCapture(TRUE)
        /\ KeepOffers(entering)
        /\ UNCHANGED slotVars
        /\ UNCHANGED <<activeKind, playbackActions, playbackRecording, playbackIndex,
                       playbackNeutralFrames, delivered, sinceDelivery>>
    BY <1>a DEF BeginActiveSession
  <2>b. SessionTypeOK'
    BY <2>a DEF SessionTypeOK, HelperState
  <2>c. SlotTypeOK'
    BY <2>a, UnchangedTypes
  <2>d. CaptureTypeOK'
    BY <2>a DEF CaptureTypeOK, SetAcceptedActionCapture, KeepOffers
  <2>e. ReplayInv' /\ UNCHANGED Abstract!replayVars
    BY <1>a, <2>a, ReplayUnchanged DEF IsPlaybackActive, slotVars
  <2> QED BY <1>0, <2>b, <2>c, <2>d, <2>e DEF SessionStep
<1>b. CASE activeKind = kind /\ state = "ArmedPlayback"
  <2>a. /\ StartPlaying(playbackActions, playbackIndex, kind, blocked)
        /\ KeepPadWord(entering)
        /\ UNCHANGED captureVars
        /\ UNCHANGED <<activeKind, playbackActions, playbackRecording, playbackIndex,
                       playbackNeutralFrames, delivered, sinceDelivery>>
    BY <1>b DEF BeginActiveSession
  <2>b. /\ playbackIndex <= Len(playbackActions)
        /\ playbackActions \in Seq(AcceptedAction)
        /\ playbackIndex \in Nat
    BY <1>b DEF ReplayInv, IndexInScript, SessionTypeOK
  <2>c. /\ state' \in {"Playing", "WaitingForShopClose"}
        /\ SlotTypeOK'
        /\ playbackOverrideActive' = TRUE
        /\ playbackAction' # NoAction =>
              /\ state' = "Playing"
              /\ playbackIndex < Len(playbackActions)
              /\ playbackAction' = NextAction(playbackActions, playbackIndex)
        /\ playbackUiActionOffered' = FALSE
        /\ playbackUiDirectActionOffered' = FALSE
    BY <2>a, <2>b, StartPlayingStep
  <2>d. SessionTypeOK'
    BY <2>a, <2>c DEF SessionTypeOK, HelperState
  <2>e. CaptureTypeOK'
    BY <2>a, <2>c DEF CaptureTypeOK, KeepPadWord, captureVars
  <2>f. ReplayInv'
    <3>a. OverrideOnlyWhilePlaying'
      BY <2>c DEF OverrideOnlyWhilePlaying, IsPlaybackActive
    <3>b. IndexInScript'
      BY <2>a, <2>b DEF IndexInScript
    <3>c. DeliveredInOrder'
      BY <1>b, <2>a DEF ReplayInv, DeliveredInOrder
    <3>d. SlotIsNextAction'
      BY <2>a, <2>c DEF SlotIsNextAction, NextAction
    <3> QED BY <3>a, <3>b, <3>c, <3>d DEF ReplayInv
  <2>g. Abstract!Run
    BY <1>b, <2>a, <2>c DEF Abstract!Run, IsPlaybackActive
  <2> QED BY <1>0, <2>c, <2>d, <2>e, <2>f, <2>g DEF SessionStep, Abstract!Next
<1>c. CASE activeKind # kind \/ state \notin Armed
  <2>a. /\ KeepPadWord(entering)
        /\ KeepOffers(entering)
        /\ UNCHANGED <<state, captureVars, slotVars>>
        /\ UNCHANGED <<activeKind, playbackActions, playbackRecording, playbackIndex,
                       playbackNeutralFrames, delivered, sinceDelivery>>
    BY <1>c DEF BeginActiveSession, Armed
  <2>b. SessionTypeOK' /\ SlotTypeOK'
    BY <2>a, UnchangedTypes DEF sessionVars
  <2>c. CaptureTypeOK'
    BY <2>a DEF CaptureTypeOK, KeepPadWord, KeepOffers, captureVars
  <2>d. ReplayInv' /\ UNCHANGED Abstract!replayVars
    BY <2>a, ReplayUnchanged DEF slotVars
  <2> QED BY <1>0, <2>b, <2>c, <2>d DEF SessionStep
<1> QED BY <1>a, <1>b, <1>c DEF Armed

\* Saving the draft keeps the recordings well formed.
LEMMA SaveDraftTypes ==
    ASSUME ControlTypeOK, NEW name \in Name \cup {EmptyName}, NEW kind \in AllKinds,
           NEW saved \in BOOLEAN, SaveDraft(name, kind, saved)
    PROVE  /\ recordings' \in Seq(Recording)
           /\ draftActions' \in Seq(AcceptedAction)
           /\ state' \in {"Idle", "DraftReady"}
<1> DEFINE entry == [name |-> name, kind |-> kind,
                     actions |-> draftActions, lastPlayback |-> <<>>]
<1>a. name # EmptyName => entry \in Recording
  BY EmptySeq DEF ControlTypeOK, DraftTypeOK, Recording
<1>b. name # EmptyName => WithDraft(name, kind) \in Seq(Recording)
  <2> HIDE DEF entry
  <2>a. name # EmptyName =>
          /\ Append(recordings, entry) \in Seq(Recording)
          /\ \A i : [recordings EXCEPT ![i] = entry] \in Seq(Recording)
    BY <1>a, AppendProperties, ExceptInSeq DEF ControlTypeOK, DraftTypeOK
  <2> QED BY <2>a DEF WithDraft, entry
<1>c. recordings' \in Seq(Recording)
  BY <1>b DEF SaveDraft, ControlTypeOK, DraftTypeOK
<1>d. draftActions' \in Seq(AcceptedAction) /\ state' \in {"Idle", "DraftReady"}
  BY EmptySeq DEF SaveDraft, ControlTypeOK, DraftTypeOK
<1> QED BY <1>c, <1>d

LEMMA StoreElapsedTypes ==
    ASSUME ControlTypeOK, StoreElapsed
    PROVE  recordings' \in Seq(Recording)
<1>a. CASE playbackRecording \in 1..Len(recordings)
  <2> DEFINE timed == [recordings[playbackRecording]
                          EXCEPT !.lastPlayback = playbackActions]
  <2>a. recordings[playbackRecording] \in Recording
    BY <1>a, ElementOfSeq DEF ControlTypeOK, DraftTypeOK
  <2>b. timed \in Recording
    BY <2>a DEF Recording, ControlTypeOK, SessionTypeOK
  <2>c. recordings' = [recordings EXCEPT ![playbackRecording] = timed]
    BY <1>a DEF StoreElapsed
  <2> HIDE DEF timed
  <2> QED BY <2>b, <2>c, ExceptInSeq DEF ControlTypeOK, DraftTypeOK
<1>b. CASE playbackRecording \notin 1..Len(recordings)
  BY <1>b DEF StoreElapsed, ControlTypeOK, DraftTypeOK
<1> QED BY <1>a, <1>b

\* The menu of a session of the given kind closes.
LEMMA EndActiveSessionStep ==
    ASSUME SessionInv, NEW kind \in AllKinds, NEW name \in Name \cup {EmptyName},
           NEW saved \in BOOLEAN, EndActiveSession(kind, name, saved)
    PROVE  SessionStep
<1> USE DEF SessionInv, ControlTypeOK
<1>a. CASE activeKind = kind /\ state = "Recording"
  <2>a. /\ SetAcceptedActionCapture(FALSE)
        /\ IF draftActions = <<>>
           THEN state' = "Idle" /\ UNCHANGED <<recordings, draftActions>>
           ELSE SaveDraft(name, kind, saved)
        /\ UNCHANGED <<activeKind, playbackActions, playbackRecording,
                       playbackIndex, playbackNeutralFrames, delivered,
                       sinceDelivery, lastRecordedAction, slotVars, offerVars>>
    BY <1>a DEF EndActiveSession
  <2>b. /\ recordings' \in Seq(Recording)
        /\ draftActions' \in Seq(AcceptedAction)
        /\ state' \in {"Idle", "DraftReady"}
    BY <2>a, SaveDraftTypes DEF DraftTypeOK
  <2>c. SessionTypeOK'
    BY <2>a, <2>b DEF SessionTypeOK, HelperState
  <2>d. DraftTypeOK' /\ SlotTypeOK'
    BY <2>a, <2>b, UnchangedTypes DEF DraftTypeOK
  <2>e. CaptureTypeOK'
    BY <2>a DEF CaptureTypeOK, SetAcceptedActionCapture, offerVars
  <2>f. ReplayInv' /\ UNCHANGED Abstract!replayVars
    BY <1>a, <2>a, <2>b, ReplayUnchanged DEF IsPlaybackActive, slotVars
  <2> QED BY <2>c, <2>d, <2>e, <2>f DEF SessionStep
<1>b. CASE activeKind = kind /\ IsPlaybackActive
  <2>a. /\ StoreElapsed
        /\ StopPlayback("Complete")
        /\ UNCHANGED <<activeKind, draftActions, lastRecordedAction>>
    BY <1>b DEF EndActiveSession, IsPlaybackActive
  <2>b. DraftTypeOK' /\ activeKind' \in AllKinds
    BY <2>a, StoreElapsedTypes DEF DraftTypeOK, SessionTypeOK
  <2> QED BY <2>a, <2>b, StopPlaybackStep
<1>c. CASE activeKind # kind \/ (state # "Recording" /\ ~IsPlaybackActive)
  BY <1>c, SessionUnchanged DEF EndActiveSession
<1> QED BY <1>a, <1>b, <1>c

\* A recording is armed, or begins at once in its open menu.
LEMMA ArmPlaybackStep ==
    ASSUME SessionInv, NEW i \in 1..Len(recordings), ArmPlayback(i)
    PROVE  SessionStep
<1> DEFINE recording == recordings[i]
<1> USE DEF SessionInv, ControlTypeOK
<1>a. /\ recording.actions \in Seq(AcceptedAction)
      /\ recording.kind \in AllKinds
      /\ i \in Nat
  <2>a. recordings[i] \in Recording
    BY ElementOfSeq DEF DraftTypeOK
  <2> QED BY <2>a, LenProperties DEF Recording
<1>b. /\ playbackActions' = recording.actions
      /\ activeKind' = recording.kind
      /\ playbackRecording' = i
      /\ playbackIndex' = 0
      /\ playbackNeutralFrames' = 0
      /\ delivered' = <<>>
      /\ sinceDelivery' = 0
      /\ IF MenuIsReadyFor(recording.kind)
         THEN StartPlaying(recording.actions, 0, recording.kind, shopTransitionBlocked)
         ELSE /\ state' = "ArmedPlayback"
              /\ SetPlaybackOverride(FALSE, "StandardMenu", NoAction)
      /\ UNCHANGED <<draftVars, captureVars, activeUiPadDataValid>>
  BY DEF ArmPlayback
<1> HIDE DEF recording
<1>c. 0 <= Len(recording.actions) /\ 0 \in Nat
  BY <1>a, LenProperties
<1>d. /\ state' \in {"ArmedPlayback", "Playing", "WaitingForShopClose"}
      /\ SlotTypeOK'
      /\ playbackOverrideActive' = TRUE <=> state' # "ArmedPlayback"
      /\ playbackOverrideActive' \in BOOLEAN
      /\ playbackAction' # NoAction =>
            /\ state' = "Playing"
            /\ 0 < Len(recording.actions)
            /\ playbackAction' = NextAction(recording.actions, 0)
      /\ playbackUiActionOffered' = FALSE
      /\ playbackUiDirectActionOffered' = FALSE
  <2>a. CASE MenuIsReadyFor(recording.kind)
    <3>a. StartPlaying(recording.actions, 0, recording.kind, shopTransitionBlocked)
      BY <1>b, <2>a
    <3> QED BY <1>a, <1>c, <3>a, StartPlayingStep
  <2>b. CASE ~MenuIsReadyFor(recording.kind)
    <3>a. /\ state' = "ArmedPlayback"
          /\ SetPlaybackOverride(FALSE, "StandardMenu", NoAction)
      BY <1>b, <2>b
    <3> QED BY <3>a DEF SetPlaybackOverride, SlotTypeOK, PlaybackModes
  <2> QED BY <2>a, <2>b
<1>e. SessionTypeOK'
  BY <1>a, <1>b, <1>d, EmptySeq DEF SessionTypeOK, HelperState
<1>f. DraftTypeOK'
  BY <1>b, UnchangedTypes
<1>g. CaptureTypeOK'
  BY <1>b, <1>d DEF CaptureTypeOK, captureVars
<1>h. ReplayInv'
  <2>a. OverrideOnlyWhilePlaying'
    BY <1>d DEF OverrideOnlyWhilePlaying, IsPlaybackActive
  <2>b. IndexInScript'
    BY <1>b, <1>c DEF IndexInScript
  <2>c. DeliveredInOrder'
    BY <1>b, SubSeqNone DEF DeliveredInOrder
  <2>d. SlotIsNextAction'
    BY <1>b, <1>d DEF SlotIsNextAction, NextAction
  <2> QED BY <2>a, <2>b, <2>c, <2>d DEF ReplayInv
<1>i. Abstract!Arm
  BY <1>a, <1>b, <1>d DEF Abstract!Arm, IsPlaybackActive
<1> QED BY <1>d, <1>e, <1>f, <1>g, <1>h, <1>i DEF SessionStep, Abstract!Next

\* The accepted actions of one hook are recorded and counted.
LEMMA OnAcceptedActionStep ==
    ASSUME SessionInv, NEW physical \in SUBSET AcceptedAction,
           NEW completes \in BOOLEAN, NEW auxCoreAmount \in BOOLEAN,
           OnAcceptedAction(physical, completes, auxCoreAmount),
           completes => /\ playbackAction # NoAction
                        /\ CompletePlaybackAction
                        /\ auxCoreNativeAcceptanceActive' \in BOOLEAN,
           ~completes => UNCHANGED slotVars,
           CaptureTypeOK'
    PROVE  SessionStep
<1> USE DEF SessionInv, ControlTypeOK
<1>a. /\ RecordPhysical(physical)
      /\ UNCHANGED <<state, activeKind, playbackActions, playbackRecording>>
  BY DEF OnAcceptedAction
<1>b. DraftTypeOK'
  <2>a. CASE UNCHANGED draftVars
    BY <2>a, UnchangedTypes
  <2>b. ASSUME NEW action \in physical,
               draftActions' = IF Len(draftActions) < MaxActions
                               THEN Append(draftActions, action) ELSE draftActions,
               lastRecordedAction' = action, UNCHANGED recordings
        PROVE  DraftTypeOK'
    <3>a. draftActions' \in Seq(AcceptedAction)
      BY <2>b, AppendProperties DEF DraftTypeOK
    <3> QED BY <2>b, <3>a DEF DraftTypeOK
  <2> QED BY <1>a, <2>a, <2>b DEF RecordPhysical
<1>c. CASE ~completes
  <2>a. UNCHANGED <<playbackIndex, playbackNeutralFrames, delivered, sinceDelivery>>
    BY <1>c DEF OnAcceptedAction
  <2>b. SessionTypeOK' /\ SlotTypeOK'
    BY <1>a, <1>c, <2>a, UnchangedTypes DEF sessionVars
  <2>c. ReplayInv' /\ UNCHANGED Abstract!replayVars
    BY <1>a, <1>c, <2>a, ReplayUnchanged DEF slotVars
  <2> QED BY <1>b, <2>b, <2>c DEF SessionStep
<1>d. CASE completes
  <2>a. /\ state = "Playing"
        /\ playbackIndex < Len(playbackActions)
        /\ playbackAction = NextAction(playbackActions, playbackIndex)
        /\ playbackAction \in AcceptedAction
        /\ playbackActions \in Seq(AcceptedAction)
        /\ delivered \in Seq(AcceptedAction)
        /\ playbackIndex \in Nat
        /\ delivered = SubSeq(playbackActions, 1, playbackIndex)
    BY <1>d DEF ReplayInv, SlotIsNextAction, DeliveredInOrder, IsPlaybackActive,
       SessionTypeOK, SlotTypeOK
  <2>b. /\ playbackIndex' = playbackIndex + 1
        /\ playbackNeutralFrames' \in {playbackNeutralFrames, 1, 2}
        /\ delivered' = Append(delivered, playbackAction)
        /\ sinceDelivery' = 0
    BY <1>d, <2>a DEF OnAcceptedAction, CountPlayback, IsExpected, NeutralFramesAfter
  <2>c. SessionTypeOK'
    <3>a. delivered' \in Seq(AcceptedAction)
      BY <2>a, <2>b, AppendProperties
    <3>b. playbackNeutralFrames' \in 0..2
      BY <2>b DEF SessionTypeOK
    <3> QED BY <1>a, <2>b, <3>a, <3>b DEF SessionTypeOK
  <2>d. SlotTypeOK' /\ playbackAction' = NoAction /\ UNCHANGED playbackOverrideActive
    BY <1>d DEF SlotTypeOK, CompletePlaybackAction
  <2>e. delivered' = SubSeq(playbackActions, 1, playbackIndex + 1)
    BY <2>a, <2>b, PrefixGrows DEF NextAction
  <2>f. ReplayInv'
    <3>a. OverrideOnlyWhilePlaying' /\ SlotIsNextAction'
      BY <1>a, <2>d DEF ReplayInv, OverrideOnlyWhilePlaying, SlotIsNextAction,
         IsPlaybackActive
    <3>b. IndexInScript'
      BY <1>a, <2>a, <2>b, LenProperties DEF IndexInScript
    <3>c. DeliveredInOrder'
      BY <1>a, <2>b, <2>e DEF DeliveredInOrder
    <3> QED BY <3>a, <3>b, <3>c DEF ReplayInv
  <2>g. Abstract!Emit
    <3>a. Len(delivered) = playbackIndex
      BY <2>a, PrefixLength, LenProperties
    <3>b. delivered' = Append(delivered, playbackActions[Len(delivered) + 1])
      BY <2>a, <2>b, <3>a DEF NextAction
    <3> QED BY <1>a, <2>a, <3>a, <3>b DEF Abstract!Emit, IsPlaybackActive
  <2> QED BY <1>b, <2>c, <2>d, <2>f, <2>g DEF SessionStep, Abstract!Next
<1> QED BY <1>c, <1>d

----
(***************************************************************************)
(* Actions.  Each lemma says that an action keeps IInv and is a step of    *)
(* Replay: its session part by the lemma of the operator it uses, the rest *)
(* from its own conjuncts.                                                 *)
(***************************************************************************)
HelperInv == SessionInv /\ OtherInputTypeOK /\ GameTypeOK

HelperStep == SessionStep /\ OtherInputTypeOK' /\ GameTypeOK'

LEMMA IInvParts == IInv <=> HelperInv
  BY TypeOKParts DEF IInv, HelperInv, SessionInv

LEMMA SandboxTypes ==
    ASSUME SandboxTypeOK, OnSandboxMenuOpened \/ OnSandboxMenuClosed \/ UNCHANGED sandboxVars
    PROVE  SandboxTypeOK'
  BY DEF SandboxTypeOK, OnSandboxMenuOpened, OnSandboxMenuClosed, sandboxVars

LEMMA AgeTypes ==
    ASSUME AmountTypeOK,
           \/ ResetAuxCoreAmountInput
           \/ StampAuxCoreAmountInput
           \/ UNCHANGED auxCoreInputAge
           \/ AdvanceFrameIndex
    PROVE  auxCoreInputAge' \in 0..AuxCoreAmountRepeatFrames
  BY DEF AmountTypeOK, ResetAuxCoreAmountInput, StampAuxCoreAmountInput,
     AdvanceFrameIndex, AuxCoreAmountRepeatFrames

LEMMA AmountTypes ==
    ASSUME AmountTypeOK, CloseAuxCoreAmountMenu \/ AdvanceFrameIndex
    PROVE  AmountTypeOK'
<1>a. auxCoreInputAge' \in 0..AuxCoreAmountRepeatFrames
  BY AgeTypes DEF CloseAuxCoreAmountMenu
<1> QED BY <1>a DEF AmountTypeOK, CloseAuxCoreAmountMenu, AdvanceFrameIndex

LEMMA AmountMenuOpens ==
    ASSUME AmountTypeOK, NEW object \in Object, OpenAuxCoreAmountMenu(object),
           \/ ResetAuxCoreAmountInput
           \/ StampAuxCoreAmountInput
           \/ UNCHANGED auxCoreInputAge
    PROVE  AmountTypeOK'
  BY AgeTypes DEF AmountTypeOK, OpenAuxCoreAmountMenu

USE DEF HelperInv, GameTypeOK

LEMMA ShopOpensStep ==
    ASSUME HelperInv, NEW initializing \in BOOLEAN, ShopOpens(initializing)
    PROVE  HelperStep
<1>a. SessionStep
  <2>a. CASE UNCHANGED controlVars
    BY <2>a, SessionUnchanged
  <2>b. CASE BeginActiveSession("Shop", shopOpen /\ shopTransitionBlocked, FALSE)
    BY <2>b, BeginActiveSessionStep DEF AllKinds
  <2> QED BY <2>a, <2>b DEF ShopOpens, OnShopOpened
<1>b. OtherInputTypeOK'
  BY UnchangedTypes DEF ShopOpens
<1>c. MenuTypeOK'
  BY DEF MenuTypeOK, ShopOpens, OnShopOpened, mainMenuVars
<1>d. AmountTypeOK'
  BY UnchangedTypes, AgeTypes DEF AmountTypeOK, ShopOpens
<1>e. SandboxTypeOK' /\ AuxShopTypeOK' /\ EventTypeOK'
  BY SandboxTypes, UnchangedTypes DEF ShopOpens
<1> QED BY <1>a, <1>b, <1>c, <1>d, <1>e DEF HelperStep

LEMMA ShopClosesStep ==
    ASSUME HelperInv, NEW name \in Name \cup {EmptyName}, NEW saved \in BOOLEAN,
           ShopCloses(name, saved)
    PROVE  HelperStep
<1>a. SessionStep
  <2>a. CASE UNCHANGED controlVars
    BY <2>a, SessionUnchanged
  <2>b. CASE EndActiveSession("Shop", name, saved)
    BY <2>b, EndActiveSessionStep DEF AllKinds
  <2> QED BY <2>a, <2>b DEF ShopCloses
<1>b. OtherInputTypeOK'
  BY UnchangedTypes DEF ShopCloses
<1>c. MenuTypeOK' /\ AuxShopTypeOK'
  BY DEF MenuTypeOK, AuxShopTypeOK, ShopCloses, mainMenuVars
<1>d. AmountTypeOK'
  BY AmountTypes DEF ShopCloses
<1>e. SandboxTypeOK' /\ EventTypeOK'
  BY SandboxTypes, UnchangedTypes DEF ShopCloses
<1> QED BY <1>a, <1>b, <1>c, <1>d, <1>e DEF HelperStep

LEMMA MenuInputDisabledStep ==
    ASSUME HelperInv, MenuInputDisabled
    PROVE  HelperStep
<1>a. SessionStep
  BY SessionUnchanged DEF MenuInputDisabled
<1>b. OtherInputTypeOK'
  BY UnchangedTypes DEF MenuInputDisabled
<1>c. MenuTypeOK'
  BY DEF MenuTypeOK, MenuInputDisabled, mainMenuVars
<1>d. AuxShopTypeOK' /\ AmountTypeOK' /\ SandboxTypeOK' /\ EventTypeOK'
  BY UnchangedTypes DEF MenuInputDisabled
<1> QED BY <1>a, <1>b, <1>c, <1>d DEF HelperStep

LEMMA AuxCoreShopOpeningStep ==
    ASSUME HelperInv, AuxCoreShopOpening
    PROVE  HelperStep
<1> USE DEF SessionInv, ControlTypeOK
<1>a. SessionStep
  <2>a. CASE activeKind = "Shop" /\ IsPlaybackActive
    <3>a. /\ SetPlaybackOverride(FALSE, "StandardMenu", NoAction)
          /\ playbackIndex' = 0
          /\ playbackNeutralFrames' = 0
          /\ delivered' = <<>>
          /\ sinceDelivery' = 0
          /\ state' = "ArmedPlayback"
          /\ UNCHANGED <<activeKind, playbackActions, playbackRecording,
                         draftVars, captureVars, activeUiPadDataValid>>
      BY <2>a DEF AuxCoreShopOpening
    <3>b. SessionTypeOK' /\ DraftTypeOK'
      BY <3>a, UnchangedTypes, EmptySeq DEF SessionTypeOK, HelperState
    <3>c. SlotTypeOK' /\ CaptureTypeOK'
      BY <3>a DEF SlotTypeOK, CaptureTypeOK, SetPlaybackOverride, PlaybackModes,
         captureVars
    <3>d. ReplayInv'
      <4>a. OverrideOnlyWhilePlaying' /\ SlotIsNextAction'
        BY <3>a DEF OverrideOnlyWhilePlaying, SlotIsNextAction, IsPlaybackActive,
           SetPlaybackOverride
      <4>b. DeliveredInOrder'
        BY <3>a, SubSeqNone DEF DeliveredInOrder
      <4>c. IndexInScript'
        BY <3>a, <3>b, LenProperties DEF IndexInScript, SessionTypeOK
      <4> QED BY <4>a, <4>b, <4>c DEF ReplayInv
    <3>e. Abstract!StartOver
      BY <2>a, <3>a DEF Abstract!StartOver, IsPlaybackActive
    <3> QED BY <3>b, <3>c, <3>d, <3>e DEF SessionStep, Abstract!Next
  <2>b. CASE activeKind = "Shop" /\ state = "Recording"
    <3>a. /\ SetAcceptedActionCapture(FALSE)
          /\ draftActions' = <<>>
          /\ lastRecordedAction' = NoAction
          /\ state' = "ArmedRecord"
          /\ UNCHANGED <<activeKind, playbackActions, playbackRecording,
                         playbackIndex, playbackNeutralFrames, delivered,
                         sinceDelivery, recordings, slotVars, offerVars>>
      BY <2>b DEF AuxCoreShopOpening, IsPlaybackActive
    <3>b. SessionTypeOK'
      BY <3>a DEF SessionTypeOK, HelperState
    <3>c. DraftTypeOK' /\ SlotTypeOK'
      BY <3>a, UnchangedTypes, EmptySeq DEF DraftTypeOK
    <3>d. CaptureTypeOK'
      BY <3>a DEF CaptureTypeOK, SetAcceptedActionCapture, offerVars
    <3>e. ReplayInv' /\ UNCHANGED Abstract!replayVars
      BY <2>b, <3>a, ReplayUnchanged DEF IsPlaybackActive, slotVars
    <3> QED BY <3>b, <3>c, <3>d, <3>e DEF SessionStep
  <2>c. CASE activeKind # "Shop" \/ (state # "Recording" /\ ~IsPlaybackActive)
    BY <2>c, SessionUnchanged DEF AuxCoreShopOpening
  <2> QED BY <2>a, <2>b, <2>c
<1>b. OtherInputTypeOK'
  BY UnchangedTypes DEF AuxCoreShopOpening
<1>c. MenuTypeOK' /\ AuxShopTypeOK'
  BY DEF MenuTypeOK, AuxShopTypeOK, AuxCoreShopOpening, mainMenuVars
<1>d. AmountTypeOK' /\ SandboxTypeOK' /\ EventTypeOK'
  BY UnchangedTypes DEF AuxCoreShopOpening
<1> QED BY <1>a, <1>b, <1>c, <1>d DEF HelperStep

LEMMA AuxCoreListInputEnabledStep ==
    ASSUME HelperInv, NEW handle \in Handle, AuxCoreListInputEnabled(handle)
    PROVE  HelperStep
<1>a. SessionStep
  BY SessionUnchanged DEF AuxCoreListInputEnabled
<1>b. OtherInputTypeOK'
  BY UnchangedTypes DEF AuxCoreListInputEnabled
<1>c. AuxShopTypeOK'
  BY DEF AuxShopTypeOK, AuxCoreListInputEnabled
<1>d. MenuTypeOK' /\ AmountTypeOK' /\ SandboxTypeOK' /\ EventTypeOK'
  BY UnchangedTypes DEF AuxCoreListInputEnabled
<1> QED BY <1>a, <1>b, <1>c, <1>d DEF HelperStep

LEMMA AuxRecipeEventStep ==
    ASSUME HelperInv, NEW kind, NEW object \in Object,
           AuxRecipeEvent(kind, object)
    PROVE  HelperStep
<1>a. SessionStep
  BY SessionUnchanged DEF AuxRecipeEvent
<1>b. OtherInputTypeOK'
  BY UnchangedTypes DEF AuxRecipeEvent
<1>c. AmountTypeOK'
  BY AmountTypes, AmountMenuOpens DEF AuxRecipeEvent
<1>d. MenuTypeOK' /\ AuxShopTypeOK' /\ SandboxTypeOK' /\ EventTypeOK'
  BY UnchangedTypes DEF AuxRecipeEvent
<1> QED BY <1>a, <1>b, <1>c, <1>d DEF HelperStep

LEMMA AuxAmountInputStep ==
    ASSUME HelperInv, NEW object \in Object, AuxAmountInput(object)
    PROVE  HelperStep
<1>a. SessionStep
  <2>a. CaptureTypeOK'
    BY UnchangedTypes DEF SessionInv, ControlTypeOK, AuxAmountInput
  <2>b. CASE AuxCoreAmountInputPasses
    <3>a. /\ AcceptAuxCoreAmountPlayback
          /\ OnAcceptedAction({}, AuxCoreAmountServesPlayback, TRUE)
      BY <2>b DEF AuxAmountInput
    <3>b. AuxCoreAmountServesPlayback =>
             /\ playbackAction # NoAction
             /\ CompletePlaybackAction
             /\ auxCoreNativeAcceptanceActive' \in BOOLEAN
      BY <3>a DEF AuxCoreAmountServesPlayback, AcceptAuxCoreAmountPlayback,
         IsUiPadAction, NoAction, NoInput
    <3>c. ~AuxCoreAmountServesPlayback => UNCHANGED slotVars
      BY <3>a DEF AcceptAuxCoreAmountPlayback
    <3>d. AuxCoreAmountServesPlayback \in BOOLEAN
      BY DEF AuxCoreAmountServesPlayback
    <3> QED BY <2>a, <3>a, <3>b, <3>c, <3>d, OnAcceptedActionStep
  <2>c. CASE ~AuxCoreAmountInputPasses
    <3>a. UNCHANGED controlVars
      BY <2>c DEF AuxAmountInput, controlVars
    <3> QED BY <3>a, SessionUnchanged
  <2> QED BY <2>b, <2>c
<1>b. OtherInputTypeOK'
  BY UnchangedTypes DEF AuxAmountInput
<1>c. AmountTypeOK'
  BY AmountMenuOpens DEF AuxAmountInput
<1>d. MenuTypeOK' /\ AuxShopTypeOK' /\ SandboxTypeOK' /\ EventTypeOK'
  BY UnchangedTypes DEF AuxAmountInput
<1> QED BY <1>a, <1>b, <1>c, <1>d DEF HelperStep

LEMMA MainMenuCreateBeginStep ==
    ASSUME HelperInv, NEW menu \in Kind, MainMenuCreateBegin(menu)
    PROVE  HelperStep
<1>a. SessionStep
  BY SessionUnchanged DEF MainMenuCreateBegin
<1>b. OtherInputTypeOK'
  BY UnchangedTypes DEF MainMenuCreateBegin
<1>c. MenuTypeOK'
  BY DEF MenuTypeOK, MainMenuCreateBegin, OnMenuOpening, mainMenuVars
<1>d. EventTypeOK'
  BY MenuHelperAssumption
     DEF EventTypeOK, MainMenuCreateBegin, bondVars, OpenCalls, AllKinds
<1>e. AuxShopTypeOK' /\ AmountTypeOK' /\ SandboxTypeOK'
  BY UnchangedTypes DEF MainMenuCreateBegin
<1> QED BY <1>a, <1>b, <1>c, <1>d, <1>e DEF HelperStep

LEMMA MainMenuCreatedStep ==
    ASSUME HelperInv, MainMenuCreated
    PROVE  HelperStep
<1>a. SessionStep
  <2>a. CASE UNCHANGED controlVars
    BY <2>a, SessionUnchanged
  <2>b. CASE BeginActiveSession("Menu", FALSE, FALSE)
    BY <2>b, BeginActiveSessionStep DEF AllKinds
  <2>c. CASE BeginActiveSession("Travel", FALSE, FALSE)
    BY <2>c, BeginActiveSessionStep DEF AllKinds
  <2> QED BY <2>a, <2>b, <2>c DEF MainMenuCreated,
       OnMenuOpened, OnTravelOpened
<1>b. OtherInputTypeOK'
  BY UnchangedTypes DEF MainMenuCreated
<1>c. MenuTypeOK'
  BY DEF MenuTypeOK, MainMenuCreated, OnMenuOpened, OnTravelOpened, mainMenuVars
<1>d. EventTypeOK'
  BY DEF EventTypeOK, MainMenuCreated, bondVars, OpenCalls
<1>e. AuxShopTypeOK' /\ AmountTypeOK' /\ SandboxTypeOK'
  BY UnchangedTypes, SandboxTypes DEF MainMenuCreated
<1> QED BY <1>a, <1>b, <1>c, <1>d, <1>e DEF HelperStep

LEMMA MainMenuNotCreatedStep ==
    ASSUME HelperInv, NEW name \in Name \cup {EmptyName}, NEW saved \in BOOLEAN,
           MainMenuNotCreated(name, saved)
    PROVE  HelperStep
<1>a. SessionStep
  <2>a. CASE UNCHANGED controlVars
    BY <2>a, SessionUnchanged
  <2>b. CASE EndActiveSession("Travel", name, saved)
    BY <2>b, EndActiveSessionStep DEF AllKinds
  <2>c. CASE StopPlayback("Cancelled") /\ UNCHANGED <<activeKind, draftVars>>
    BY <2>c, StopPlaybackStep, UnchangedTypes DEF SessionInv, ControlTypeOK,
                                        SessionTypeOK
  <2> QED BY <2>a, <2>b, <2>c DEF MainMenuNotCreated
<1>b. OtherInputTypeOK'
  BY UnchangedTypes DEF MainMenuNotCreated
<1>c. MenuTypeOK'
  BY DEF MenuTypeOK, MainMenuNotCreated, mainMenuVars
<1>d. EventTypeOK'
  BY DEF EventTypeOK, MainMenuNotCreated, bondVars, OpenCalls
<1>e. AuxShopTypeOK' /\ AmountTypeOK' /\ SandboxTypeOK'
  BY UnchangedTypes, SandboxTypes DEF MainMenuNotCreated
<1> QED BY <1>a, <1>b, <1>c, <1>d, <1>e DEF HelperStep

LEMMA MenuInputEnabledStep ==
    ASSUME HelperInv, MenuInputEnabled
    PROVE  HelperStep
<1>a. SessionStep
  <2>a. CASE UNCHANGED controlVars
    BY <2>a, SessionUnchanged
  <2>b. CASE BeginActiveSession("Menu", FALSE, FALSE)
    BY <2>b, BeginActiveSessionStep DEF AllKinds
  <2> QED BY <2>a, <2>b DEF MenuInputEnabled
<1>b. OtherInputTypeOK'
  BY UnchangedTypes DEF MenuInputEnabled
<1>c. MenuTypeOK'
  BY DEF MenuTypeOK, MenuInputEnabled
<1>d. AuxShopTypeOK' /\ AmountTypeOK' /\ SandboxTypeOK' /\ EventTypeOK'
  BY UnchangedTypes DEF MenuInputEnabled
<1> QED BY <1>a, <1>b, <1>c, <1>d DEF HelperStep

LEMMA MainMenuSequenceEndsStep ==
    ASSUME HelperInv, NEW name \in Name \cup {EmptyName}, NEW saved \in BOOLEAN,
           MainMenuSequenceEnds(name, saved)
    PROVE  HelperStep
<1>a. SessionStep
  <2>a. CASE UNCHANGED controlVars
    BY <2>a, SessionUnchanged
  <2>b. CASE activeKind \in AllKinds /\ EndActiveSession(activeKind, name, saved)
    BY <2>b, EndActiveSessionStep
  <2> QED BY <2>a, <2>b DEF MainMenuSequenceEnds, AllKinds
<1>b. OtherInputTypeOK'
  BY UnchangedTypes DEF MainMenuSequenceEnds
<1>c. MenuTypeOK'
  BY DEF MenuTypeOK, MainMenuSequenceEnds, mainMenuVars
<1>d. AuxShopTypeOK' /\ AmountTypeOK' /\ SandboxTypeOK' /\ EventTypeOK'
  BY UnchangedTypes, SandboxTypes DEF MainMenuSequenceEnds
<1> QED BY <1>a, <1>b, <1>c, <1>d DEF HelperStep

LEMMA TravelButtonOpenStep ==
    ASSUME HelperInv, TravelButtonOpen
    PROVE  HelperStep
<1>a. SessionStep
  BY SessionUnchanged DEF TravelButtonOpen
<1>b. OtherInputTypeOK'
  BY UnchangedTypes DEF TravelButtonOpen
<1>c. MenuTypeOK'
  BY DEF MenuTypeOK, TravelButtonOpen, mainMenuVars
<1>d. AuxShopTypeOK' /\ AmountTypeOK' /\ SandboxTypeOK' /\ EventTypeOK'
  BY UnchangedTypes DEF TravelButtonOpen
<1> QED BY <1>a, <1>b, <1>c, <1>d DEF HelperStep

LEMMA TutorialBladeBondRequestedStep ==
    ASSUME HelperInv, TutorialBladeBondRequested
    PROVE  HelperStep
<1>a. SessionStep
  BY SessionUnchanged DEF TutorialBladeBondRequested
<1>b. OtherInputTypeOK'
  BY UnchangedTypes DEF TutorialBladeBondRequested
<1>c. MenuTypeOK'
  BY DEF MenuTypeOK, TutorialBladeBondRequested, OnMenuOpening, mainMenuVars
<1>d. EventTypeOK'
  BY DEF EventTypeOK, TutorialBladeBondRequested, bondVars, gameVars
<1>e. AuxShopTypeOK' /\ AmountTypeOK' /\ SandboxTypeOK'
  BY UnchangedTypes, SandboxTypes DEF TutorialBladeBondRequested
<1> QED BY <1>a, <1>b, <1>c, <1>d, <1>e DEF HelperStep

LEMMA TutorialBladeBondInitializedStep ==
    ASSUME HelperInv, TutorialBladeBondInitialized
    PROVE  HelperStep
<1>a. SessionStep
  <2>a. CASE UNCHANGED controlVars
    BY <2>a, SessionUnchanged
  <2>b. CASE BeginActiveSession("Menu", FALSE, FALSE)
    BY <2>b, BeginActiveSessionStep DEF AllKinds
  <2> QED BY <2>a, <2>b DEF TutorialBladeBondInitialized, OnMenuOpened
<1>b. OtherInputTypeOK'
  BY UnchangedTypes DEF TutorialBladeBondInitialized
<1>c. MenuTypeOK'
  BY DEF MenuTypeOK, TutorialBladeBondInitialized, OnMenuOpened, mainMenuVars
<1>d. EventTypeOK'
  BY DEF EventTypeOK, TutorialBladeBondInitialized, bondVars, gameVars
<1>e. AuxShopTypeOK' /\ AmountTypeOK' /\ SandboxTypeOK'
  BY UnchangedTypes, SandboxTypes DEF TutorialBladeBondInitialized
<1> QED BY <1>a, <1>b, <1>c, <1>d, <1>e DEF HelperStep

LEMMA TutorialBladeBondInputReadyStep ==
    ASSUME HelperInv, TutorialBladeBondInputReady
    PROVE  HelperStep
<1>a. SessionStep
  <2>a. CASE UNCHANGED controlVars
    BY <2>a, SessionUnchanged
  <2>b. CASE BeginActiveSession("Menu", FALSE, FALSE)
    BY <2>b, BeginActiveSessionStep DEF AllKinds
  <2> QED BY <2>a, <2>b DEF TutorialBladeBondInputReady
<1>b. OtherInputTypeOK'
  BY UnchangedTypes DEF TutorialBladeBondInputReady
<1>c. MenuTypeOK'
  BY DEF MenuTypeOK, TutorialBladeBondInputReady, mainMenuVars
<1>d. EventTypeOK'
  BY DEF EventTypeOK, TutorialBladeBondInputReady, bondVars, gameVars
<1>e. AuxShopTypeOK' /\ AmountTypeOK' /\ SandboxTypeOK'
  BY UnchangedTypes, SandboxTypes DEF TutorialBladeBondInputReady
<1> QED BY <1>a, <1>b, <1>c, <1>d, <1>e DEF HelperStep

LEMMA TutorialBladeBondFinalizedStep ==
    ASSUME HelperInv, NEW name \in Name \cup {EmptyName}, NEW saved \in BOOLEAN,
           TutorialBladeBondFinalized(name, saved)
    PROVE  HelperStep
<1>a. SessionStep
  <2>a. CASE UNCHANGED controlVars
    BY <2>a, SessionUnchanged
  <2>b. CASE EndActiveSession("Menu", name, saved)
    BY <2>b, EndActiveSessionStep DEF AllKinds
  <2> QED BY <2>a, <2>b DEF TutorialBladeBondFinalized
<1>b. OtherInputTypeOK'
  BY UnchangedTypes DEF TutorialBladeBondFinalized
<1>c. MenuTypeOK'
  BY DEF MenuTypeOK, TutorialBladeBondFinalized, mainMenuVars
<1>d. EventTypeOK'
  BY DEF EventTypeOK, TutorialBladeBondFinalized, gameVars
<1>e. AuxShopTypeOK' /\ AmountTypeOK' /\ SandboxTypeOK'
  BY UnchangedTypes, SandboxTypes DEF TutorialBladeBondFinalized
<1> QED BY <1>a, <1>b, <1>c, <1>d, <1>e DEF HelperStep

LEMMA DataStoreChangesStep ==
    ASSUME HelperInv, NEW built \in BOOLEAN, DataStoreChanges(built)
    PROVE  HelperStep
<1>a. SessionStep
  BY SessionUnchanged DEF DataStoreChanges
<1>b. OtherInputTypeOK'
  BY UnchangedTypes DEF DataStoreChanges
<1>c. SandboxTypeOK'
  BY DEF SandboxTypeOK, DataStoreChanges
<1>d. MenuTypeOK' /\ AuxShopTypeOK' /\ AmountTypeOK' /\ EventTypeOK'
  BY UnchangedTypes DEF DataStoreChanges
<1> QED BY <1>a, <1>b, <1>c, <1>d DEF HelperStep

LEMMA SceneTransitionEndsStep ==
    ASSUME HelperInv, SceneTransitionEnds
    PROVE  HelperStep
<1>a. SessionStep
  BY SessionUnchanged DEF SceneTransitionEnds
<1>b. OtherInputTypeOK'
  BY UnchangedTypes DEF SceneTransitionEnds
<1>c. EventTypeOK'
  BY DEF EventTypeOK, SceneTransitionEnds, bondVars
<1>d. MenuTypeOK' /\ AuxShopTypeOK' /\ AmountTypeOK' /\ SandboxTypeOK'
  BY UnchangedTypes DEF SceneTransitionEnds
<1> QED BY <1>a, <1>b, <1>c, <1>d DEF HelperStep

LEMMA SceneTransitionBeginsStep ==
    ASSUME HelperInv, SceneTransitionBegins
    PROVE  HelperStep
<1>a. SessionStep
  <2> USE DEF SessionInv, ControlTypeOK
  <2>a. CASE (state = "ArmedPlayback" \/ IsPlaybackActive) /\ ~PreservedSession
    <3>a. StopPlayback("Cancelled") /\ UNCHANGED <<activeKind, draftVars>>
      BY <2>a DEF SceneTransitionBegins
    <3> QED BY <3>a, StopPlaybackStep, UnchangedTypes DEF SessionTypeOK
  <2>b. CASE ~((state = "ArmedPlayback" \/ IsPlaybackActive) /\ ~PreservedSession)
    <3>a. /\ \/ UNCHANGED <<captureVars, activeUiPadDataValid>>
             \/ SetAcceptedActionCapture(FALSE)
          /\ state' = IF state \in {"Recording", "ArmedRecord"} /\ ~PreservedSession
                      THEN StateAfterRecording ELSE state
          /\ UNCHANGED <<activeKind, playbackActions, playbackRecording,
                         playbackIndex, playbackNeutralFrames, delivered,
                         sinceDelivery, draftVars, slotVars, offerVars>>
      BY <2>b DEF SceneTransitionBegins
    <3>b. SessionTypeOK'
      BY <3>a DEF SessionTypeOK, StateAfterRecording, HelperState
    <3>c. DraftTypeOK' /\ SlotTypeOK'
      BY <3>a, UnchangedTypes
    <3>d. CaptureTypeOK'
      BY <3>a DEF CaptureTypeOK, SetAcceptedActionCapture, captureVars, offerVars
    <3>e. ReplayInv' /\ UNCHANGED Abstract!replayVars
      BY <3>a, ReplayUnchanged DEF IsPlaybackActive, slotVars, StateAfterRecording
    <3> QED BY <3>b, <3>c, <3>d, <3>e DEF SessionStep
  <2> QED BY <2>a, <2>b
<1>b. OtherInputTypeOK'
  BY UnchangedTypes DEF SceneTransitionBegins
<1>c. MenuTypeOK' /\ AuxShopTypeOK'
  BY DEF MenuTypeOK, AuxShopTypeOK, SceneTransitionBegins, mainMenuVars
<1>d. AmountTypeOK' /\ SandboxTypeOK'
  BY AmountTypes, SandboxTypes DEF SceneTransitionBegins
<1>e. EventTypeOK'
  BY DEF EventTypeOK, SceneTransitionBegins, bondVars
<1> QED BY <1>a, <1>b, <1>c, <1>d, <1>e DEF HelperStep

LEMMA RecordStep ==
    ASSUME HelperInv, NEW kind \in Kind, Record(kind)
    PROVE  HelperStep
<1>a. SessionStep
  <2> USE DEF SessionInv, ControlTypeOK
  <2>a. DraftTypeOK' /\ activeKind' \in AllKinds
    BY MenuHelperAssumption, EmptySeq DEF Record, DraftTypeOK
  <2>b. CASE IsPlaybackActive
    <3>a. StopPlayback("ArmedRecord")
      BY <2>b DEF Record
    <3> QED BY <2>a, <3>a, StopPlaybackStep
  <2>c. CASE ~IsPlaybackActive
    <3>a. /\ state' = "ArmedRecord"
          /\ UNCHANGED <<playbackActions, playbackRecording, playbackIndex,
                         playbackNeutralFrames, delivered, sinceDelivery,
                         captureVars, activeUiPadDataValid, slotVars, offerVars>>
      BY <2>c DEF Record
    <3>b. SessionTypeOK'
      BY <2>a, <3>a DEF SessionTypeOK, HelperState
    <3>c. SlotTypeOK' /\ CaptureTypeOK'
      BY <3>a, UnchangedTypes
    <3>d. ReplayInv'
      BY <2>c, <3>a DEF ReplayInv, OverrideOnlyWhilePlaying, IndexInScript,
         DeliveredInOrder, SlotIsNextAction, IsPlaybackActive, slotVars
    <3>e. Abstract!Stop
      BY <3>a DEF Abstract!Stop, IsPlaybackActive
    <3> QED BY <2>a, <3>b, <3>c, <3>d, <3>e DEF SessionStep, Abstract!Next
  <2> QED BY <2>b, <2>c
<1>b. OtherInputTypeOK'
  BY UnchangedTypes DEF Record, WindowFrame
<1>c. MenuTypeOK' /\ AuxShopTypeOK' /\ AmountTypeOK' /\ EventTypeOK'
  BY UnchangedTypes DEF Record, WindowFrame
<1>d. SandboxTypeOK'
  BY UnchangedTypes DEF Record
<1> QED BY <1>a, <1>b, <1>c, <1>d DEF HelperStep

LEMMA StopRecordingStep ==
    ASSUME HelperInv, StopRecording
    PROVE  HelperStep
<1>a. SessionStep
  <2> USE DEF SessionInv, ControlTypeOK
  <2>a. SessionTypeOK'
    BY DEF StopRecording, SessionTypeOK, StateAfterRecording, HelperState
  <2>b. DraftTypeOK' /\ SlotTypeOK'
    BY UnchangedTypes DEF StopRecording
  <2>c. CaptureTypeOK'
    BY DEF StopRecording, CaptureTypeOK, SetAcceptedActionCapture, offerVars
  <2>d. ReplayInv' /\ UNCHANGED Abstract!replayVars
    BY ReplayUnchanged DEF StopRecording, IsPlaybackActive, slotVars,
                           StateAfterRecording
  <2> QED BY <2>a, <2>b, <2>c, <2>d DEF SessionStep
<1>b. OtherInputTypeOK'
  BY UnchangedTypes DEF StopRecording, WindowFrame
<1>c. MenuTypeOK' /\ AuxShopTypeOK' /\ AmountTypeOK' /\ EventTypeOK'
  BY UnchangedTypes DEF StopRecording, WindowFrame
<1>d. SandboxTypeOK'
  BY UnchangedTypes DEF StopRecording
<1> QED BY <1>a, <1>b, <1>c, <1>d DEF HelperStep

LEMMA SaveStep ==
    ASSUME HelperInv, NEW name \in Name, NEW kind \in Kind, NEW saved \in BOOLEAN,
           Save(name, kind, saved)
    PROVE  HelperStep
<1>a. SessionStep
  <2> USE DEF SessionInv, ControlTypeOK
  <2>a. /\ recordings' \in Seq(Recording)
        /\ draftActions' \in Seq(AcceptedAction)
        /\ state' \in {"Idle", "DraftReady"}
    BY MenuHelperAssumption, SaveDraftTypes DEF Save
  <2>b. SessionTypeOK'
    BY <2>a DEF Save, SessionTypeOK, HelperState
  <2>c. DraftTypeOK'
    BY <2>a DEF Save, DraftTypeOK
  <2>d. SlotTypeOK' /\ CaptureTypeOK'
    BY UnchangedTypes DEF Save
  <2>e. ReplayInv' /\ UNCHANGED Abstract!replayVars
    BY <2>a, ReplayUnchanged DEF Save, IsPlaybackActive, slotVars
  <2> QED BY <2>b, <2>c, <2>d, <2>e DEF SessionStep
<1>b. OtherInputTypeOK'
  BY UnchangedTypes DEF Save, WindowFrame
<1>c. MenuTypeOK' /\ AuxShopTypeOK' /\ AmountTypeOK' /\ EventTypeOK'
  BY UnchangedTypes DEF Save, WindowFrame
<1>d. SandboxTypeOK'
  BY UnchangedTypes DEF Save
<1> QED BY <1>a, <1>b, <1>c, <1>d DEF HelperStep

LEMMA StartStep ==
    ASSUME HelperInv, NEW i \in 1..Len(recordings), Start(i)
    PROVE  HelperStep
<1>a. SessionStep
  BY ArmPlaybackStep DEF Start
<1>b. OtherInputTypeOK'
  BY UnchangedTypes DEF Start, WindowFrame
<1>c. MenuTypeOK' /\ AuxShopTypeOK' /\ AmountTypeOK' /\ EventTypeOK'
  BY UnchangedTypes DEF Start, WindowFrame
<1>d. SandboxTypeOK'
  BY SandboxTypes DEF Start, ArmPlayback
<1> QED BY <1>a, <1>b, <1>c, <1>d DEF HelperStep

LEMMA StopStep ==
    ASSUME HelperInv, Stop
    PROVE  HelperStep
<1>a. SessionStep
  BY StopPlaybackStep, UnchangedTypes
     DEF Stop, SessionInv, ControlTypeOK, SessionTypeOK
<1>b. OtherInputTypeOK'
  BY UnchangedTypes DEF Stop, WindowFrame
<1>c. MenuTypeOK' /\ AuxShopTypeOK' /\ AmountTypeOK' /\ EventTypeOK'
  BY UnchangedTypes DEF Stop, WindowFrame
<1>d. SandboxTypeOK'
  BY UnchangedTypes DEF Stop
<1> QED BY <1>a, <1>b, <1>c, <1>d DEF HelperStep

LEMMA LoadedFromTypes ==
    ASSUME NEW file \in RecordingFiles
    PROVE  LoadedFrom(file) \in Seq(Recording)
<1>a. file \in Seq(Recording) /\ MaxRecordings \in Nat
  BY MenuHelperAssumption
<1>b. Len(file) > MaxRecordings => SubSeq(file, 1, MaxRecordings) \in Seq(Recording)
  BY <1>a, PrefixLength, LenProperties
<1> QED BY <1>a, <1>b DEF LoadedFrom

LEMMA ReloadStep ==
    ASSUME HelperInv, NEW file \in RecordingFiles, Reload(file)
    PROVE  HelperStep
<1>a. SessionStep
  <2> USE DEF SessionInv, ControlTypeOK
  <2>a. recordings' \in Seq(Recording)
    BY LoadedFromTypes DEF Reload
  <2>b. DraftTypeOK'
    BY <2>a DEF Reload, DraftTypeOK
  <2>c. SessionTypeOK' /\ SlotTypeOK' /\ CaptureTypeOK'
    BY UnchangedTypes DEF Reload
  <2>d. ReplayInv' /\ UNCHANGED Abstract!replayVars
    BY ReplayUnchanged DEF Reload, sessionVars, slotVars
  <2> QED BY <2>b, <2>c, <2>d DEF SessionStep
<1>b. OtherInputTypeOK'
  BY UnchangedTypes DEF Reload, WindowFrame
<1>c. MenuTypeOK' /\ AuxShopTypeOK' /\ AmountTypeOK' /\ EventTypeOK'
  BY UnchangedTypes DEF Reload, WindowFrame
<1>d. SandboxTypeOK'
  BY UnchangedTypes DEF Reload
<1> QED BY <1>a, <1>b, <1>c, <1>d DEF HelperStep

LEMMA DeleteStep ==
    ASSUME HelperInv, NEW i \in 1..Len(recordings), Delete(i)
    PROVE  HelperStep
<1>a. SessionStep
  <2> USE DEF SessionInv, ControlTypeOK
  <2>a. recordings' \in Seq(Recording)
    BY RemoveAtInSeq DEF Delete, DraftTypeOK
  <2>b. DraftTypeOK'
    BY <2>a DEF Delete, DraftTypeOK
  <2>c. SessionTypeOK' /\ SlotTypeOK' /\ CaptureTypeOK'
    BY UnchangedTypes DEF Delete
  <2>d. ReplayInv' /\ UNCHANGED Abstract!replayVars
    BY ReplayUnchanged DEF Delete, sessionVars, slotVars
  <2> QED BY <2>b, <2>c, <2>d DEF SessionStep
<1>b. OtherInputTypeOK'
  BY UnchangedTypes DEF Delete, WindowFrame
<1>c. MenuTypeOK' /\ AuxShopTypeOK' /\ AmountTypeOK' /\ EventTypeOK'
  BY UnchangedTypes DEF Delete, WindowFrame
<1>d. SandboxTypeOK'
  BY UnchangedTypes DEF Delete
<1> QED BY <1>a, <1>b, <1>c, <1>d DEF HelperStep

LEMMA ToggleSandboxStep ==
    ASSUME HelperInv, ToggleSandbox
    PROVE  HelperStep
<1>a. SessionStep
  BY SessionUnchanged DEF ToggleSandbox
<1>b. OtherInputTypeOK'
  BY UnchangedTypes DEF ToggleSandbox, WindowFrame
<1>c. MenuTypeOK' /\ AuxShopTypeOK' /\ AmountTypeOK' /\ EventTypeOK'
  BY UnchangedTypes DEF ToggleSandbox, WindowFrame
<1>d. SandboxTypeOK'
  BY DEF SandboxTypeOK, ToggleSandbox
<1> QED BY <1>a, <1>b, <1>c, <1>d DEF HelperStep

LEMMA ArmNamedPlaybackStep ==
    ASSUME HelperInv, NEW i \in 1..Len(recordings), ArmNamedPlayback(i)
    PROVE  HelperStep
<1>a. SessionStep
  BY ArmPlaybackStep DEF ArmNamedPlayback
<1>b. OtherInputTypeOK'
  BY UnchangedTypes DEF ArmNamedPlayback, TargetingFrame
<1>c. MenuTypeOK' /\ AuxShopTypeOK' /\ AmountTypeOK' /\ EventTypeOK'
  BY UnchangedTypes DEF ArmNamedPlayback, TargetingFrame, menuVars, gameVars
<1>d. SandboxTypeOK'
  BY SandboxTypes DEF ArmNamedPlayback, ArmPlayback
<1> QED BY <1>a, <1>b, <1>c, <1>d DEF HelperStep

LEMMA StartMenuPlaybackStep ==
    ASSUME HelperInv, NEW i \in 1..Len(recordings), StartMenuPlayback(i)
    PROVE  HelperStep
<1>a. SessionStep
  BY ArmPlaybackStep DEF StartMenuPlayback
<1>b. OtherInputTypeOK'
  BY UnchangedTypes DEF StartMenuPlayback, TargetingFrame
<1>c. MenuTypeOK'
  BY DEF MenuTypeOK, StartMenuPlayback, TargetingFrame, OnMenuOpening, mainMenuVars
<1>d. EventTypeOK'
  BY DEF EventTypeOK, StartMenuPlayback, TargetingFrame, bondVars, OpenCalls
<1>e. AuxShopTypeOK' /\ AmountTypeOK'
  BY UnchangedTypes DEF StartMenuPlayback, TargetingFrame
<1>f. SandboxTypeOK'
  BY SandboxTypes DEF StartMenuPlayback, ArmPlayback
<1> QED BY <1>a, <1>b, <1>c, <1>d, <1>e, <1>f DEF HelperStep

LEMMA CancelActivePlaybackStep ==
    ASSUME HelperInv, CancelActivePlayback
    PROVE  HelperStep
<1>a. SessionStep
  BY StopPlaybackStep, UnchangedTypes
     DEF CancelActivePlayback, SessionInv, ControlTypeOK, SessionTypeOK
<1>b. OtherInputTypeOK'
  BY UnchangedTypes DEF CancelActivePlayback, TargetingFrame
<1>c. MenuTypeOK' /\ AuxShopTypeOK' /\ AmountTypeOK' /\ EventTypeOK'
  BY UnchangedTypes DEF CancelActivePlayback, TargetingFrame, menuVars, gameVars
<1>d. SandboxTypeOK'
  BY UnchangedTypes DEF CancelActivePlayback
<1> QED BY <1>a, <1>b, <1>c, <1>d DEF HelperStep

LEMMA QueueNextPlaybackActionStep ==
    ASSUME SessionInv, IsPlaybackActive, QueueNextPlaybackAction,
           UNCHANGED <<activeKind, playbackActions, playbackRecording, playbackIndex,
                       playbackNeutralFrames, delivered>>,
           sinceDelivery' \in 0..2
    PROVE  SessionTypeOK' /\ SlotTypeOK' /\ ReplayInv' /\ UNCHANGED Abstract!replayVars
<1> USE DEF SessionInv, ControlTypeOK
<1>a. CASE UNCHANGED <<state, slotVars>>
  <2>a. SessionTypeOK' /\ SlotTypeOK'
    BY <1>a, UnchangedTypes DEF SessionTypeOK
  <2> QED BY <1>a, <2>a, ReplayUnchanged DEF slotVars
<1>b. CASE ~UNCHANGED <<state, slotVars>>
  <2>a. /\ state = "Playing" /\ ~PlaybackActionPending
        /\ state' = StateAfterQueueing(playbackActions, playbackIndex)
        /\ IF playbackIndex < Len(playbackActions)
           THEN SetPlaybackAction(NextAction(playbackActions, playbackIndex))
           ELSE UNCHANGED slotVars
    BY <1>b DEF QueueNextPlaybackAction
  <2>b. /\ playbackActions \in Seq(AcceptedAction) /\ playbackIndex \in Nat
        /\ playbackIndex <= Len(playbackActions) /\ Len(playbackActions) \in Nat
        /\ delivered = SubSeq(playbackActions, 1, playbackIndex)
    BY LenProperties DEF SessionTypeOK, ReplayInv, IndexInScript, DeliveredInOrder
  <2>c. CASE playbackIndex < Len(playbackActions)
    <3>a. /\ state' = "Playing"
          /\ playbackAction' = NextAction(playbackActions, playbackIndex)
          /\ UNCHANGED <<playbackOverrideActive, playbackMode,
                         auxCoreNativeAcceptanceActive>>
      BY <2>a, <2>c DEF StateAfterQueueing, SetPlaybackAction
    <3>b. NextAction(playbackActions, playbackIndex) \in AcceptedAction
      BY <2>b, <2>c, ElementOfSeq DEF NextAction
    <3>c. SessionTypeOK'
      BY <3>a DEF SessionTypeOK, HelperState
    <3>d. SlotTypeOK'
      BY <3>a, <3>b DEF SlotTypeOK
    <3>e. ReplayInv'
      BY <2>a, <2>b, <2>c, <3>a DEF ReplayInv, OverrideOnlyWhilePlaying,
         IndexInScript, DeliveredInOrder, SlotIsNextAction, IsPlaybackActive, NextAction
    <3>f. UNCHANGED Abstract!replayVars
      BY <2>a, <3>a DEF Abstract!replayVars, IsPlaybackActive
    <3> QED BY <3>c, <3>d, <3>e, <3>f
  <2>d. CASE ~(playbackIndex < Len(playbackActions))
    <3>a. state' = "WaitingForShopClose" /\ UNCHANGED slotVars
      BY <2>a, <2>d DEF StateAfterQueueing
    <3>b. SessionTypeOK' /\ SlotTypeOK'
      BY <3>a, UnchangedTypes DEF SessionTypeOK, HelperState
    <3>c. playbackAction = NoAction
      BY <2>d DEF ReplayInv, SlotIsNextAction
    <3>d. ReplayInv' /\ UNCHANGED Abstract!replayVars
      BY <2>a, <3>a, <3>c, ReplayUnchanged DEF IsPlaybackActive, slotVars
    <3> QED BY <3>b, <3>d
  <2> QED BY <2>c, <2>d
<1> QED BY <1>a, <1>b

LEMMA UpdateStep ==
    ASSUME HelperInv, NEW abort \in BOOLEAN, Update(abort)
    PROVE  HelperStep
<1>a. SessionStep
  <2> USE DEF SessionInv, ControlTypeOK
  <2>a. DraftTypeOK' /\ activeKind' \in AllKinds
    BY DEF Update, DraftTypeOK, SessionTypeOK
  <2>b. CASE IsPlaybackActive /\ abort
    <3>a. StopPlayback("Cancelled")
      BY <2>b DEF Update
    <3> QED BY <2>a, <3>a, StopPlaybackStep
  <2>c. CASE ~(IsPlaybackActive /\ abort)
    <3>a. sinceDelivery' \in 0..2
      BY <2>c DEF Update, SessionTypeOK
    <3>b. CASE ~IsPlaybackActive
      <4>a. /\ UNCHANGED <<state, playbackActions, playbackRecording, playbackIndex,
                           playbackNeutralFrames, delivered, captureVars,
                           activeUiPadDataValid, slotVars, offerVars>>
            /\ UNCHANGED activeKind
        BY <2>c, <3>b DEF Update
      <4>b. SessionTypeOK' /\ SlotTypeOK' /\ CaptureTypeOK'
        BY <3>a, <4>a, UnchangedTypes DEF SessionTypeOK
      <4>c. ReplayInv' /\ UNCHANGED Abstract!replayVars
        BY <4>a, ReplayUnchanged DEF slotVars
      <4> QED BY <2>a, <4>b, <4>c DEF SessionStep
    <3>c. CASE IsPlaybackActive
      <4>a. FrameWithReplay /\ UNCHANGED activeKind
        BY <2>c, <3>c DEF Update
      <4>b. CaptureTypeOK'
        BY <4>a, UnchangedTypes DEF FrameWithReplay
      <4>c. CASE playbackNeutralFrames > 0
        <5>a. /\ playbackNeutralFrames' = playbackNeutralFrames - 1
              /\ UNCHANGED <<state, slotVars, playbackActions, playbackRecording,
                             playbackIndex, delivered>>
          BY <4>a, <4>c DEF FrameWithReplay
        <5>b. SessionTypeOK' /\ SlotTypeOK'
          BY <3>a, <4>a, <4>c, <5>a, UnchangedTypes DEF SessionTypeOK
        <5>c. ReplayInv' /\ UNCHANGED Abstract!replayVars
          BY <5>a, ReplayUnchanged DEF slotVars
        <5> QED BY <2>a, <4>b, <5>b, <5>c DEF SessionStep
      <4>d. CASE ~(playbackNeutralFrames > 0)
        <5>a. /\ QueueNextPlaybackAction
              /\ UNCHANGED <<playbackNeutralFrames, playbackActions,
                             playbackRecording, playbackIndex, delivered>>
          BY <4>a, <4>d DEF FrameWithReplay
        <5> QED BY <2>a, <3>a, <3>c, <4>a, <4>b, <5>a, QueueNextPlaybackActionStep
                DEF SessionStep
      <4> QED BY <4>c, <4>d
    <3> QED BY <3>b, <3>c
  <2> QED BY <2>b, <2>c
<1>b. OtherInputTypeOK'
  BY UnchangedTypes DEF Update
<1>c. AmountTypeOK'
  BY AmountTypes DEF Update
<1>d. MenuTypeOK' /\ AuxShopTypeOK' /\ SandboxTypeOK' /\ EventTypeOK'
  BY UnchangedTypes DEF Update
<1> QED BY <1>a, <1>b, <1>c, <1>d DEF HelperStep

\* Actions of the game's layers that leave the helper's own variables alone.
LEMMA HelperFrameTypes ==
    ASSUME GameTypeOK, HelperFrame, UNCHANGED auxVars
    PROVE  GameTypeOK'
  BY UnchangedTypes DEF HelperFrame

LEMMA LayerRegisteredStep ==
    ASSUME HelperInv, NEW layer \in Layer, NEW handle \in Handle,
           LayerRegistered(layer, handle)
    PROVE  HelperStep
<1>a. SessionStep
  BY SessionUnchanged DEF LayerRegistered
<1>b. GameTypeOK'
  BY HelperFrameTypes DEF LayerRegistered
<1>c. layerRegistrations' \in [1..MaxRegistrations -> Registration]
      /\ UNCHANGED layerStack
  <2>a. [layer |-> layer, handle |-> handle] \in Registration
    BY DEF Registration
  <2>b. \A i : [layerRegistrations EXCEPT ![i] = [layer |-> layer, handle |-> handle]]
                  \in [1..MaxRegistrations -> Registration]
    BY <2>a DEF OtherInputTypeOK
  <2> QED BY <2>b DEF LayerRegistered, RegisterInputLayer
<1>d. OtherInputTypeOK'
  BY <1>c DEF LayerRegistered, OtherInputTypeOK, buttonVars, scriptedVars,
              autoUiVars, autoUiActionVars
<1> QED BY <1>a, <1>b, <1>d DEF HelperStep

LEMMA LayerReleasedStep ==
    ASSUME HelperInv, NEW handle \in Handle, LayerReleased(handle)
    PROVE  HelperStep
<1>a. SessionStep
  BY SessionUnchanged DEF LayerReleased
<1>b. GameTypeOK'
  BY HelperFrameTypes DEF LayerReleased
<1>c. layerRegistrations' \in [1..MaxRegistrations -> Registration]
      /\ UNCHANGED layerStack
  BY DEF LayerReleased, ReleaseInputLayer, OtherInputTypeOK, Registration
<1>d. OtherInputTypeOK'
  BY <1>c DEF LayerReleased, OtherInputTypeOK, buttonVars, scriptedVars, autoUiVars,
              autoUiActionVars
<1> QED BY <1>a, <1>b, <1>d DEF HelperStep

LEMMA LayerUpdateBeginsStep ==
    ASSUME HelperInv, NEW layer \in Layer, LayerUpdateBegins(layer)
    PROVE  HelperStep
<1>a. SessionStep
  <2>a. CASE OnAuxCoreShopInputReady
    <3>a. BeginActiveSession("Shop", shopTransitionBlocked, TRUE)
      BY <2>a DEF OnAuxCoreShopInputReady
    <3> QED BY <3>a, BeginActiveSessionStep DEF AllKinds
  <2>b. CASE UNCHANGED <<sessionVars, draftVars, captureVars, slotVars>>
    <3> USE DEF SessionInv, ControlTypeOK
    <3>a. SessionTypeOK' /\ DraftTypeOK' /\ SlotTypeOK'
      BY <2>b, UnchangedTypes
    <3>b. CaptureTypeOK'
      BY <2>b DEF CaptureTypeOK, captureVars, LayerUpdateBegins,
                  UIInputLayerUpdateBegin, EnterInputLayer
    <3>c. ReplayInv' /\ UNCHANGED Abstract!replayVars
      BY <2>b, ReplayUnchanged DEF sessionVars, slotVars
    <3> QED BY <3>a, <3>b, <3>c DEF SessionStep
  <2> QED BY <2>a, <2>b DEF LayerUpdateBegins
<1>b. OtherInputTypeOK'
  <2>a. layerStack' \in Seq(Layer)
    BY AppendProperties DEF LayerUpdateBegins, UIInputLayerUpdateBegin,
                            EnterInputLayer, OtherInputTypeOK
  <2> QED BY <2>a DEF LayerUpdateBegins, UIInputLayerUpdateBegin, EnterInputLayer,
                      autoUiActionVars, OtherInputTypeOK,
          buttonVars
<1>c. MenuTypeOK'
  BY DEF MenuTypeOK, LayerUpdateBegins, OnAuxCoreShopInputReady, mainMenuVars
<1>d. AuxShopTypeOK'
  BY UnchangedTypes DEF AuxShopTypeOK, LayerUpdateBegins, OnAuxCoreShopInputReady
<1>e. AmountTypeOK' /\ SandboxTypeOK' /\ EventTypeOK'
  BY UnchangedTypes DEF LayerUpdateBegins
<1> QED BY <1>a, <1>b, <1>c, <1>d, <1>e DEF HelperStep

LEMMA PhysicalAcceptanceType ==
    ASSUME OtherInputTypeOK, NEW layer, NEW out
    PROVE  PhysicalAcceptance(layer, out) \in SUBSET AcceptedAction
<1>a. ASSUME NEW handle \in Handle
      PROVE  UiPadAction(activeUiPadData, handle) \in AcceptedAction
  BY DEF UiPadAction, AcceptedAction, Input, OtherInputTypeOK
<1> QED BY <1>a DEF PhysicalAcceptance

LEMMA LayerUpdateEndsStep ==
    ASSUME HelperInv, NEW out \in LayerOutcome, LayerUpdateEnds(out)
    PROVE  HelperStep
<1>a. SessionStep
  <2> DEFINE served == LayerServesPlayback(updatingInputLayer, out)
             physical == PhysicalAcceptance(updatingInputLayer, out)
  <2>a. OnAcceptedAction(physical, served, FALSE)
    BY DEF LayerUpdateEnds
  <2>b. physical \in SUBSET AcceptedAction
    BY PhysicalAcceptanceType
  <2>c. served \in BOOLEAN
    BY DEF LayerServesPlayback
  <2>d. served => playbackAction # NoAction
    BY DEF LayerServesPlayback, IsUiPadAction, NoAction, NoInput
  <2>e. CaptureTypeOK'
    BY UnchangedTypes DEF LayerUpdateEnds, UIInputLayerUpdateEnd, LeaveInputLayer,
                          padVars,
       SessionInv, ControlTypeOK
  <2>f. IF served
        THEN CompletePlaybackAction /\ UNCHANGED auxCoreNativeAcceptanceActive
        ELSE UNCHANGED slotVars
    BY DEF LayerUpdateEnds, UIInputLayerUpdateEnd, LeaveInputLayer
  <2>g. auxCoreNativeAcceptanceActive \in BOOLEAN
    BY DEF SessionInv, ControlTypeOK, SlotTypeOK
  <2> HIDE DEF served, physical
  <2> QED BY <2>a, <2>b, <2>c, <2>d, <2>e, <2>f, <2>g, OnAcceptedActionStep
<1>b. GameTypeOK'
  BY HelperFrameTypes DEF LayerUpdateEnds, UIInputLayerUpdateEnd, LeaveInputLayer
<1>c. OtherInputTypeOK'
  <2>a. layerStack' \in Seq(Layer) /\ UNCHANGED layerRegistrations
    BY FrontInSeq DEF LayerUpdateEnds, UIInputLayerUpdateEnd, LeaveInputLayer,
                      RestoreUpdatingLayer,
       OtherInputTypeOK
  <2>b. /\ autoUiActionPhase' \in {"Idle", "Pending", "Neutral"}
        /\ autoUiActionObject' \in Object \cup {0}
        /\ autoUiActionMask' \subseteq Bit
        /\ autoUiActionOffered' \in BOOLEAN
    BY DEF LayerUpdateEnds, UIInputLayerUpdateEnd, LeaveInputLayer,
           AutoUiAfterUpdate, OtherInputTypeOK,
       autoUiVars, autoUiActionVars
  <2>c. /\ scriptedBufferedMask' \subseteq Bit
        /\ scriptedUiOfferedMask' \subseteq Bit
        /\ UNCHANGED <<buttonVars, inputLayerPadCaptureActive, activeUiPadData>>
    BY DEF LayerUpdateEnds, UIInputLayerUpdateEnd, LeaveInputLayer, OtherInputTypeOK,
           padVars
  <2> QED BY <2>a, <2>b, <2>c DEF OtherInputTypeOK, buttonVars
<1> QED BY <1>a, <1>b, <1>c DEF HelperStep

LEMMA PadWordTypes ==
    ASSUME OtherInputTypeOK, activeUiPadDataValid \in BOOLEAN,
           NEW words \in SUBSET Bit, SeeUiPadData(words) \/ UNCHANGED padVars
    PROVE  activeUiPadData' \subseteq Bit /\ activeUiPadDataValid' \in BOOLEAN
  BY DEF OtherInputTypeOK, SeeUiPadData, padVars

LEMMA PadDataIsReadStep ==
    ASSUME HelperInv, NEW words \in PadWords, NEW enabled \in EnabledMasks,
           PadDataIsRead(words, enabled)
    PROVE  HelperStep
<1> USE DEF SessionInv, ControlTypeOK
<1>a. words \in SUBSET Bit /\ enabled \in SUBSET Bit
  BY BoundsAssumption
<1>b. activeUiPadDataValid \in BOOLEAN
  BY DEF CaptureTypeOK
<1>c. \/ GetNeutralPadData(words)
      \/ OfferAutoUiAction(words, enabled)
      \/ OfferScriptedAction(words, enabled)
      \/ OfferPlaybackAction(words, enabled)
      \/ GetNativePadData(words, enabled)
  BY DEF PadDataIsRead, UIUtilGetPadData
<1>d. activeUiPadData' \subseteq Bit /\ activeUiPadDataValid' \in BOOLEAN
  <2>a. CASE GetNeutralPadData(words)
    <3>a. words \ autoUiActionMask \in SUBSET Bit
      BY <1>a
    <3> QED BY <1>b, <2>a, <3>a, PadWordTypes DEF GetNeutralPadData
  <2>b. CASE OfferAutoUiAction(words, enabled)
    <3>a. words \cup autoUiActionMask \in SUBSET Bit
      BY <1>a DEF OtherInputTypeOK
    <3> QED BY <1>b, <2>b, <3>a, PadWordTypes DEF OfferAutoUiAction
  <2>c. CASE OfferScriptedAction(words, enabled)
    <3>a. words \cup (scriptedBufferedMask \cap enabled) \in SUBSET Bit
      BY <1>a
    <3> QED BY <1>a, <1>b, <2>c, <3>a, PadWordTypes DEF OfferScriptedAction,
                                        KeepNativePadData
  <2>d. CASE OfferPlaybackAction(words, enabled) \/ GetNativePadData(words, enabled)
    BY <1>a, <1>b, <2>d, PadWordTypes
       DEF OfferPlaybackAction, GetNativePadData, KeepNativePadData
  <2> QED BY <1>c, <2>a, <2>b, <2>c, <2>d
<1>e. playbackUiActionOffered' \in BOOLEAN /\ playbackUiDirectActionOffered' \in BOOLEAN
  <2>a. CASE UNCHANGED offerVars
    BY <2>a DEF CaptureTypeOK, offerVars
  <2>b. CASE OfferPlaybackAction(words, enabled)
    BY <2>a, <2>b DEF OfferPlaybackAction
  <2> QED BY <1>c, <2>a, <2>b DEF GetNeutralPadData, OfferAutoUiAction,
             OfferScriptedAction, GetNativePadData
<1>f. CaptureTypeOK'
  BY <1>d, <1>e DEF CaptureTypeOK, PadDataIsRead, UIUtilGetPadData, CaptureWaitsAfter
<1>g. SessionTypeOK' /\ DraftTypeOK' /\ SlotTypeOK'
  BY UnchangedTypes DEF PadDataIsRead, UIUtilGetPadData
<1>h. ReplayInv' /\ UNCHANGED Abstract!replayVars
  BY ReplayUnchanged DEF PadDataIsRead, UIUtilGetPadData, sessionVars, slotVars
<1>i. SessionStep
  BY <1>f, <1>g, <1>h DEF SessionStep
<1>j.  OtherInputTypeOK'
  <2>a. /\ scriptedBufferedMask' \subseteq Bit
        /\ scriptedUiOfferedMask' \subseteq Bit
    BY <1>c DEF OtherInputTypeOK, GetNeutralPadData, OfferAutoUiAction,
       OfferScriptedAction, OfferPlaybackAction, GetNativePadData, scriptedVars
  <2>b. /\ autoUiActionPhase' \in {"Idle", "Pending", "Neutral"}
        /\ autoUiActionObject' \in Object \cup {0}
        /\ autoUiActionMask' \subseteq Bit
        /\ autoUiActionOffered' \in BOOLEAN
    BY <1>c DEF OtherInputTypeOK, GetNeutralPadData, OfferAutoUiAction,
       OfferScriptedAction, OfferPlaybackAction, GetNativePadData, autoUiVars,
       autoUiActionVars
  <2> QED BY <1>d, <2>a, <2>b DEF OtherInputTypeOK, PadDataIsRead, UIUtilGetPadData,
          buttonVars, layerVars
<1>k.  GameTypeOK'
  BY HelperFrameTypes DEF PadDataIsRead, UIUtilGetPadData
<1> QED BY <1>i, <1>j, <1>k DEF HelperStep

LEMMA RelayChecksStep ==
    ASSUME HelperInv, NEW d \in Descriptor, NEW enabled \in BOOLEAN,
           RelayChecks(d, enabled)
    PROVE  HelperStep
<1>a. SessionStep
  <2> DEFINE served == RelayServesPlayback(d, enabled)
  <2>a. OnAcceptedAction({}, served, FALSE)
    BY DEF RelayChecks
  <2>b. served \in BOOLEAN
    BY DEF RelayServesPlayback
  <2>c. served => playbackAction # NoAction
    BY DEF RelayServesPlayback, RelayServesUiAction, RelayServesEncodedAction,
       NativeCheckServesPlayback, NoAction, NoInput
  <2>d. CaptureTypeOK'
    BY UnchangedTypes DEF RelayChecks, PadRelayCheckAction, padVars,
       SessionInv, ControlTypeOK
  <2>e. IF served
        THEN CompletePlaybackAction /\ UNCHANGED auxCoreNativeAcceptanceActive
        ELSE UNCHANGED slotVars
    BY DEF RelayChecks, PadRelayCheckAction
  <2>f. auxCoreNativeAcceptanceActive \in BOOLEAN
    BY DEF SessionInv, ControlTypeOK, SlotTypeOK
  <2> HIDE DEF served
  <2> QED BY <2>a, <2>b, <2>c, <2>d, <2>e, <2>f, OnAcceptedActionStep
<1>b. GameTypeOK'
  BY HelperFrameTypes DEF RelayChecks, PadRelayCheckAction
<1>c. OtherInputTypeOK'
  <2>a. scriptedBufferedMask' \subseteq Bit /\ buttonFrames' \subseteq Bit
    BY DEF RelayChecks, PadRelayCheckAction, OtherInputTypeOK
  <2> QED BY <2>a DEF RelayChecks, PadRelayCheckAction, OtherInputTypeOK, autoUiVars,
                      autoUiActionVars,
          layerVars, padVars
<1> QED BY <1>a, <1>b, <1>c DEF HelperStep

----
(* The invariant and the theorems.                                         *)

LEMMA InitHelperInv ==
    ASSUME Init
    PROVE  HelperInv /\ Abstract!Init
<1>a. PICK file \in RecordingFiles : recordings = LoadedFrom(file)
  BY DEF Init
<1>b. SessionTypeOK /\ DraftTypeOK
  BY <1>a, LoadedFromTypes, EmptySeq
     DEF Init, SessionTypeOK, DraftTypeOK, HelperState, AllKinds
<1>c. SlotTypeOK /\ CaptureTypeOK
  BY DEF Init, InputBufferInit, SlotTypeOK, CaptureTypeOK, PlaybackModes
<1>d. ReplayInv
  BY DEF Init, InputBufferInit, ReplayInv, OverrideOnlyWhilePlaying, IndexInScript,
     DeliveredInOrder, SlotIsNextAction, IsPlaybackActive
<1>e. OtherInputTypeOK
  <2>a. layerRegistrations \in [1..MaxRegistrations -> Registration]
    BY DEF Init, InputBufferInit, Registration
  <2>b. layerStack \in Seq(Layer)
    BY EmptySeq DEF Init, InputBufferInit
  <2> QED BY <2>a, <2>b DEF Init, InputBufferInit, OtherInputTypeOK
<1>f. MenuTypeOK /\ AuxShopTypeOK /\ SandboxTypeOK /\ EventTypeOK
  BY DEF Init, MenuTypeOK, AuxShopTypeOK, SandboxTypeOK, EventTypeOK, OpenCalls
<1>g. AmountTypeOK
  <2>a. auxCoreInputAge \in 0..AuxCoreAmountRepeatFrames
    BY DEF Init, InputBufferInit, AuxCoreAmountRepeatFrames
  <2> QED BY <2>a DEF Init, InputBufferInit, AmountTypeOK
<1>h. Abstract!Init
  BY DEF Init, Abstract!Init, IsPlaybackActive
<1> QED BY <1>b, <1>c, <1>d, <1>e, <1>f, <1>g, <1>h DEF SessionInv, ControlTypeOK

LEMMA InputBufferHooksStep ==
    ASSUME HelperInv, InputBufferHooks
    PROVE  HelperStep
<1>a. ASSUME NEW pair \in RegisterPairs,
             LayerRegistered(pair[1], pair[2]) \/ LayerReleased(pair[2])
      PROVE  HelperStep
  <2>a. pair[1] \in Layer /\ pair[2] \in Handle
    BY MenuHelperAssumption
  <2> QED BY <1>a, <2>a, LayerRegisteredStep, LayerReleasedStep
<1> QED BY <1>a, LayerUpdateBeginsStep, LayerUpdateEndsStep, PadDataIsReadStep,
        RelayChecksStep DEF InputBufferHooks

LEMMA GameHooksStep ==
    ASSUME HelperInv, GameHooks
    PROVE  HelperStep
<1>a. ASSUME NEW save \in SaveInputs,
             \/ ShopCloses(save[1], save[2])
             \/ MainMenuNotCreated(save[1], save[2])
             \/ MainMenuSequenceEnds(save[1], save[2])
             \/ TutorialBladeBondFinalized(save[1], save[2])
      PROVE  HelperStep
  <2>a. save[1] \in Name \cup {EmptyName} /\ save[2] \in BOOLEAN
    BY DEF SaveInputs
  <2> QED BY <1>a, <2>a, ShopClosesStep, MainMenuNotCreatedStep,
          MainMenuSequenceEndsStep, TutorialBladeBondFinalizedStep
<1>b. ASSUME ShopOpens(TRUE) \/ ShopOpens(FALSE)
      PROVE  HelperStep
  BY <1>b, ShopOpensStep
<1>c. ASSUME NEW object \in Object,
             \/ \E kind \in {"shown", "opening", "closed"} : AuxRecipeEvent(kind, object)
             \/ AuxAmountInput(object)
      PROVE  HelperStep
  BY <1>c, AuxRecipeEventStep, AuxAmountInputStep
<1>d. ASSUME NEW handle \in Handle, AuxCoreListInputEnabled(handle)
      PROVE  HelperStep
  BY <1>d, AuxCoreListInputEnabledStep
<1>e. ASSUME NEW menu \in Kind, MainMenuCreateBegin(menu)
      PROVE  HelperStep
  BY <1>e, MainMenuCreateBeginStep
<1>f. ASSUME NEW built \in BOOLEAN, DataStoreChanges(built)
      PROVE  HelperStep
  BY <1>f, DataStoreChangesStep
<1>g. ASSUME \/ MenuInputDisabled
             \/ MenuInputEnabled
             \/ AuxCoreShopOpening
             \/ MainMenuCreated
             \/ TravelButtonOpen
             \/ TutorialBladeBondRequested
             \/ TutorialBladeBondInitialized
             \/ TutorialBladeBondInputReady
             \/ SceneTransitionBegins
             \/ SceneTransitionEnds
      PROVE  HelperStep
  BY <1>g, MenuInputDisabledStep, MenuInputEnabledStep, AuxCoreShopOpeningStep,
     MainMenuCreatedStep, TravelButtonOpenStep, TutorialBladeBondRequestedStep,
     TutorialBladeBondInitializedStep, TutorialBladeBondInputReadyStep,
     SceneTransitionBeginsStep, SceneTransitionEndsStep
<1> QED BY <1>a, <1>b, <1>c, <1>d, <1>e, <1>f, <1>g DEF GameHooks

LEMMA WindowStep ==
    ASSUME HelperInv, Window
    PROVE  HelperStep
  BY RecordStep, StopRecordingStep, SaveStep, StartStep, StopStep, ReloadStep,
     DeleteStep, ToggleSandboxStep DEF Window

LEMMA TargetingStep ==
    ASSUME HelperInv, Targeting
    PROVE  HelperStep
  BY ArmNamedPlaybackStep, StartMenuPlaybackStep, CancelActivePlaybackStep DEF Targeting

LEMMA StutteringStep ==
    ASSUME HelperInv, UNCHANGED vars
    PROVE  HelperStep
<1>a. /\ UNCHANGED controlVars
      /\ UNCHANGED otherInputVars
      /\ UNCHANGED <<auxVars, menuVars, auxShopVars, bondVars, sandboxVars, gameVars>>
  BY DEF vars, ibVars, controlVars, otherInputVars, padVars
<1> QED BY <1>a, SessionUnchanged, UnchangedTypes DEF HelperStep

LEMMA NextHelperStep ==
    ASSUME HelperInv, [Next]_vars
    PROVE  HelperStep
<1>a. CASE InputBufferHooks
  BY <1>a, InputBufferHooksStep
<1>b. CASE GameHooks
  BY <1>b, GameHooksStep
<1>c. CASE Window
  BY <1>c, WindowStep
<1>d. CASE Targeting
  BY <1>d, TargetingStep
<1>e. ASSUME NEW abort \in BOOLEAN, Update(abort)
      PROVE  HelperStep
  BY <1>e, UpdateStep
<1>f. CASE UNCHANGED vars
  BY <1>f, StutteringStep
<1> QED BY <1>a, <1>b, <1>c, <1>d, <1>e, <1>f DEF Next

\* The inductive invariant holds in every reachable state, and every step is a
\* step of the abstract replay.
THEOREM Invariance == Spec => []IInv
<1>a. Init => IInv
  BY InitHelperInv, IInvParts
<1>b. IInv /\ [Next]_vars => IInv'
  <2> SUFFICES ASSUME IInv, [Next]_vars PROVE IInv'
    OBVIOUS
  <2>a. HelperStep
    BY IInvParts, NextHelperStep
  <2>b. HelperInv'
    BY <2>a DEF HelperStep, SessionStep
  <2> QED BY <2>b, TypeOKPartsNext DEF IInv, SessionInv
<1> QED BY <1>a, <1>b, PTL DEF Spec

\* Every variable of MenuHelper and InputBuffer keeps to its type, whatever the
\* recordings file holds and in whatever order the game calls the hooks.
THEOREM TypeCorrect == Spec => []TypeOK
<1>a. IInv => TypeOK
  BY DEF IInv
<1> QED BY <1>a, Invariance, PTL

\* The override that blanks P1's pad is on exactly while a replay runs.
THEOREM OverrideIsReleased == Spec => []OverrideOnlyWhilePlaying
<1>a. IInv => OverrideOnlyWhilePlaying
  BY DEF IInv, ReplayInv
<1> QED BY <1>a, Invariance, PTL

\* What the game has accepted of a replay is the counted prefix of its script.
THEOREM ReplayInOrder == Spec => []DeliveredInOrder
<1>a. IInv => DeliveredInOrder
  BY DEF IInv, ReplayInv
<1> QED BY <1>a, Invariance, PTL

\* The pending action is always the next one of the script.
THEOREM SlotHoldsNext == Spec => []SlotIsNextAction
<1>a. IInv => SlotIsNextAction
  BY DEF IInv, ReplayInv
<1> QED BY <1>a, Invariance, PTL

\* MenuHelper over InputBuffer implements the abstract replay.
THEOREM Refinement == Spec => ImplementsReplay
<1>a. Init => Abstract!Init
  BY InitHelperInv
<1>b. IInv /\ [Next]_vars => [Abstract!Next]_(Abstract!replayVars)
  BY IInvParts, NextHelperStep DEF HelperStep, SessionStep
<1> QED BY <1>a, <1>b, Invariance, PTL DEF Spec, ImplementsReplay, Abstract!Spec

----
(***************************************************************************)
(* More, on top of the invariance theorem: the recording session and its   *)
(* capture, the sandbox, the armed shop replay, the draft, who accepts the *)
(* inputs of a replay and when the slot is filled again.  Each section     *)
(* follows one property through the operators on a session and then        *)
(* through the actions, those that leave it alone taken together.          *)
(***************************************************************************)

(* Operators of a session, and the capture.                                *)

LEMMA BeginKeepsCapture ==
    ASSUME RecordingHasCapture, NEW kind, NEW blocked, NEW entering,
           BeginActiveSession(kind, blocked, entering)
    PROVE  RecordingHasCapture' /\ UNCHANGED <<activeKind, draftVars>>
  BY DEF RecordingHasCapture, BeginActiveSession, SetAcceptedActionCapture,
     StartPlaying, StateAfterQueueing, captureVars

LEMMA StopKeepsCapture ==
    ASSUME NEW nextState, nextState # "Recording", StopPlayback(nextState)
    PROVE  RecordingHasCapture'
  BY DEF RecordingHasCapture, StopPlayback

LEMMA EndKeepsCapture ==
    ASSUME RecordingHasCapture, NEW kind, NEW name, NEW saved,
           EndActiveSession(kind, name, saved)
    PROVE  RecordingHasCapture' /\ UNCHANGED activeKind
  BY StopKeepsCapture DEF RecordingHasCapture, EndActiveSession, SaveDraft,
     controlVars, captureVars, sessionVars

LEMMA ArmKeepsCapture ==
    ASSUME RecordingHasCapture, NEW i, ArmPlayback(i)
    PROVE  RecordingHasCapture'
  BY DEF RecordingHasCapture, ArmPlayback, StartPlaying, StateAfterQueueing

\* The game's own calls and the frame leave the kind alone.
LEMMA HooksKeepKind ==
    ASSUME \/ InputBufferHooks
           \/ GameHooks
           \/ \E abort \in BOOLEAN : Update(abort)
    PROVE  UNCHANGED activeKind
<1> USE DEF controlVars, sessionVars
<1>a. CASE InputBufferHooks
  <2>a. ASSUME NEW layer, LayerUpdateBegins(layer)
        PROVE  UNCHANGED activeKind
    BY <2>a DEF LayerUpdateBegins, OnAuxCoreShopInputReady, BeginActiveSession
  <2> QED BY <1>a, <2>a DEF InputBufferHooks, LayerRegistered, LayerReleased, LayerUpdateEnds,
          PadDataIsRead, RelayChecks, OnAcceptedAction
<1>b. CASE GameHooks
  <2>a. ASSUME NEW kind, NEW blocked, NEW entering,
               BeginActiveSession(kind, blocked, entering)
        PROVE  UNCHANGED activeKind
    BY <2>a DEF BeginActiveSession
  <2>b. ASSUME NEW kind, NEW name, NEW saved, EndActiveSession(kind, name, saved)
        PROVE  UNCHANGED activeKind
    BY <2>b DEF EndActiveSession
  <2>c. ASSUME NEW save \in SaveInputs,
               \/ ShopCloses(save[1], save[2])
               \/ MainMenuNotCreated(save[1], save[2])
               \/ MainMenuSequenceEnds(save[1], save[2])
               \/ TutorialBladeBondFinalized(save[1], save[2])
        PROVE  UNCHANGED activeKind
    BY <2>b, <2>c DEF ShopCloses, MainMenuNotCreated, MainMenuSequenceEnds,
       TutorialBladeBondFinalized
  <2>d. ASSUME \/ \E initializing \in BOOLEAN : ShopOpens(initializing)
               \/ MainMenuCreated
               \/ MenuInputEnabled
               \/ TutorialBladeBondInitialized
               \/ TutorialBladeBondInputReady
        PROVE  UNCHANGED activeKind
    BY <2>a, <2>d DEF ShopOpens, OnShopOpened, MainMenuCreated, OnMenuOpened,
       OnTravelOpened, MenuInputEnabled, TutorialBladeBondInitialized,
       TutorialBladeBondInputReady
  <2>e. ASSUME \/ MenuInputDisabled
               \/ AuxCoreShopOpening
               \/ \E handle \in Handle : AuxCoreListInputEnabled(handle)
               \/ \E menu \in Kind : MainMenuCreateBegin(menu)
               \/ TravelButtonOpen
               \/ TutorialBladeBondRequested
               \/ \E built \in BOOLEAN : DataStoreChanges(built)
               \/ SceneTransitionBegins
               \/ SceneTransitionEnds
        PROVE  UNCHANGED activeKind
    BY <2>e DEF MenuInputDisabled, AuxCoreShopOpening, AuxCoreListInputEnabled,
       MainMenuCreateBegin, TravelButtonOpen, TutorialBladeBondRequested,
       DataStoreChanges, SceneTransitionBegins, SceneTransitionEnds
  <2>f. ASSUME NEW object \in Object,
               \/ \E kind \in {"shown", "opening", "closed"} : AuxRecipeEvent(kind, object)
               \/ AuxAmountInput(object)
        PROVE  UNCHANGED activeKind
    BY <2>f DEF AuxRecipeEvent, AuxAmountInput, OnAcceptedAction
  <2> QED BY <1>b, <2>c, <2>d, <2>e, <2>f DEF GameHooks
<1>c. CASE \E abort \in BOOLEAN : Update(abort)
  BY <1>c DEF Update
<1> QED BY <1>a, <1>b, <1>c

----
(* The recording session has its capture.                                  *)

LEMMA CaptureOfInputHooks ==
    ASSUME RecordingHasCapture, InputBufferHooks
    PROVE  RecordingHasCapture'
<1> USE DEF controlVars, sessionVars, captureVars
<1>a. ASSUME NEW layer, LayerUpdateBegins(layer)
      PROVE  RecordingHasCapture'
  <2>a. CASE AuxCoreListReady(layer)
    BY <1>a, <2>a, BeginKeepsCapture DEF LayerUpdateBegins, OnAuxCoreShopInputReady
  <2>b. CASE ~AuxCoreListReady(layer)
    BY <1>a, <2>b DEF LayerUpdateBegins, RecordingHasCapture
  <2> QED BY <2>a, <2>b
<1>b. ASSUME NEW out, LayerUpdateEnds(out)
      PROVE  RecordingHasCapture'
  BY <1>b DEF RecordingHasCapture, LayerUpdateEnds, OnAcceptedAction,
     UIInputLayerUpdateEnd, LeaveInputLayer
<1>c. ASSUME NEW words, NEW enabled, PadDataIsRead(words, enabled)
      PROVE  RecordingHasCapture'
  BY <1>c DEF RecordingHasCapture, PadDataIsRead, UIUtilGetPadData
<1>d. ASSUME NEW d, NEW enabled, RelayChecks(d, enabled)
      PROVE  RecordingHasCapture'
  BY <1>d DEF RecordingHasCapture, RelayChecks, OnAcceptedAction, PadRelayCheckAction
<1>e. ASSUME NEW pair \in RegisterPairs,
             LayerRegistered(pair[1], pair[2]) \/ LayerReleased(pair[2])
      PROVE  RecordingHasCapture'
  BY <1>e DEF RecordingHasCapture, LayerRegistered, LayerReleased
<1> QED BY <1>a, <1>b, <1>c, <1>d, <1>e DEF InputBufferHooks

LEMMA CaptureOfGameHooks ==
    ASSUME RecordingHasCapture, GameHooks
    PROVE  RecordingHasCapture'
<1> USE DEF controlVars, sessionVars, captureVars
<1>0. ASSUME UNCHANGED controlVars
      PROVE  RecordingHasCapture'
  BY <1>0 DEF RecordingHasCapture
<1>a. ASSUME NEW save \in SaveInputs,
             \/ ShopCloses(save[1], save[2])
             \/ MainMenuNotCreated(save[1], save[2])
             \/ MainMenuSequenceEnds(save[1], save[2])
             \/ TutorialBladeBondFinalized(save[1], save[2])
      PROVE  RecordingHasCapture'
  BY <1>0, <1>a, EndKeepsCapture, StopKeepsCapture DEF ShopCloses,
     MainMenuNotCreated, MainMenuSequenceEnds, TutorialBladeBondFinalized
<1>b. ASSUME \/ \E initializing \in BOOLEAN : ShopOpens(initializing)
             \/ MainMenuCreated
             \/ MenuInputEnabled
             \/ TutorialBladeBondInitialized
             \/ TutorialBladeBondInputReady
      PROVE  RecordingHasCapture'
  BY <1>0, <1>b, BeginKeepsCapture DEF ShopOpens, OnShopOpened, MainMenuCreated,
     OnMenuOpened, OnTravelOpened, MenuInputEnabled, TutorialBladeBondInitialized,
     TutorialBladeBondInputReady
<1>c. ASSUME \/ MenuInputDisabled
             \/ \E handle \in Handle : AuxCoreListInputEnabled(handle)
             \/ \E menu \in Kind : MainMenuCreateBegin(menu)
             \/ \E object \in Object, kind \in {"shown", "opening", "closed"} :
                   AuxRecipeEvent(kind, object)
             \/ TravelButtonOpen
             \/ TutorialBladeBondRequested
             \/ \E built \in BOOLEAN : DataStoreChanges(built)
             \/ SceneTransitionEnds
      PROVE  RecordingHasCapture'
  BY <1>0, <1>c DEF MenuInputDisabled, AuxCoreListInputEnabled, MainMenuCreateBegin,
     AuxRecipeEvent, TravelButtonOpen, TutorialBladeBondRequested,
     DataStoreChanges, SceneTransitionEnds
<1>d. CASE AuxCoreShopOpening
  BY <1>0, <1>d DEF AuxCoreShopOpening, RecordingHasCapture
<1>e. ASSUME NEW object \in Object, AuxAmountInput(object)
      PROVE  RecordingHasCapture'
  BY <1>e DEF AuxAmountInput, OnAcceptedAction, RecordingHasCapture
\* A recording that survives the transition keeps its capture; one that does
\* not is no recording any more.
<1>f. CASE SceneTransitionBegins
  <2>a. ActiveTutorialBladeBond /\ state = "Recording" => CaptureSurvives
    BY DEF CaptureSurvives
  <2>b. state = "Recording" => (PreservedSession <=> ActiveTutorialBladeBond)
    BY DEF PreservedSession, Armed
  <2> QED BY <1>f, <2>a, <2>b, StopKeepsCapture
          DEF SceneTransitionBegins, RecordingHasCapture, StateAfterRecording
<1> QED BY <1>a, <1>b, <1>c, <1>d, <1>e, <1>f DEF GameHooks

LEMMA CaptureOfMod ==
    ASSUME RecordingHasCapture,
           Window \/ Targeting \/ \E abort \in BOOLEAN : Update(abort)
    PROVE  RecordingHasCapture'
<1> USE DEF controlVars, sessionVars, captureVars
<1>a. ASSUME NEW kind, Record(kind)
      PROVE  RecordingHasCapture'
  BY <1>a, StopKeepsCapture DEF Record, RecordingHasCapture
<1>b. CASE StopRecording
  BY <1>b DEF StopRecording, StateAfterRecording, RecordingHasCapture
<1>c. ASSUME NEW name, NEW kind, NEW saved, Save(name, kind, saved)
      PROVE  RecordingHasCapture'
  BY <1>c DEF Save, SaveDraft, RecordingHasCapture
<1>d. ASSUME NEW i, Start(i) \/ ArmNamedPlayback(i) \/ StartMenuPlayback(i)
      PROVE  RecordingHasCapture'
  BY <1>d, ArmKeepsCapture DEF Start, ArmNamedPlayback, StartMenuPlayback
<1>e. CASE Stop \/ CancelActivePlayback
  BY <1>e, StopKeepsCapture DEF Stop, CancelActivePlayback
<1>f. ASSUME NEW file, Reload(file)
      PROVE  RecordingHasCapture'
  BY <1>f DEF Reload, RecordingHasCapture
<1>g. ASSUME NEW i, Delete(i)
      PROVE  RecordingHasCapture'
  BY <1>g DEF Delete, RecordingHasCapture
<1>h. CASE ToggleSandbox
  BY <1>h DEF ToggleSandbox, RecordingHasCapture
<1>i. ASSUME NEW abort \in BOOLEAN, Update(abort)
      PROVE  RecordingHasCapture'
  BY <1>i, StopKeepsCapture DEF Update, FrameWithReplay, QueueNextPlaybackAction,
     StateAfterQueueing, RecordingHasCapture
<1> QED BY <1>a, <1>b, <1>c, <1>d, <1>e, <1>f, <1>g, <1>h, <1>i DEF Window, Targeting

\* A recording session hears the game, whatever happened since it began.
THEOREM RecordingHears == Spec => []RecordingHasCapture
<1>a. Init => RecordingHasCapture
  BY DEF Init, RecordingHasCapture
<1>b. RecordingHasCapture /\ [Next]_vars => RecordingHasCapture'
  <2>a. RecordingHasCapture /\ UNCHANGED vars => RecordingHasCapture'
    BY DEF RecordingHasCapture, vars, sessionVars, ibVars, captureVars
  <2> QED BY <2>a, CaptureOfInputHooks, CaptureOfGameHooks, CaptureOfMod DEF Next
<1> QED BY <1>a, <1>b, PTL DEF Spec

----
(* Sandbox data.                                                           *)

LEMMA SandboxOpening ==
    ASSUME SandboxIsRefusedAndBacked,
           OnSandboxMenuOpened \/ OnSandboxMenuClosed \/ UNCHANGED sandboxVars
    PROVE  SandboxIsRefusedAndBacked'
  BY DEF SandboxIsRefusedAndBacked, IsSandboxDataActive, OnSandboxMenuOpened,
         OnSandboxMenuClosed, sandboxVars

\* Sandbox data is never in use without the option that refuses saves, nor
\* after the store it stands in for was rebuilt or destroyed.
THEOREM SandboxIsSafe == Spec => []SandboxIsRefusedAndBacked
<1>a. Init => SandboxIsRefusedAndBacked
  BY DEF Init, SandboxIsRefusedAndBacked, IsSandboxDataActive
<1>b. SandboxIsRefusedAndBacked /\ [Next]_vars => SandboxIsRefusedAndBacked'
  <2> SUFFICES ASSUME SandboxIsRefusedAndBacked, [Next]_vars
               PROVE  SandboxIsRefusedAndBacked'
    OBVIOUS
  <2>a. CASE InputBufferHooks
    <3>a. UNCHANGED sandboxVars
      BY <2>a DEF InputBufferHooks, LayerRegistered, LayerReleased, LayerUpdateBegins,
         LayerUpdateEnds, PadDataIsRead, RelayChecks, HelperFrame
    <3> QED BY <3>a, SandboxOpening
  <2>b. ASSUME \/ \E save \in SaveInputs : \/ ShopCloses(save[1], save[2])
                                           \/ MainMenuNotCreated(save[1], save[2])
                                           \/ MainMenuSequenceEnds(save[1], save[2])
                                           \/ TutorialBladeBondFinalized(save[1], save[2])
               \/ \E initializing \in BOOLEAN : ShopOpens(initializing)
               \/ MainMenuCreated
               \/ TutorialBladeBondInitialized
               \/ SceneTransitionBegins
        PROVE  SandboxIsRefusedAndBacked'
    BY <2>b, SandboxOpening DEF ShopCloses, MainMenuNotCreated, MainMenuSequenceEnds,
       TutorialBladeBondFinalized, ShopOpens, MainMenuCreated,
       TutorialBladeBondInitialized, SceneTransitionBegins
  <2>c. ASSUME \/ MenuInputDisabled
               \/ MenuInputEnabled
               \/ AuxCoreShopOpening
               \/ \E handle \in Handle : AuxCoreListInputEnabled(handle)
               \/ \E kind \in {"shown", "opening", "closed"}, object \in Object :
                     AuxRecipeEvent(kind, object)
               \/ \E object \in Object : AuxAmountInput(object)
               \/ \E menu \in Kind : MainMenuCreateBegin(menu)
               \/ TravelButtonOpen
               \/ TutorialBladeBondRequested
               \/ TutorialBladeBondInputReady
               \/ SceneTransitionEnds
        PROVE  SandboxIsRefusedAndBacked'
    <3>a. UNCHANGED sandboxVars
      BY <2>c DEF MenuInputDisabled, MenuInputEnabled, AuxCoreShopOpening,
         AuxCoreListInputEnabled, AuxRecipeEvent, AuxAmountInput, MainMenuCreateBegin,
         TravelButtonOpen, TutorialBladeBondRequested, TutorialBladeBondInputReady,
         SceneTransitionEnds
    <3> QED BY <3>a, SandboxOpening
  <2>d. ASSUME NEW built \in BOOLEAN, DataStoreChanges(built)
        PROVE  SandboxIsRefusedAndBacked'
    BY <2>d DEF DataStoreChanges, SandboxIsRefusedAndBacked, IsSandboxDataActive
  <2>e. CASE GameHooks
    BY <2>b, <2>c, <2>d, <2>e DEF GameHooks
  <2>f. CASE ToggleSandbox
    BY <2>f DEF ToggleSandbox, SandboxIsRefusedAndBacked, IsSandboxDataActive
  <2>g. ASSUME \/ \E kind \in Kind : Record(kind)
               \/ StopRecording
               \/ \E name \in Name, kind \in Kind, saved \in BOOLEAN : Save(name, kind, saved)
               \/ \E i \in 1..Len(recordings) : Start(i)
               \/ Stop
               \/ \E file \in RecordingFiles : Reload(file)
               \/ \E i \in 1..Len(recordings) : Delete(i)
        PROVE  SandboxIsRefusedAndBacked'
    BY <2>g, SandboxOpening DEF Record, StopRecording, Save, Start, Stop, Reload,
       Delete, ArmPlayback
  <2>h. CASE Targeting
    BY <2>h, SandboxOpening DEF Targeting, ArmNamedPlayback, StartMenuPlayback,
       CancelActivePlayback, ArmPlayback
  <2>i. ASSUME NEW abort \in BOOLEAN, Update(abort)
        PROVE  SandboxIsRefusedAndBacked'
    <3>a. UNCHANGED sandboxVars
      BY <2>i DEF Update
    <3> QED BY <3>a, SandboxOpening
  <2>j.  CASE UNCHANGED vars
    BY <2>j, SandboxOpening DEF vars
  <2> QED BY <2>a, <2>e, <2>f, <2>g, <2>h, <2>i, <2>j DEF Next, Window
<1> QED BY <1>a, <1>b, PTL DEF Spec

----
(* An armed shop replay.                                                   *)

\* The mod creates no menu for a shop replay, so that a native call that fails
\* cannot stop one.
HelperCallsNoShop == openCall \in {"HelperMenu", "HelperTravel"} => activeKind # "Shop"

LEMMA HelperCallStep ==
    ASSUME HelperCallsNoShop, [Next]_vars
    PROVE  HelperCallsNoShop'
<1> USE DEF HelperCallsNoShop
<1>a. CASE \/ InputBufferHooks
           \/ GameHooks
           \/ \E abort \in BOOLEAN : Update(abort)
  <2>a. UNCHANGED activeKind
    BY <1>a, HooksKeepKind
  <2>b. UNCHANGED openCall \/ openCall' = "none" \/ \E menu \in Kind : MainMenuCreateBegin(menu)
    <3>a. CASE InputBufferHooks
      BY <3>a DEF InputBufferHooks, LayerRegistered, LayerReleased, LayerUpdateBegins,
         LayerUpdateEnds, PadDataIsRead, RelayChecks, HelperFrame, gameVars
    <3>b. CASE GameHooks
      BY <3>b DEF GameHooks, ShopOpens, ShopCloses, MenuInputDisabled, MenuInputEnabled,
         AuxCoreShopOpening, AuxCoreListInputEnabled, AuxRecipeEvent, AuxAmountInput,
         MainMenuCreated, MainMenuNotCreated, MainMenuSequenceEnds, TravelButtonOpen,
         TutorialBladeBondRequested, TutorialBladeBondInitialized,
         TutorialBladeBondInputReady, TutorialBladeBondFinalized, DataStoreChanges,
         SceneTransitionBegins, SceneTransitionEnds, gameVars
    <3>c. CASE \E abort \in BOOLEAN : Update(abort)
      BY <3>c DEF Update, gameVars
    <3> QED BY <1>a, <3>a, <3>b, <3>c
  <2>c. ASSUME NEW menu \in Kind, MainMenuCreateBegin(menu)
        PROVE  openCall' \notin {"HelperMenu", "HelperTravel"}
    BY <2>c, MenuHelperAssumption DEF MainMenuCreateBegin, AllKinds
  <2> QED BY <2>a, <2>b, <2>c
<1>b. CASE Window
  <2>a. Idle /\ UNCHANGED openCall
    BY <1>b DEF Window, Record, StopRecording, Save, Start, Stop, Reload, Delete,
       ToggleSandbox, WindowFrame, gameVars
  <2> QED BY <2>a DEF Idle
<1>c. ASSUME NEW i \in 1..Len(recordings), ArmNamedPlayback(i)
      PROVE  HelperCallsNoShop'
  BY <1>c DEF ArmNamedPlayback, TargetingFrame, Idle
<1>d. ASSUME NEW i \in 1..Len(recordings), StartMenuPlayback(i)
      PROVE  HelperCallsNoShop'
  BY <1>d DEF StartMenuPlayback, ArmPlayback
<1>e. CASE CancelActivePlayback
  BY <1>e DEF CancelActivePlayback
<1>f. CASE UNCHANGED vars
  BY <1>f DEF vars, sessionVars, gameVars
<1> QED BY <1>a, <1>b, <1>c, <1>d, <1>e, <1>f DEF Next, Targeting

\* An armed shop session goes on, or has begun in a shop that is open.
ArmedShopKept ==
    \/ state' = "ArmedPlayback" /\ activeKind' = "Shop"
    \/ shopOpen' = TRUE

LEMMA ArmedShopStep ==
    ASSUME HelperCallsNoShop, state = "ArmedPlayback", activeKind = "Shop",
           \/ InputBufferHooks
           \/ GameHooks
           \/ \E abort \in BOOLEAN : Update(abort)
           \/ UNCHANGED vars
    PROVE  ArmedShopKept
<1> USE DEF ArmedShopKept, controlVars, sessionVars
<1>0. ~IsPlaybackActive
  BY DEF IsPlaybackActive
<1>a. ASSUME NEW kind, NEW blocked, NEW entering,
             kind # "Shop", BeginActiveSession(kind, blocked, entering)
      PROVE  ArmedShopKept
  BY <1>a DEF BeginActiveSession
<1>b. ASSUME NEW kind, NEW name, NEW saved, EndActiveSession(kind, name, saved)
      PROVE  ArmedShopKept
  BY <1>0, <1>b DEF EndActiveSession
<1>c. CASE InputBufferHooks
  <2>a. ASSUME NEW layer, LayerUpdateBegins(layer)
        PROVE  ArmedShopKept
    BY <2>a DEF LayerUpdateBegins, OnAuxCoreShopInputReady
  <2> QED BY <1>c, <2>a DEF InputBufferHooks, LayerRegistered, LayerReleased,
          LayerUpdateEnds, PadDataIsRead, RelayChecks, OnAcceptedAction
<1>d. ASSUME NEW save \in SaveInputs,
             \/ ShopCloses(save[1], save[2])
             \/ MainMenuSequenceEnds(save[1], save[2])
             \/ TutorialBladeBondFinalized(save[1], save[2])
      PROVE  ArmedShopKept
  BY <1>b, <1>d DEF ShopCloses, MainMenuSequenceEnds, TutorialBladeBondFinalized
<1>e. ASSUME NEW save \in SaveInputs, MainMenuNotCreated(save[1], save[2])
      PROVE  ArmedShopKept
  BY <1>b, <1>e DEF MainMenuNotCreated, HelperCallsNoShop
<1>f. ASSUME NEW initializing \in BOOLEAN, ShopOpens(initializing)
      PROVE  ArmedShopKept
  BY <1>f DEF ShopOpens, OnShopOpened, Armed
<1>g. ASSUME \/ MainMenuCreated
             \/ MenuInputEnabled
             \/ TutorialBladeBondInitialized
             \/ TutorialBladeBondInputReady
      PROVE  ArmedShopKept
  BY <1>a, <1>g DEF MainMenuCreated, OnMenuOpened, OnTravelOpened, MenuInputEnabled,
     TutorialBladeBondInitialized, TutorialBladeBondInputReady
<1>h. ASSUME \/ MenuInputDisabled
             \/ AuxCoreShopOpening
             \/ \E handle \in Handle : AuxCoreListInputEnabled(handle)
             \/ \E kind \in {"shown", "opening", "closed"}, object \in Object :
                   AuxRecipeEvent(kind, object)
             \/ \E object \in Object : AuxAmountInput(object)
             \/ \E menu \in Kind : MainMenuCreateBegin(menu)
             \/ TravelButtonOpen
             \/ TutorialBladeBondRequested
             \/ \E built \in BOOLEAN : DataStoreChanges(built)
             \/ SceneTransitionEnds
      PROVE  ArmedShopKept
  BY <1>0, <1>h DEF MenuInputDisabled, AuxCoreShopOpening, AuxCoreListInputEnabled,
     AuxRecipeEvent, AuxAmountInput, OnAcceptedAction, MainMenuCreateBegin,
     TravelButtonOpen, TutorialBladeBondRequested, DataStoreChanges,
     SceneTransitionEnds
<1>i. CASE SceneTransitionBegins
  <2>a. PreservedSession
    BY DEF PreservedSession, Armed
  <2> QED BY <1>i, <2>a DEF SceneTransitionBegins
<1>j.  CASE GameHooks
  BY <1>d, <1>e, <1>f, <1>g, <1>h, <1>i, <1>j DEF GameHooks
<1>k.  CASE \E abort \in BOOLEAN : Update(abort)
  BY <1>0, <1>k DEF Update
<1>l.  CASE UNCHANGED vars
  BY <1>l DEF vars
<1> QED BY <1>c, <1>j, <1>k, <1>l

\* Only a shop that opens, or the player's and Targeting's own commands,
\* consume an armed shop replay.
THEOREM ArmedShopReplaySurvivesHolds == Spec => ArmedShopReplaySurvives
<1>a. Init => HelperCallsNoShop
  BY DEF Init, HelperCallsNoShop
<1>b. HelperCallsNoShop /\ [Next]_vars => HelperCallsNoShop'
  BY HelperCallStep
<1>c. HelperCallsNoShop /\ [Next]_vars =>
         [    /\ state = "ArmedPlayback" /\ activeKind = "Shop"
              /\ state' # "ArmedPlayback" \/ activeKind' # "Shop"
              /\ ~shopOpen'
           => Window \/ Targeting]_vars
  BY ArmedShopStep DEF Next, ArmedShopKept
<1> QED BY <1>a, <1>b, <1>c, PTL DEF Spec, ArmedShopReplaySurvives

----
(* The draft.                                                              *)

\* Every non-empty set of natural numbers has a least element.
LEMMA LeastNatural ==
  ASSUME NEW T, T \subseteq Nat, T # {}
  PROVE  \E x \in T : \A y \in T : x <= y
  <1> DEFINE R == OpToRel(<, Nat)
  <1>a. IsWellFoundedOn(R, Nat)
    BY NatLessThanWellFounded
  <1>b. \A x, y \in Nat : <<y, x>> \in R <=> y < x
    BY DEF OpToRel
  <1> HIDE DEF R
  <1>c. PICK x \in T : \A y \in T : ~(<<y, x>> \in R)
    BY <1>a, WFMin
  <1>d. \A y \in T : ~(y < x)
    BY <1>b, <1>c, Zenon
  <1> QED
    BY <1>d

LEMMA DraftIsStored ==
    ASSUME DraftTypeOK, NEW name, NEW kind, recordings' = WithDraft(name, kind)
    PROVE  \E i \in 1..Len(recordings') : recordings'[i].actions = draftActions
<1> DEFINE entry == [name |-> name, kind |-> kind,
                     actions |-> draftActions, lastPlayback |-> <<>>]
           slots == SlotsNamed(name, kind)
<1>a. recordings \in Seq(Recording)
  BY DEF DraftTypeOK
<1>b. entry.actions = draftActions
  OBVIOUS
<1>c. CASE slots = {}
  <2>a. recordings' = Append(recordings, entry)
    BY <1>c DEF WithDraft
  <2> HIDE DEF entry
  <2>b. /\ Len(recordings') = Len(recordings) + 1
        /\ recordings'[Len(recordings) + 1] = entry
        /\ Len(recordings) \in Nat
    BY <1>a, <2>a, LenProperties, SMT
  <2>c. Len(recordings) + 1 \in 1..Len(recordings')
    BY <2>b
  <2> QED BY <1>b, <2>b, <2>c
<1>d. CASE slots # {}
  <2>a. slots \subseteq 1..Len(recordings)
    BY DEF SlotsNamed
  <2>b. FirstSlot(slots) \in slots
    <3>a. slots \subseteq Nat
      BY <1>a, <2>a, LenProperties, SMT
    <3> HIDE DEF slots
    <3>b. PICK i \in slots : \A j \in slots : i <= j
      BY <1>d, <3>a, LeastNatural
    <3> QED BY <3>b DEF FirstSlot
  <2>c. recordings' = [recordings EXCEPT ![FirstSlot(slots)] = entry]
    BY <1>d DEF WithDraft
  <2> HIDE DEF entry, slots
  <2>d. PICK f : f = FirstSlot(slots) /\ f \in 1..Len(recordings)
    BY <2>a, <2>b
  <2>e. /\ Len(recordings') = Len(recordings)
        /\ recordings'[f] = entry
    BY <1>a, <2>c, <2>d, SMT
  <2> QED BY <1>b, <2>d, <2>e
<1> QED BY <1>c, <1>d

\* The draft stays, is stored, or is started over.
DraftAccounted ==
    \/ draftActions' # <<>>
    \/ draftActions = <<>>
    \/ state' = "ArmedRecord"
    \/ \E i \in 1..Len(recordings') : recordings'[i].actions = draftActions

LEMMA SaveKeepsDraft ==
    ASSUME DraftTypeOK, NEW name, NEW kind, NEW saved, SaveDraft(name, kind, saved)
    PROVE  DraftAccounted
<1>a. CASE name # EmptyName /\ saved
  BY <1>a, DraftIsStored DEF SaveDraft, DraftAccounted
<1>b. CASE ~(name # EmptyName /\ saved)
  BY <1>b DEF SaveDraft, DraftAccounted
<1> QED BY <1>a, <1>b

LEMMA EndKeepsDraft ==
    ASSUME DraftTypeOK, NEW kind, NEW name, NEW saved, EndActiveSession(kind, name, saved)
    PROVE  DraftAccounted
  BY SaveKeepsDraft DEF EndActiveSession, DraftAccounted, controlVars, draftVars

LEMMA RecordKeepsDraft ==
    ASSUME DraftTypeOK, NEW physical, NEW completes, NEW auxCoreAmount,
           OnAcceptedAction(physical, completes, auxCoreAmount)
    PROVE  DraftAccounted
<1>a. ASSUME NEW action, draftActions' = Append(draftActions, action)
      PROVE  draftActions' # <<>>
  <2>a. draftActions \in Seq(AcceptedAction \cup {action})
    BY SeqMonotonic DEF DraftTypeOK
  <2>b. Len(draftActions') = Len(draftActions) + 1 /\ Len(draftActions) \in Nat
    BY <1>a, <2>a, LenProperties, SMT
  <2>c. Len(<<>>) = 0
    BY SMT
  <2> QED BY <2>b, <2>c, SMT
<1> QED BY <1>a DEF OnAcceptedAction, RecordPhysical, DraftAccounted, draftVars

LEMMA DraftStep ==
    ASSUME DraftTypeOK, [Next]_vars
    PROVE  DraftAccounted
<1> USE DEF controlVars
<1>0. ASSUME UNCHANGED draftActions
      PROVE  DraftAccounted
  BY <1>0 DEF DraftAccounted
<1>a. ASSUME NEW kind, NEW blocked, NEW entering,
             BeginActiveSession(kind, blocked, entering)
      PROVE  UNCHANGED draftActions
  BY <1>a DEF BeginActiveSession, draftVars
<1>b. CASE InputBufferHooks
  <2>a. ASSUME NEW layer, LayerUpdateBegins(layer)
        PROVE  UNCHANGED draftActions
    BY <1>a, <2>a DEF LayerUpdateBegins, OnAuxCoreShopInputReady, draftVars
  <2>b. ASSUME \/ \E out \in LayerOutcome : LayerUpdateEnds(out)
               \/ \E d \in Descriptor, enabled \in BOOLEAN : RelayChecks(d, enabled)
        PROVE  DraftAccounted
    BY <2>b, RecordKeepsDraft DEF LayerUpdateEnds, RelayChecks
  <2>c. ASSUME \/ \E pair \in RegisterPairs : LayerRegistered(pair[1], pair[2])
               \/ \E pair \in RegisterPairs : LayerReleased(pair[2])
               \/ \E words \in PadWords, enabled \in EnabledMasks :
                     PadDataIsRead(words, enabled)
        PROVE  UNCHANGED draftActions
    BY <2>c DEF LayerRegistered, LayerReleased, PadDataIsRead, draftVars
  <2> QED BY <1>0, <1>b, <2>a, <2>b, <2>c DEF InputBufferHooks
<1>c. ASSUME NEW save \in SaveInputs,
             \/ ShopCloses(save[1], save[2])
             \/ MainMenuNotCreated(save[1], save[2])
             \/ MainMenuSequenceEnds(save[1], save[2])
             \/ TutorialBladeBondFinalized(save[1], save[2])
      PROVE  DraftAccounted
  BY <1>0, <1>c, EndKeepsDraft DEF ShopCloses, MainMenuNotCreated,
     MainMenuSequenceEnds, TutorialBladeBondFinalized, draftVars
<1>d. ASSUME \/ \E initializing \in BOOLEAN : ShopOpens(initializing)
             \/ MainMenuCreated
             \/ MenuInputEnabled
             \/ TutorialBladeBondInitialized
             \/ TutorialBladeBondInputReady
      PROVE  UNCHANGED draftActions
  BY <1>a, <1>d DEF ShopOpens, OnShopOpened, MainMenuCreated, OnMenuOpened,
     OnTravelOpened, MenuInputEnabled, TutorialBladeBondInitialized,
     TutorialBladeBondInputReady, draftVars
<1>e. ASSUME \/ MenuInputDisabled
             \/ \E handle \in Handle : AuxCoreListInputEnabled(handle)
             \/ \E kind \in {"shown", "opening", "closed"}, object \in Object :
                   AuxRecipeEvent(kind, object)
             \/ \E menu \in Kind : MainMenuCreateBegin(menu)
             \/ TravelButtonOpen
             \/ TutorialBladeBondRequested
             \/ \E built \in BOOLEAN : DataStoreChanges(built)
             \/ SceneTransitionBegins
             \/ SceneTransitionEnds
      PROVE  UNCHANGED draftActions
  BY <1>e DEF MenuInputDisabled, AuxCoreListInputEnabled, AuxRecipeEvent,
     MainMenuCreateBegin, TravelButtonOpen, TutorialBladeBondRequested,
     DataStoreChanges, SceneTransitionBegins, SceneTransitionEnds, draftVars
<1>f. CASE AuxCoreShopOpening
  BY <1>f DEF AuxCoreShopOpening, DraftAccounted, draftVars
<1>g. ASSUME NEW object \in Object, AuxAmountInput(object)
      PROVE  DraftAccounted
  BY <1>0, <1>g, RecordKeepsDraft DEF AuxAmountInput, draftVars
<1>h. CASE GameHooks
  BY <1>0, <1>c, <1>d, <1>e, <1>f, <1>g, <1>h DEF GameHooks
<1>i. ASSUME NEW kind \in Kind, Record(kind)
      PROVE  DraftAccounted
  BY <1>i DEF Record, DraftAccounted, StopPlayback
<1>j.  ASSUME NEW name, NEW kind, NEW saved, Save(name, kind, saved)
       PROVE  DraftAccounted
  BY <1>j, SaveKeepsDraft DEF Save
<1>k.  ASSUME \/ StopRecording
              \/ \E i \in 1..Len(recordings) : Start(i)
              \/ Stop
              \/ \E file \in RecordingFiles : Reload(file)
              \/ \E i \in 1..Len(recordings) : Delete(i)
              \/ ToggleSandbox
              \/ Targeting
       PROVE  UNCHANGED draftActions
  BY <1>k DEF StopRecording, Start, Stop, Reload, Delete, ToggleSandbox, Targeting,
     ArmNamedPlayback, StartMenuPlayback, CancelActivePlayback, ArmPlayback, draftVars
<1>l.  ASSUME \/ \E abort \in BOOLEAN : Update(abort)
              \/ UNCHANGED vars
       PROVE  UNCHANGED draftActions
  BY <1>l DEF Update, vars, draftVars
<1> QED BY <1>0, <1>b, <1>h, <1>i, <1>j, <1>k, <1>l DEF Next, Window

\* A recorded draft is never lost: it goes only into a saved recording, or when
\* the recording is started over.
THEOREM DraftIsKeptHolds == Spec => DraftIsKept
<1>a. IInv => DraftTypeOK
  BY TypeOKParts DEF IInv, ControlTypeOK
<1>b. DraftTypeOK /\ [Next]_vars =>
         [draftActions # <<>> /\ draftActions' = <<>> =>
              \/ state' = "ArmedRecord"
              \/ \E i \in 1..Len(recordings') : recordings'[i].actions = draftActions]_vars
  BY DraftStep DEF DraftAccounted
<1> QED BY <1>a, <1>b, Invariance, PTL DEF Spec, DraftIsKept

----
(* Which call accepts an action of a replay.                               *)

\* The three ways in which the game accepts the pending action.
LayerDelivers ==
    \E out \in LayerOutcome :
        LayerUpdateEnds(out) /\ LayerServesPlayback(updatingInputLayer, out)

RelayDelivers ==
    \E d \in Descriptor, enabled \in BOOLEAN :
        RelayChecks(d, enabled) /\ RelayServesPlayback(d, enabled)

AmountWidgetDelivers ==
    \E object \in Object : AuxAmountInput(object) /\ AuxCoreAmountServesPlayback

LEMMA NothingDelivered ==
    ASSUME SessionTypeOK, UNCHANGED delivered \/ delivered' = <<>>
    PROVE  ~Delivers
<1>a. Len(delivered) \in Nat
  BY LenProperties DEF SessionTypeOK
<1>b. Len(<<>>) = 0
  BY SMT
<1> QED BY <1>a, <1>b, SMT DEF Delivers

LEMMA DeliveryStep ==
    ASSUME SessionTypeOK, [Next]_vars, Delivers
    PROVE  LayerDelivers \/ RelayDelivers \/ AmountWidgetDelivers
<1> USE DEF controlVars, sessionVars
<1>a. ASSUME NEW kind, NEW blocked, NEW entering,
             BeginActiveSession(kind, blocked, entering)
      PROVE  UNCHANGED delivered
  BY <1>a DEF BeginActiveSession
<1>b. ASSUME NEW kind, NEW name, NEW saved, EndActiveSession(kind, name, saved)
      PROVE  UNCHANGED delivered \/ delivered' = <<>>
  BY <1>b DEF EndActiveSession, StopPlayback
<1>c. CASE InputBufferHooks
  <2>a. ASSUME NEW layer, LayerUpdateBegins(layer)
        PROVE  UNCHANGED delivered
    BY <1>a, <2>a DEF LayerUpdateBegins, OnAuxCoreShopInputReady
  <2>b. ASSUME NEW out \in LayerOutcome, LayerUpdateEnds(out)
        PROVE  LayerDelivers \/ UNCHANGED delivered
    BY <2>b DEF LayerDelivers, LayerUpdateEnds, OnAcceptedAction
  <2>c. ASSUME NEW d \in Descriptor, NEW enabled \in BOOLEAN, RelayChecks(d, enabled)
        PROVE  RelayDelivers \/ UNCHANGED delivered
    BY <2>c DEF RelayDelivers, RelayChecks, OnAcceptedAction
  <2>d. ASSUME \/ \E pair \in RegisterPairs : LayerRegistered(pair[1], pair[2])
               \/ \E pair \in RegisterPairs : LayerReleased(pair[2])
               \/ \E words \in PadWords, enabled \in EnabledMasks :
                     PadDataIsRead(words, enabled)
        PROVE  UNCHANGED delivered
    BY <2>d DEF LayerRegistered, LayerReleased, PadDataIsRead
  <2> QED BY <1>c, <2>a, <2>b, <2>c, <2>d, NothingDelivered DEF InputBufferHooks
<1>d. CASE GameHooks
  <2>a. ASSUME NEW save \in SaveInputs,
               \/ ShopCloses(save[1], save[2])
               \/ MainMenuNotCreated(save[1], save[2])
               \/ MainMenuSequenceEnds(save[1], save[2])
               \/ TutorialBladeBondFinalized(save[1], save[2])
        PROVE  UNCHANGED delivered \/ delivered' = <<>>
    BY <1>b, <2>a DEF ShopCloses, MainMenuNotCreated, MainMenuSequenceEnds,
       TutorialBladeBondFinalized, StopPlayback
  <2>b. ASSUME \/ \E initializing \in BOOLEAN : ShopOpens(initializing)
               \/ MainMenuCreated
               \/ MenuInputEnabled
               \/ TutorialBladeBondInitialized
               \/ TutorialBladeBondInputReady
        PROVE  UNCHANGED delivered
    BY <1>a, <2>b DEF ShopOpens, OnShopOpened, MainMenuCreated, OnMenuOpened,
       OnTravelOpened, MenuInputEnabled, TutorialBladeBondInitialized,
       TutorialBladeBondInputReady
  <2>c. ASSUME \/ MenuInputDisabled
               \/ AuxCoreShopOpening
               \/ \E handle \in Handle : AuxCoreListInputEnabled(handle)
               \/ \E kind \in {"shown", "opening", "closed"}, object \in Object :
                     AuxRecipeEvent(kind, object)
               \/ \E menu \in Kind : MainMenuCreateBegin(menu)
               \/ TravelButtonOpen
               \/ TutorialBladeBondRequested
               \/ \E built \in BOOLEAN : DataStoreChanges(built)
               \/ SceneTransitionBegins
               \/ SceneTransitionEnds
        PROVE  UNCHANGED delivered \/ delivered' = <<>>
    BY <2>c DEF MenuInputDisabled, AuxCoreShopOpening, AuxCoreListInputEnabled,
       AuxRecipeEvent, MainMenuCreateBegin, TravelButtonOpen,
       TutorialBladeBondRequested, DataStoreChanges, SceneTransitionBegins,
       SceneTransitionEnds, StopPlayback
  <2>d. ASSUME NEW object \in Object, AuxAmountInput(object)
        PROVE  AmountWidgetDelivers \/ UNCHANGED delivered
    BY <2>d DEF AmountWidgetDelivers, AuxAmountInput, OnAcceptedAction
  <2> QED BY <1>d, <2>a, <2>b, <2>c, <2>d, NothingDelivered DEF GameHooks
<1>e. CASE Window \/ Targeting
  <2>a. UNCHANGED delivered \/ delivered' = <<>>
    BY <1>e DEF Window, Targeting, Record, StopRecording, Save, Start, Stop, Reload,
       Delete, ToggleSandbox, ArmNamedPlayback, StartMenuPlayback,
       CancelActivePlayback, ArmPlayback, StopPlayback
  <2> QED BY <2>a, NothingDelivered
<1>f. CASE \E abort \in BOOLEAN : Update(abort)
  <2>a. UNCHANGED delivered \/ delivered' = <<>>
    BY <1>f DEF Update, FrameWithReplay, StopPlayback
  <2> QED BY <2>a, NothingDelivered
<1>g. CASE UNCHANGED vars
  BY <1>g, NothingDelivered DEF vars
<1> QED BY <1>c, <1>d, <1>e, <1>f, <1>g DEF Next

\* In a shop or travel menu only an update of the layer an action was recorded
\* on accepts it, the amount widget of the Aux Core excepted.
THEOREM LayeredActionsReachTheirLayerHolds == Spec => LayeredActionsReachTheirLayer
<1>a. IInv => SessionTypeOK
  BY TypeOKParts DEF IInv, ControlTypeOK
<1>b. ASSUME SessionTypeOK, [Next]_vars, Delivers, playbackMode # "StandardMenu",
             IsUiPadAction(playbackAction), ~auxCoreAmountMenuActive'
      PROVE  InputLayerHandle(updatingInputLayer) = playbackAction.layer
  <2>a. CASE LayerDelivers
    BY <2>a DEF LayerDelivers, LayerServesPlayback, PlaybackLayerMatches
  <2>b. ~RelayDelivers
    BY <1>b DEF RelayDelivers, RelayServesPlayback, RelayServesUiAction,
       UiActionUsesRelay, RelayServesEncodedAction, NativeCheckServesPlayback,
       IsUiPadAction
  <2>c. ~AmountWidgetDelivers
    BY <1>b DEF AmountWidgetDelivers, AuxAmountInput, OpenAuxCoreAmountMenu
  <2> QED BY <1>b, <2>a, <2>b, <2>c, DeliveryStep
<1>c. SessionTypeOK /\ [Next]_vars =>
         [    /\ Delivers
              /\ playbackMode # "StandardMenu"
              /\ IsUiPadAction(playbackAction)
              /\ ~auxCoreAmountMenuActive'
           => InputLayerHandle(updatingInputLayer) = playbackAction.layer]_vars
  BY <1>b
<1> QED BY <1>a, <1>c, Invariance, PTL DEF Spec, LayeredActionsReachTheirLayer

\* Once the amount widget has accepted an input, only layers accept the rest.
THEOREM AuxSequenceStaysOnLayersHolds == Spec => AuxSequenceStaysOnLayers
<1>a. IInv => SessionTypeOK /\ layerStack \in Seq(Layer)
  BY TypeOKParts DEF IInv, ControlTypeOK, OtherInputTypeOK
<1>b. ASSUME SessionTypeOK, layerStack \in Seq(Layer), [Next]_vars, Delivers,
             auxCoreNativeAcceptanceActive, IsUiPadAction(playbackAction),
             playbackAction.input.mask \cap LrButtonMask = {}
      PROVE  Len(layerStack') < Len(layerStack)
  <2>a. CASE LayerDelivers
    <3>a. layerStack # <<>> /\ layerStack' = SubSeq(layerStack, 1, Len(layerStack) - 1)
      BY <2>a DEF LayerDelivers, LayerUpdateEnds, UIInputLayerUpdateEnd,
         LeaveInputLayer, RestoreUpdatingLayer, Front
    <3>b. Len(layerStack) \in Nat /\ Len(layerStack) # 0
      BY <1>b, <3>a, LenProperties, EmptySeq
    <3>c. PICK n \in Nat : n = Len(layerStack) - 1
      BY <3>b, SMT
    <3>d. Len(layerStack') = n
      BY <1>b, <3>a, <3>b, <3>c, PrefixLength, SMT
    <3> QED BY <3>b, <3>c, <3>d
  <2>b. ~RelayDelivers
    BY <1>b DEF RelayDelivers, RelayServesPlayback, RelayServesUiAction,
       UiActionUsesRelay, IsAuxCoreNativePlaybackAction, RelayServesEncodedAction,
       NativeCheckServesPlayback, IsUiPadAction
  <2>c. ~AmountWidgetDelivers
    BY <1>b DEF AmountWidgetDelivers, AuxCoreAmountServesPlayback
  <2> QED BY <1>b, <2>a, <2>b, <2>c, DeliveryStep
<1>c. SessionTypeOK /\ layerStack \in Seq(Layer) /\ [Next]_vars =>
         [    /\ Delivers
              /\ auxCoreNativeAcceptanceActive
              /\ IsUiPadAction(playbackAction)
              /\ playbackAction.input.mask \cap LrButtonMask = {}
           => Len(layerStack') < Len(layerStack)]_vars
  BY <1>b
<1> QED BY <1>a, <1>c, Invariance, PTL DEF Spec, AuxSequenceStaysOnLayers

----
(* The frames between two presses of the same button.                      *)

\* Pressing the next action now would look like holding the last one.
NextLooksHeld ==
    \/ activeKind = "Travel"
    \/ Last(delivered).input = NextAction(playbackActions, playbackIndex).input

\* A session that waits to begin has delivered nothing, and in the frame of a
\* delivery the neutral frames that a repeated input needs are still to come.
ReleaseInv ==
    /\ state = "ArmedPlayback" => delivered = <<>>
    /\    /\ state = "Playing"
          /\ delivered # <<>>
          /\ sinceDelivery = 0
          /\ playbackIndex < Len(playbackActions)
          /\ NextLooksHeld
       => playbackNeutralFrames # 0

\* What a step that fills the slot must find.
FillIsReleased ==
       /\ playbackAction = NoAction /\ playbackAction' # NoAction
       /\ delivered # <<>> /\ delivered' = delivered
       /\ activeKind = "Travel" \/ Last(delivered).input = playbackAction'.input
    => sinceDelivery >= 1

ReleaseStep == ReleaseInv' /\ FillIsReleased

\* The replay is left alone, slot and all.
LEMMA ReleaseUnchanged ==
    ASSUME ReleaseInv,
           UNCHANGED <<activeKind, playbackActions, playbackIndex, delivered,
                       sinceDelivery, playbackNeutralFrames, playbackAction>>,
           UNCHANGED state \/ state' \notin {"ArmedPlayback", "Playing"}
    PROVE  ReleaseStep
  BY DEF ReleaseStep, ReleaseInv, FillIsReleased, NextLooksHeld, NextAction

\* The replay is over, or starts again.
LEMMA ReleaseReset ==
    ASSUME ReleaseInv,
           \/ delivered' = <<>>
           \/ state' \notin {"ArmedPlayback", "Playing"} /\ playbackAction' = NoAction
    PROVE  ReleaseStep
  BY DEF ReleaseStep, ReleaseInv, FillIsReleased

LEMMA ReleaseBegin ==
    ASSUME ReleaseInv, NEW kind, NEW blocked, NEW entering,
           BeginActiveSession(kind, blocked, entering)
    PROVE  ReleaseStep
<1>a. CASE activeKind = kind /\ state = "ArmedPlayback"
  <2>a. delivered' = <<>>
    BY <1>a DEF BeginActiveSession, ReleaseInv
  <2> QED BY <2>a, ReleaseReset
<1>b. CASE ~(activeKind = kind /\ state = "ArmedPlayback")
  BY <1>b, ReleaseUnchanged DEF BeginActiveSession, slotVars
<1> QED BY <1>a, <1>b

LEMMA ReleaseEnd ==
    ASSUME ReleaseInv, NEW kind, NEW name, NEW saved, EndActiveSession(kind, name, saved)
    PROVE  ReleaseStep
<1>a. CASE UNCHANGED controlVars
  BY <1>a, ReleaseUnchanged DEF controlVars, sessionVars, slotVars
<1>b. CASE StopPlayback("Complete")
  BY <1>b, ReleaseReset DEF StopPlayback
<1>c. CASE activeKind = kind /\ state = "Recording"
  BY <1>c, ReleaseUnchanged DEF EndActiveSession, SaveDraft, slotVars
<1> QED BY <1>a, <1>b, <1>c DEF EndActiveSession

LEMMA ReleaseAccepted ==
    ASSUME SessionTypeOK, SlotIsNextAction, ReleaseInv,
           NEW physical, NEW completes, NEW auxCoreAmount,
           OnAcceptedAction(physical, completes, auxCoreAmount),
           completes => CompletePlaybackAction /\ playbackAction # NoAction,
           ~completes => UNCHANGED playbackAction
    PROVE  ReleaseStep
<1>a. CASE ~completes
  BY <1>a, ReleaseUnchanged DEF OnAcceptedAction
<1>b. CASE completes
  <2>a. CountPlayback(auxCoreAmount) /\ UNCHANGED <<state, activeKind, playbackActions>>
    BY <1>b DEF OnAcceptedAction
  <2>b. /\ state = "Playing"
        /\ playbackIndex < Len(playbackActions)
        /\ playbackAction = NextAction(playbackActions, playbackIndex)
    BY <1>b DEF SlotIsNextAction
  <2>c. IsExpected(playbackAction.input)
    BY <2>b DEF IsExpected
  <2>d. delivered' # <<>> /\ Last(delivered') = playbackAction
    <3>a. playbackAction \in AcceptedAction
      BY <2>b, ElementOfSeq, SMT DEF SessionTypeOK, NextAction
    <3>b. delivered' = Append(delivered, playbackAction) /\ delivered \in Seq(AcceptedAction)
      BY <2>a DEF CountPlayback, SessionTypeOK
    <3>c. /\ Len(delivered') = Len(delivered) + 1 /\ Len(delivered) \in Nat
          /\ delivered'[Len(delivered) + 1] = playbackAction
      BY <3>a, <3>b, LenProperties, SMT
    <3>d. Len(<<>>) = 0
      BY SMT
    <3> QED BY <3>c, <3>d, SMT DEF Last
  <2>e. playbackIndex' = playbackIndex + 1 /\ state' = "Playing"
    BY <2>a, <2>b, <2>c DEF CountPlayback
  <2>f. ASSUME playbackIndex' < Len(playbackActions'), NextLooksHeld'
        PROVE  playbackNeutralFrames' # 0
    <3>a. \/ activeKind = "Travel"
          \/ playbackAction.input = NextAction(playbackActions, playbackIndex + 1).input
      BY <2>a, <2>d, <2>e, <2>f DEF NextLooksHeld
    <3>b. playbackIndex + 1 < Len(playbackActions)
      BY <2>a, <2>e, <2>f
    <3>c. activeKind # "Travel" =>
             /\ playbackIndex + 1 < Len(playbackActions)
             /\ NextAction(playbackActions, playbackIndex + 1).input = playbackAction.input
      BY <3>a, <3>b
    <3> QED BY <2>a, <2>c, <3>c DEF CountPlayback, NeutralFramesAfter
  <2>g. ReleaseInv'
    BY <2>e, <2>f DEF ReleaseInv
  <2>h. FillIsReleased
    BY <1>b DEF FillIsReleased
  <2> QED BY <2>g, <2>h DEF ReleaseStep
<1> QED BY <1>a, <1>b

\* The frame: the only step that refills the slot of a running replay.
LEMMA ReleaseUpdate ==
    ASSUME SessionTypeOK, ReleaseInv, NEW abort, Update(abort)
    PROVE  ReleaseStep
<1>a. CASE IsPlaybackActive /\ abort
  BY <1>a, ReleaseReset DEF Update, StopPlayback
<1>b. CASE ~IsPlaybackActive
  <2>a. /\ UNCHANGED <<state, activeKind, playbackActions, playbackIndex, delivered,
                       playbackNeutralFrames, playbackAction>>
        /\ state # "Playing"
    BY <1>b DEF Update, IsPlaybackActive, slotVars
  <2> QED BY <2>a DEF ReleaseStep, ReleaseInv, FillIsReleased
<1>c. CASE IsPlaybackActive /\ ~abort
  <2>a. /\ FrameWithReplay
        /\ sinceDelivery' = IF sinceDelivery < 2 THEN sinceDelivery + 1 ELSE 2
        /\ UNCHANGED activeKind
    BY <1>c DEF Update
  <2>b. sinceDelivery' # 0
    BY <2>a DEF SessionTypeOK
  <2>c. state' # "ArmedPlayback"
    BY <1>c, <2>a DEF FrameWithReplay, QueueNextPlaybackAction, StateAfterQueueing,
       IsPlaybackActive
  <2>d. ReleaseInv'
    BY <2>b, <2>c DEF ReleaseInv
  <2>e. FillIsReleased
    <3>a. CASE UNCHANGED playbackAction
      BY <3>a DEF FillIsReleased
    <3>b. CASE playbackAction' # playbackAction
      <4>a. ~(playbackNeutralFrames > 0) /\ QueueNextPlaybackAction
        BY <2>a, <3>b DEF FrameWithReplay, slotVars
      <4>b. /\ state = "Playing"
            /\ playbackIndex < Len(playbackActions)
            /\ playbackAction' = NextAction(playbackActions, playbackIndex)
        BY <3>b, <4>a DEF QueueNextPlaybackAction, SetPlaybackAction, slotVars
      <4>c. playbackNeutralFrames = 0
        BY <4>a DEF SessionTypeOK
      <4>d. ASSUME delivered # <<>>,
                   activeKind = "Travel" \/ Last(delivered).input = playbackAction'.input
            PROVE  sinceDelivery >= 1
        <5>a. NextLooksHeld
          BY <4>b, <4>d DEF NextLooksHeld
        <5>b. sinceDelivery # 0
          BY <4>b, <4>c, <4>d, <5>a DEF ReleaseInv
        <5> QED BY <5>b DEF SessionTypeOK
      <4> QED BY <4>d DEF FillIsReleased
    <3> QED BY <3>a, <3>b
  <2> QED BY <2>d, <2>e DEF ReleaseStep
<1> QED BY <1>a, <1>b, <1>c

LEMMA ReleaseNext ==
    ASSUME SessionTypeOK, SlotIsNextAction, ReleaseInv, [Next]_vars
    PROVE  ReleaseStep
<1>0. ASSUME UNCHANGED <<sessionVars, slotVars>>
      PROVE  ReleaseStep
  BY <1>0, ReleaseUnchanged DEF sessionVars, slotVars
<1>a. CASE InputBufferHooks
  <2>a. ASSUME NEW layer, LayerUpdateBegins(layer)
        PROVE  ReleaseStep
    BY <1>0, <2>a, ReleaseBegin DEF LayerUpdateBegins, OnAuxCoreShopInputReady
  <2>b. ASSUME NEW out \in LayerOutcome, LayerUpdateEnds(out)
        PROVE  ReleaseStep
    <3>a. LayerServesPlayback(updatingInputLayer, out) =>
             CompletePlaybackAction /\ playbackAction # NoAction
      BY <2>b DEF LayerUpdateEnds, UIInputLayerUpdateEnd, LeaveInputLayer,
         LayerServesPlayback, IsUiPadAction, NoAction, NoInput
    <3>b. ~LayerServesPlayback(updatingInputLayer, out) => UNCHANGED playbackAction
      BY <2>b DEF LayerUpdateEnds, UIInputLayerUpdateEnd, LeaveInputLayer, slotVars
    <3> QED BY <2>b, <3>a, <3>b, ReleaseAccepted DEF LayerUpdateEnds
  <2>c. ASSUME NEW d \in Descriptor, NEW enabled \in BOOLEAN, RelayChecks(d, enabled)
        PROVE  ReleaseStep
    <3>a. RelayServesPlayback(d, enabled) =>
             CompletePlaybackAction /\ playbackAction # NoAction
      BY <2>c DEF RelayChecks, PadRelayCheckAction, RelayServesPlayback,
         RelayServesUiAction, RelayServesEncodedAction, NativeCheckServesPlayback,
         UiActionUsesRelay, IsUiPadAction, NoAction, NoInput
    <3>b. ~RelayServesPlayback(d, enabled) => UNCHANGED playbackAction
      BY <2>c DEF RelayChecks, PadRelayCheckAction, slotVars
    <3> QED BY <2>c, <3>a, <3>b, ReleaseAccepted DEF RelayChecks
  <2>d. ASSUME \/ \E pair \in RegisterPairs : LayerRegistered(pair[1], pair[2])
               \/ \E pair \in RegisterPairs : LayerReleased(pair[2])
               \/ \E words \in PadWords, enabled \in EnabledMasks :
                     PadDataIsRead(words, enabled)
        PROVE  UNCHANGED <<sessionVars, slotVars>>
    BY <2>d DEF LayerRegistered, LayerReleased, PadDataIsRead, UIUtilGetPadData,
       controlVars
  <2> QED BY <1>0, <1>a, <2>a, <2>b, <2>c, <2>d DEF InputBufferHooks
<1>b. CASE GameHooks
  <2>0. ASSUME UNCHANGED controlVars
        PROVE  ReleaseStep
    BY <1>0, <2>0 DEF controlVars
  <2>a. ASSUME NEW nextState, StopPlayback(nextState)
        PROVE  ReleaseStep
    BY <2>a, ReleaseReset DEF StopPlayback
  <2>b. ASSUME NEW save \in SaveInputs,
               \/ ShopCloses(save[1], save[2])
               \/ MainMenuNotCreated(save[1], save[2])
               \/ MainMenuSequenceEnds(save[1], save[2])
               \/ TutorialBladeBondFinalized(save[1], save[2])
        PROVE  ReleaseStep
    BY <2>0, <2>a, <2>b, ReleaseEnd DEF ShopCloses, MainMenuNotCreated,
       MainMenuSequenceEnds, TutorialBladeBondFinalized
  <2>c. ASSUME \/ \E initializing \in BOOLEAN : ShopOpens(initializing)
               \/ MainMenuCreated
               \/ MenuInputEnabled
               \/ TutorialBladeBondInitialized
               \/ TutorialBladeBondInputReady
        PROVE  ReleaseStep
    BY <2>0, <2>c, ReleaseBegin DEF ShopOpens, OnShopOpened, MainMenuCreated,
       OnMenuOpened, OnTravelOpened, MenuInputEnabled, TutorialBladeBondInitialized,
       TutorialBladeBondInputReady
  <2>d. ASSUME \/ MenuInputDisabled
               \/ \E handle \in Handle : AuxCoreListInputEnabled(handle)
               \/ \E kind \in {"shown", "opening", "closed"}, object \in Object :
                     AuxRecipeEvent(kind, object)
               \/ \E menu \in Kind : MainMenuCreateBegin(menu)
               \/ TravelButtonOpen
               \/ TutorialBladeBondRequested
               \/ \E built \in BOOLEAN : DataStoreChanges(built)
               \/ SceneTransitionEnds
        PROVE  UNCHANGED controlVars
    BY <2>d DEF MenuInputDisabled, AuxCoreListInputEnabled, AuxRecipeEvent,
       MainMenuCreateBegin, TravelButtonOpen, TutorialBladeBondRequested,
       DataStoreChanges, SceneTransitionEnds
  <2>e. CASE AuxCoreShopOpening
    <3>a. CASE activeKind = "Shop" /\ IsPlaybackActive
      BY <2>e, <3>a, ReleaseReset DEF AuxCoreShopOpening
    <3>b. CASE activeKind = "Shop" /\ state = "Recording"
      BY <2>e, <3>b, ReleaseUnchanged DEF AuxCoreShopOpening, IsPlaybackActive, slotVars
    <3> QED BY <2>0, <2>e, <3>a, <3>b DEF AuxCoreShopOpening
  <2>f. ASSUME NEW object \in Object, AuxAmountInput(object)
        PROVE  ReleaseStep
    <3>a. CASE AuxCoreAmountInputPasses
      <4>a. AuxCoreAmountServesPlayback => CompletePlaybackAction /\ playbackAction # NoAction
        BY <2>f, <3>a DEF AuxAmountInput, AcceptAuxCoreAmountPlayback,
           AuxCoreAmountServesPlayback, IsUiPadAction, NoAction, NoInput
      <4>b. ~AuxCoreAmountServesPlayback => UNCHANGED playbackAction
        BY <2>f, <3>a DEF AuxAmountInput, AcceptAuxCoreAmountPlayback, slotVars
      <4> QED BY <2>f, <3>a, <4>a, <4>b, ReleaseAccepted DEF AuxAmountInput
    <3>b. CASE ~AuxCoreAmountInputPasses
      BY <1>0, <2>f, <3>b DEF AuxAmountInput
    <3> QED BY <3>a, <3>b
  <2>g. CASE SceneTransitionBegins
    <3>a. CASE (state = "ArmedPlayback" \/ IsPlaybackActive) /\ ~PreservedSession
      BY <2>a, <2>g, <3>a DEF SceneTransitionBegins
    <3>b. CASE ~((state = "ArmedPlayback" \/ IsPlaybackActive) /\ ~PreservedSession)
      BY <2>g, <3>b, ReleaseUnchanged
         DEF SceneTransitionBegins, StateAfterRecording, slotVars
    <3> QED BY <3>a, <3>b
  <2> QED BY <1>b, <2>0, <2>b, <2>c, <2>d, <2>e, <2>f, <2>g DEF GameHooks
<1>c. CASE Window
  <2>a. ASSUME NEW kind, Record(kind)
        PROVE  ReleaseStep
    <3>a. CASE IsPlaybackActive
      BY <2>a, <3>a, ReleaseReset DEF Record, StopPlayback
    <3>b. CASE ~IsPlaybackActive
      BY <2>a, <3>b DEF Record, slotVars, ReleaseStep, ReleaseInv, FillIsReleased
    <3> QED BY <3>a, <3>b
  <2>b. ASSUME \/ StopRecording
               \/ \E name \in Name, kind \in Kind, saved \in BOOLEAN :
                     Save(name, kind, saved)
        PROVE  ReleaseStep
    BY <2>b, ReleaseUnchanged DEF StopRecording, StateAfterRecording, Save, SaveDraft,
       slotVars
  <2>c. ASSUME (\E i \in 1..Len(recordings) : Start(i)) \/ Stop
        PROVE  ReleaseStep
    BY <2>c, ReleaseReset DEF Start, Stop, ArmPlayback, StopPlayback
  <2>d. ASSUME \/ \E file \in RecordingFiles : Reload(file)
               \/ \E i \in 1..Len(recordings) : Delete(i)
               \/ ToggleSandbox
        PROVE  ReleaseStep
    BY <1>0, <2>d DEF Reload, Delete, ToggleSandbox, controlVars
  <2> QED BY <1>c, <2>a, <2>b, <2>c, <2>d DEF Window
<1>d. CASE Targeting
  BY <1>d, ReleaseReset DEF Targeting, ArmNamedPlayback, StartMenuPlayback,
     CancelActivePlayback, ArmPlayback, StopPlayback
<1>e. ASSUME NEW abort \in BOOLEAN, Update(abort)
      PROVE  ReleaseStep
  BY <1>e, ReleaseUpdate
<1>f. CASE UNCHANGED vars
  BY <1>0, <1>f DEF vars, ibVars
<1> QED BY <1>a, <1>b, <1>c, <1>d, <1>e, <1>f DEF Next

\* An input the game has just taken is released for at least one full frame
\* before the same input is pressed again.
THEOREM RepeatedInputIsReleasedHolds == Spec => RepeatedInputIsReleased
<1>a. IInv => SessionTypeOK /\ SlotIsNextAction
  BY TypeOKParts DEF IInv, ControlTypeOK, ReplayInv
<1>b. Init => ReleaseInv
  BY DEF Init, ReleaseInv
<1>c. IInv /\ ReleaseInv /\ [Next]_vars => ReleaseInv'
  BY <1>a, ReleaseNext DEF ReleaseStep
<1>d. IInv /\ ReleaseInv /\ [Next]_vars =>
         [    /\ playbackAction = NoAction /\ playbackAction' # NoAction
              /\ delivered # <<>> /\ delivered' = delivered
              /\ activeKind = "Travel" \/ Last(delivered).input = playbackAction'.input
           => sinceDelivery >= 1]_vars
  BY <1>a, ReleaseNext DEF ReleaseStep, FillIsReleased
<1> QED BY <1>b, <1>c, <1>d, Invariance, PTL DEF Spec, RepeatedInputIsReleased

====
