---- MODULE InputBufferClients_proofs ----
(***************************************************************************)
(* Proofs about InputBuffer and its clients: layerRegistrations follows    *)
(* the UIInputManager, and what a layer update completes was injected into *)
(* a word that this very update has read.                                  *)
(***************************************************************************)
EXTENDS InputBufferClients, SequenceTheorems, WellFoundedInduction, TLAPS

----
(* The registrations.                                                      *)

\* Every non-empty set of natural numbers has a least element.
LEMMA LeastNatural ==
  ASSUME NEW T, T \subseteq Nat, T # {}
  PROVE  \E x \in T : \A y \in T : x <= y
  <1> DEFINE R == OpToRel(<, Nat)
  <1>a. IsWellFoundedOn(R, Nat)
    BY NatLessThanWellFounded
  <1>b. \A x, y \in Nat : <<y, x>> \in R <=> y < x
    BY DEF OpToRel
  <1> HIDE DEF R
  <1>c. PICK x \in T : \A y \in T : ~(<<y, x>> \in R)
    BY <1>a, WFMin
  <1>d. \A y \in T : ~(y < x)
    BY <1>b, <1>c, Zenon
  <1> QED
    BY <1>d

LEMMA FirstSlotIn ==
    ASSUME NEW slots, slots \subseteq 1..MaxRegistrations, slots # {}
    PROVE  FirstSlot(slots) \in slots
<1>a. slots \subseteq Nat
  BY BoundsAssumption
<1>b. PICK i \in slots : \A j \in slots : i <= j
  BY <1>a, LeastNatural
<1> QED BY <1>b DEF FirstSlot

\* The table and the manager agree: an entry in use is a live layer's, under its
\* handle; a live layer has an entry, and only one; no handle is given twice.
RegistrationsInv ==
    /\ layerRegistrations \in [1..MaxRegistrations -> Registration]
    /\ live \in [Layer -> Handle \cup {0}]
    /\ \A i \in 1..MaxRegistrations :
          layerRegistrations[i] # FreeRegistration =>
              /\ layerRegistrations[i].layer \in Layer
              /\ live[layerRegistrations[i].layer] = layerRegistrations[i].handle
    /\ \A layer \in Layer :
          live[layer] # 0 =>
              \E i \in 1..MaxRegistrations : layerRegistrations[i].layer = layer
    /\ \A i, j \in 1..MaxRegistrations :
             /\ layerRegistrations[i] # FreeRegistration
             /\ layerRegistrations[i].layer = layerRegistrations[j].layer
          => i = j
    /\ \A layer, other \in Layer :
          live[layer] # 0 /\ live[layer] = live[other] => layer = other

LEMMA RegisterKeepsInv ==
    ASSUME RegistrationsInv, NEW layer \in Layer, NEW handle \in Handle,
           ManagerRegisters(layer, handle)
    PROVE  RegistrationsInv'
<1> DEFINE same == {i \in 1..MaxRegistrations :
                       \/ layerRegistrations[i].layer = layer
                       \/ layerRegistrations[i].handle = handle}
           free == {i \in 1..MaxRegistrations :
                       layerRegistrations[i] = FreeRegistration}
           slots == IF same # {} THEN same ELSE free
           entry == [layer |-> layer, handle |-> handle]
<1>0. /\ layerRegistrations \in [1..MaxRegistrations -> Registration]
      /\ live \in [Layer -> Handle \cup {0}]
      /\ handle # 0
  BY LayerAssumption DEF RegistrationsInv
<1>a. /\ slots # {}
      /\ layerRegistrations' = [layerRegistrations EXCEPT ![FirstSlot(slots)] = entry]
      /\ live' = [live EXCEPT ![layer] = handle]
      /\ \A other \in Layer : live[other] # handle
  BY DEF ManagerRegisters, RegisterInputLayer
<1>b. entry \in Registration /\ entry.layer = layer /\ entry.handle = handle
      /\ entry # FreeRegistration
  BY <1>0 DEF Registration, FreeRegistration
\* No entry holds the fresh handle, so that an overwritten entry is the layer's.
<1>c. ASSUME NEW i \in 1..MaxRegistrations, layerRegistrations[i].handle = handle
      PROVE  FALSE
  <2>a. layerRegistrations[i] # FreeRegistration
    BY <1>0, <1>c DEF FreeRegistration
  <2> QED BY <1>a, <1>c, <2>a DEF RegistrationsInv
<1>d. PICK f : f = FirstSlot(slots) /\ f \in slots
  <2>a. slots \subseteq 1..MaxRegistrations
    OBVIOUS
  <2> HIDE DEF slots
  <2> QED BY <1>a, <2>a, FirstSlotIn
<1>e. f \in 1..MaxRegistrations
  BY <1>d
<1>f. \/ layerRegistrations[f].layer = layer
      \/ /\ layerRegistrations[f] = FreeRegistration
         /\ \A i \in 1..MaxRegistrations : layerRegistrations[i].layer # layer
  <2>a. CASE same # {}
    BY <1>c, <1>d, <2>a
  <2>b. CASE same = {}
    BY <1>d, <2>b
  <2> QED BY <2>a, <2>b
<1> HIDE DEF same, free, slots, entry
<1>g. layerRegistrations' = [layerRegistrations EXCEPT ![f] = entry]
  BY <1>a, <1>d
<1>h. /\ layerRegistrations' \in [1..MaxRegistrations -> Registration]
      /\ live' \in [Layer -> Handle \cup {0}]
  BY <1>0, <1>a, <1>b, <1>g
<1>i. \A i \in 1..MaxRegistrations :
         layerRegistrations'[i] = IF i = f THEN entry ELSE layerRegistrations[i]
  BY <1>0, <1>g
<1>j.  \A other \in Layer : live'[other] = IF other = layer THEN handle ELSE live[other]
  BY <1>0, <1>a
\* Any other entry in use names another layer.
<1>k.  ASSUME NEW i \in 1..MaxRegistrations, i # f,
              layerRegistrations[i] # FreeRegistration
       PROVE  layerRegistrations[i].layer # layer
  BY <1>e, <1>f, <1>k DEF RegistrationsInv
<1>l.  layer # NoLayer /\ FreeRegistration.layer = NoLayer
  BY LayerAssumption DEF FreeRegistration
<1>m.  ASSUME NEW i \in 1..MaxRegistrations, layerRegistrations'[i] # FreeRegistration
       PROVE  /\ layerRegistrations'[i].layer \in Layer
              /\ live'[layerRegistrations'[i].layer] = layerRegistrations'[i].handle
  <2>a. CASE i = f
    BY <1>b, <1>i, <1>j, <2>a
  <2>b. CASE i # f
    BY <1>i, <1>j, <1>k, <1>m, <2>b DEF RegistrationsInv
  <2> QED BY <2>a, <2>b
<1>n.  ASSUME NEW other \in Layer, live'[other] # 0
       PROVE  \E i \in 1..MaxRegistrations : layerRegistrations'[i].layer = other
  <2>a. CASE other = layer
    BY <1>b, <1>e, <1>i, <2>a
  <2>b. CASE other # layer
    <3>a. PICK i \in 1..MaxRegistrations : layerRegistrations[i].layer = other
      BY <1>j, <1>n, <2>b DEF RegistrationsInv
    <3>b. i # f
      BY <1>f, <1>l, <2>b, <3>a, LayerAssumption
    <3> QED BY <1>i, <3>a, <3>b
  <2> QED BY <2>a, <2>b
<1>o.  ASSUME NEW i \in 1..MaxRegistrations, NEW j \in 1..MaxRegistrations,
              layerRegistrations'[i] # FreeRegistration,
              layerRegistrations'[i].layer = layerRegistrations'[j].layer
       PROVE  i = j
  <2>a. CASE i = f /\ j # f
    <3>a. layerRegistrations[j].layer = layer
      BY <1>b, <1>i, <1>o, <2>a
    <3>b. layerRegistrations[j] # FreeRegistration
      BY <1>l, <3>a
    <3> QED BY <1>k, <2>a, <3>a, <3>b
  <2>b. CASE i # f /\ j = f
    <3>a. layerRegistrations[i].layer = layer /\ layerRegistrations[i] # FreeRegistration
      BY <1>b, <1>i, <1>o, <2>b
    <3> QED BY <1>k, <2>b, <3>a
  <2>c. CASE i # f /\ j # f
    BY <1>i, <1>o, <2>c DEF RegistrationsInv
  <2>d. CASE i = f /\ j = f
    BY <2>d
  <2> QED BY <2>a, <2>b, <2>c, <2>d
<1>p.  ASSUME NEW one \in Layer, NEW other \in Layer,
              live'[one] # 0, live'[one] = live'[other]
       PROVE  one = other
  BY <1>a, <1>j, <1>p DEF RegistrationsInv
<1> QED BY <1>h, <1>m, <1>n, <1>o, <1>p DEF RegistrationsInv

LEMMA ReleaseKeepsInv ==
    ASSUME RegistrationsInv, NEW layer \in Layer, ManagerReleases(layer)
    PROVE  RegistrationsInv'
<1>a. /\ live[layer] # 0
      /\ layerRegistrations' =
            [i \in 1..MaxRegistrations |->
                IF layerRegistrations[i].handle = live[layer]
                THEN FreeRegistration ELSE layerRegistrations[i]]
      /\ live' = [live EXCEPT ![layer] = 0]
  BY DEF ManagerReleases, ReleaseInputLayer, LiveLayers
<1>b. /\ layerRegistrations \in [1..MaxRegistrations -> Registration]
      /\ live \in [Layer -> Handle \cup {0}]
  BY DEF RegistrationsInv
<1>c. /\ layerRegistrations' \in [1..MaxRegistrations -> Registration]
      /\ live' \in [Layer -> Handle \cup {0}]
  BY <1>a, <1>b DEF Registration
<1>d. \A other \in Layer : live'[other] = IF other = layer THEN 0 ELSE live[other]
  BY <1>a, <1>b
\* Only the layer's own entry is freed.
<1>e. ASSUME NEW i \in 1..MaxRegistrations
      PROVE  layerRegistrations'[i] =
                IF layerRegistrations[i].layer = layer
                THEN FreeRegistration ELSE layerRegistrations[i]
  <2>a. CASE layerRegistrations[i] = FreeRegistration
    BY <1>a, <2>a
  <2>b. CASE layerRegistrations[i] # FreeRegistration
    <3>a. layerRegistrations[i].handle = live[layer] <=> layerRegistrations[i].layer = layer
      BY <1>a, <2>b DEF RegistrationsInv
    <3> QED BY <1>a, <3>a
  <2> QED BY <2>a, <2>b
<1>f. FreeRegistration.layer \notin Layer
  BY LayerAssumption DEF FreeRegistration
<1>g. ASSUME NEW i \in 1..MaxRegistrations, layerRegistrations'[i] # FreeRegistration
      PROVE  /\ layerRegistrations'[i].layer \in Layer
             /\ live'[layerRegistrations'[i].layer] = layerRegistrations'[i].handle
  BY <1>d, <1>e, <1>g DEF RegistrationsInv
<1>h. ASSUME NEW other \in Layer, live'[other] # 0
      PROVE  \E i \in 1..MaxRegistrations : layerRegistrations'[i].layer = other
  <2>a. other # layer /\ live[other] # 0
    BY <1>d, <1>h
  <2>b. PICK i \in 1..MaxRegistrations : layerRegistrations[i].layer = other
    BY <2>a DEF RegistrationsInv
  <2> QED BY <1>e, <2>a, <2>b
<1>i. ASSUME NEW i \in 1..MaxRegistrations, NEW j \in 1..MaxRegistrations,
             layerRegistrations'[i] # FreeRegistration,
             layerRegistrations'[i].layer = layerRegistrations'[j].layer
      PROVE  i = j
  <2>a. layerRegistrations'[i] = layerRegistrations[i]
    BY <1>e, <1>i
  <2>b. layerRegistrations'[j] = layerRegistrations[j]
    BY <1>e, <1>f, <1>g, <1>i
  <2> QED BY <1>i, <2>a, <2>b DEF RegistrationsInv
<1>j.  ASSUME NEW one \in Layer, NEW other \in Layer,
              live'[one] # 0, live'[one] = live'[other]
       PROVE  one = other
  BY <1>d, <1>j DEF RegistrationsInv
<1> QED BY <1>c, <1>g, <1>h, <1>i, <1>j DEF RegistrationsInv

LEMMA RegistrationsNext ==
    ASSUME RegistrationsInv, [Next]_vars
    PROVE  RegistrationsInv'
<1>a. ASSUME UNCHANGED <<layerRegistrations, live>>
      PROVE  RegistrationsInv'
  BY <1>a DEF RegistrationsInv
<1>b. ASSUME \/ \E layer \in LiveLayers : LayerUpdateBegins(layer)
             \/ \E words \in PadWords, enabled \in EnabledMasks :
                   PadDataIsRead(words, enabled)
             \/ \E out \in LayerOutcome : LayerUpdateEnds(out)
             \/ \E d \in Descriptor, enabled \in BOOLEAN : RelayChecks(d, enabled)
      PROVE  UNCHANGED <<layerRegistrations, live>>
  BY <1>b DEF LayerUpdateBegins, UIInputLayerUpdateBegin, EnterInputLayer,
     PadDataIsRead, UIUtilGetPadData, LayerUpdateEnds, UIInputLayerUpdateEnd,
     LeaveInputLayer, RelayChecks, PadRelayCheckAction, layerVars, historyVars
<1>c. ASSUME \/ \E words \in PadWords : ButtonsAreRead(words)
             \/ CaptureClient
             \/ PlaybackClient
             \/ ScriptedClient
             \/ AutoUiClient
      PROVE  UNCHANGED <<layerRegistrations, live>>
  BY <1>c DEF ButtonsAreRead, CaptureClient, PlaybackClient, ScriptedClient,
     AutoUiClient, layerVars, historyVars
<1>d. CASE UNCHANGED vars
  BY <1>a, <1>d DEF vars, ibVars, layerVars
<1> QED BY <1>a, <1>b, <1>c, <1>d, RegisterKeepsInv, ReleaseKeepsInv DEF Next

LEMMA InvImpliesFollow == RegistrationsInv => RegistrationsFollowManager
<1> SUFFICES ASSUME RegistrationsInv, NEW layer \in Layer
             PROVE  InputLayerHandle(layer) = live[layer]
  BY DEF RegistrationsFollowManager
<1> DEFINE slots == {i \in 1..MaxRegistrations : layerRegistrations[i].layer = layer}
<1>a. CASE slots = {}
  BY <1>a DEF InputLayerHandle, RegistrationsInv
<1>b. CASE slots # {}
  <2>a. slots \subseteq 1..MaxRegistrations
    OBVIOUS
  <2>b. PICK f : f = FirstSlot(slots) /\ f \in slots
    <3> HIDE DEF slots
    <3> QED BY <1>b, <2>a, FirstSlotIn
  <2>c. InputLayerHandle(layer) = layerRegistrations[f].handle
    BY <1>b, <2>b DEF InputLayerHandle
  <2>d. f \in 1..MaxRegistrations /\ layerRegistrations[f].layer = layer
    BY <2>b
  <2>e. layerRegistrations[f] # FreeRegistration
    BY <2>d, LayerAssumption DEF FreeRegistration
  <2> QED BY <2>c, <2>d, <2>e DEF RegistrationsInv
<1> QED BY <1>a, <1>b

\* Every live layer is known by the handle the manager gave it.
THEOREM RegistrationsFollow == Spec => []RegistrationsFollowManager
<1>a. Init => RegistrationsInv
  <2> SUFFICES ASSUME Init PROVE RegistrationsInv
    OBVIOUS
  <2>a. /\ layerRegistrations = [i \in 1..MaxRegistrations |-> FreeRegistration]
        /\ live = [layer \in Layer |-> 0]
    BY DEF Init, InputBufferInit
  <2> QED BY <2>a DEF RegistrationsInv, Registration
<1>b. RegistrationsInv /\ [Next]_vars => RegistrationsInv'
  BY RegistrationsNext
<1> QED BY <1>a, <1>b, InvImpliesFollow, PTL DEF Spec

----
(* Completions and the words that were read.                               *)

LEMMA FunctionIsSeq ==
    ASSUME NEW n \in Nat, NEW T, NEW f \in [1..n -> T]
    PROVE  f \in Seq(T) /\ Len(f) = n
<1>a. f \in Seq(T)
  BY SeqDef
<1>b. Len(f) \in Nat /\ 1..Len(f) = 1..n
  BY <1>a, LenProperties
<1> QED BY <1>a, <1>b, SMT

\* Whatever is on offer is in a word read since the innermost update began.
OffersAreIn(here) ==
    /\ playbackUiActionOffered => playbackAction.input.mask \subseteq here
    /\ scriptedUiOfferedMask \subseteq here
    /\ autoUiActionOffered => \A mask \in AutoUiMasks : mask \subseteq here

\* One entry for each update in progress; the innermost has what is on offer.
OffersAreInjected ==
    /\ layerStack \in Seq(Layer)
    /\ \E S : injected \in Seq(S)
    /\ Len(injected) = Len(layerStack)
    /\ layerStack # <<>> => OffersAreIn(injected[Len(injected)])

OffersInv ==
    /\ OffersAreInjected
    /\ autoUiActionPhase # "Idle" => autoUiActionMask \in AutoUiMasks

\* What a completing update must find.
CompletionsWereInjected ==
    Len(injected') < Len(injected) =>
         LET here == Last(injected) IN
         /\ playbackAction' # playbackAction => playbackAction.input.mask \subseteq here
         /\ scriptedBufferedMask \ scriptedBufferedMask' \subseteq here
         /\ autoUiActionPhase = "Pending" /\ autoUiActionPhase' = "Neutral"
               => autoUiActionMask \subseteq here

\* Steps that neither begin nor end an update, nor read a word.
LEMMA OffersKept ==
    ASSUME OffersInv, UNCHANGED <<layerStack, injected>>,
           UNCHANGED <<playbackUiActionOffered, playbackAction>>
              \/ playbackUiActionOffered' = FALSE
              \/ playbackAction' = NoAction
              \/ layerStack = <<>>,
           UNCHANGED scriptedUiOfferedMask \/ scriptedUiOfferedMask' = {},
           UNCHANGED autoUiActionOffered \/ autoUiActionOffered' = FALSE,
           autoUiActionPhase' # "Idle" => autoUiActionMask' \in AutoUiMasks
    PROVE  OffersInv' /\ CompletionsWereInjected
<1>a. OffersAreInjected'
  <2>a. layerStack # <<>> => OffersAreIn(injected[Len(injected)])'
    BY DEF OffersInv, OffersAreInjected, OffersAreIn, NoAction, NoInput
  <2> QED BY <2>a DEF OffersInv, OffersAreInjected
<1>b. CompletionsWereInjected
  <2>a. Len(injected) \in Nat
    BY LenProperties DEF OffersInv, OffersAreInjected
  <2> QED BY <2>a DEF CompletionsWereInjected
<1> QED BY <1>a, <1>b DEF OffersInv

LEMMA UpdateBeginsStep ==
    ASSUME OffersInv, NEW layer \in Layer, LayerUpdateBegins(layer)
    PROVE  OffersInv' /\ CompletionsWereInjected
<1>a. PICK S : injected \in Seq(S)
  BY DEF OffersInv, OffersAreInjected
<1>b. injected \in Seq(S \cup {{}})
  BY <1>a
<1>c. /\ layerStack' = Append(layerStack, layer)
      /\ injected' = Append(injected, {})
  BY DEF LayerUpdateBegins, UIInputLayerUpdateBegin, EnterInputLayer
<1>d. /\ injected' \in Seq(S \cup {{}})
      /\ Len(injected') = Len(injected) + 1
      /\ injected'[Len(injected')] = {}
  BY <1>b, <1>c
<1>e. layerStack' \in Seq(Layer) /\ Len(layerStack') = Len(layerStack) + 1
  BY <1>c DEF OffersInv, OffersAreInjected
<1>f. OffersAreIn({})'
  BY DEF OffersAreIn, LayerUpdateBegins, UIInputLayerUpdateBegin, EnterInputLayer
<1>g. OffersAreInjected'
  <2>a. OffersAreIn(injected[Len(injected)])'
    BY <1>d, <1>f DEF OffersAreIn
  <2> QED BY <1>d, <1>e, <2>a DEF OffersInv, OffersAreInjected
<1>h. OffersInv'
  BY <1>g DEF OffersInv, LayerUpdateBegins, UIInputLayerUpdateBegin, autoUiActionVars
<1>i. CompletionsWereInjected
  BY <1>a, <1>d, LenProperties DEF CompletionsWereInjected
<1> QED BY <1>h, <1>i

LEMMA WordIsReadStep ==
    ASSUME OffersInv, NEW words, NEW enabled, PadDataIsRead(words, enabled)
    PROVE  OffersInv' /\ CompletionsWereInjected
<1>a. /\ UNCHANGED <<layerStack, playbackAction, autoUiActionVars>>
      /\ UIUtilGetPadData(words, enabled)
  BY DEF PadDataIsRead, UIUtilGetPadData, layerVars, slotVars, GetNeutralPadData,
     OfferAutoUiAction, OfferScriptedAction, OfferPlaybackAction, GetNativePadData,
     autoUiVars
<1>b. autoUiActionPhase' # "Idle" => autoUiActionMask' \in AutoUiMasks
  BY <1>a DEF OffersInv, autoUiActionVars
<1>p. PICK S : injected \in Seq(S)
  BY DEF OffersInv, OffersAreInjected
<1>q. Len(injected) \in Nat /\ Len(injected) = Len(layerStack)
      /\ layerStack \in Seq(Layer)
  BY <1>p, LenProperties DEF OffersInv, OffersAreInjected
<1>c. CASE layerStack = <<>>
  <2>a. injected = <<>>
    BY <1>c, <1>p, <1>q
  <2>b. UNCHANGED injected
    BY <2>a DEF PadDataIsRead
  <2> QED BY <1>a, <1>b, <1>c, <1>q, <2>b
          DEF OffersInv, OffersAreInjected, CompletionsWereInjected
<1>d. CASE layerStack # <<>>
  <2> DEFINE top == Len(injected)
             here == injected[top]
  <2>p. top \in 1..Len(injected) /\ injected # <<>> /\ OffersAreIn(here)
    BY <1>d, <1>p, <1>q DEF OffersInv, OffersAreInjected
  <2>0. PICK added : added = InjectedBy(enabled)
    OBVIOUS
  <2>a. /\ injected' \in Seq(S \cup {here \cup added})
        /\ Len(injected') = Len(injected)
        /\ injected'[top] = here \cup added
    <3>a. injected' = [injected EXCEPT ![top] = here \cup added]
      BY <2>0, <2>p DEF PadDataIsRead
    <3>b. injected \in Seq(S \cup {here \cup added})
      BY <1>p
    <3> QED BY <2>p, <3>a, <3>b
  <2> HIDE DEF top, here
  <2>b. playbackUiActionOffered' => playbackAction.input.mask \subseteq here \cup added
    <3>a. CASE GetNeutralPadData(words)
      BY <2>p, <3>a DEF GetNeutralPadData, offerVars, OffersAreIn
    <3>b. CASE OfferAutoUiAction(words, enabled)
      BY <2>p, <3>b DEF OfferAutoUiAction, offerVars, OffersAreIn
    <3>c. CASE OfferScriptedAction(words, enabled)
      BY <2>p, <3>c DEF OfferScriptedAction, offerVars, OffersAreIn
    <3>d. CASE OfferPlaybackAction(words, enabled)
      BY <2>0, <3>d DEF OfferPlaybackAction, InjectedBy
    <3>e. CASE GetNativePadData(words, enabled)
      BY <2>p, <3>e DEF GetNativePadData, offerVars, OffersAreIn
    <3> QED BY <1>a, <3>a, <3>b, <3>c, <3>d, <3>e DEF UIUtilGetPadData
  <2>c. scriptedUiOfferedMask' \subseteq here \cup added
    <3>a. CASE OfferScriptedAction(words, enabled)
      <4>a. scriptedUiOfferedMask' = scriptedBufferedMask \cap enabled
        BY <3>a DEF OfferScriptedAction
      <4>b. added = scriptedBufferedMask \cap enabled
        BY <2>0, <3>a DEF OfferScriptedAction, InjectedBy
      <4> QED BY <4>a, <4>b
    <3>b. CASE ~OfferScriptedAction(words, enabled)
      <4>a. UNCHANGED scriptedUiOfferedMask
        BY <1>a, <3>b DEF UIUtilGetPadData, GetNeutralPadData, OfferAutoUiAction,
           OfferPlaybackAction, GetNativePadData, scriptedVars
      <4> QED BY <2>p, <4>a DEF OffersAreIn
    <3> QED BY <3>a, <3>b
  <2>d. autoUiActionOffered' => \A mask \in AutoUiMasks : mask \subseteq here \cup added
    <3>a. CASE OfferAutoUiAction(words, enabled)
      <4>a. added = autoUiActionMask /\ autoUiActionMask \in AutoUiMasks
        BY <2>0, <3>a DEF OfferAutoUiAction, InjectedBy, AutoUiOfferedHere, AutoUiNeutralHere,
           AutoUiActionHere, OffersInv
      <4>b. \A mask \in AutoUiMasks : mask = autoUiActionMask
        BY <4>a, ClientsAssumption
      <4> QED BY <4>a, <4>b
    <3>b. CASE ~OfferAutoUiAction(words, enabled)
      <4>a. UNCHANGED autoUiActionOffered
        BY <1>a, <3>b DEF UIUtilGetPadData, GetNeutralPadData, OfferScriptedAction,
           OfferPlaybackAction, GetNativePadData, autoUiVars
      <4> QED BY <2>p, <4>a DEF OffersAreIn
    <3> QED BY <3>a, <3>b
  <2>e. OffersAreIn(injected[Len(injected)])'
    BY <2>a, <2>b, <2>c, <2>d, <1>a DEF OffersAreIn, top
  <2>f. OffersAreInjected'
    BY <1>a, <1>q, <2>a, <2>e DEF OffersAreInjected
  <2> QED BY <1>b, <1>q, <2>a, <2>f DEF OffersInv, CompletionsWereInjected
<1> QED BY <1>c, <1>d

\* The caller is left with the words of the update that ends, among its own.
LEMMA UpdateEndsStep ==
    ASSUME OffersInv, NEW out \in LayerOutcome, LayerUpdateEnds(out)
    PROVE  OffersInv' /\ CompletionsWereInjected
<1>a. /\ layerStack # <<>>
      /\ layerStack' = Front(layerStack)
      /\ injected' = HandedToCaller
      /\ LeaveInputLayer(updatingInputLayer, out)
      /\ AutoUiAfterUpdate(updatingInputLayer, out)
  BY DEF LayerUpdateEnds, UIInputLayerUpdateEnd, LeaveInputLayer, RestoreUpdatingLayer
<1>b. PICK S : injected \in Seq(S)
  BY DEF OffersInv, OffersAreInjected
<1> DEFINE n == Len(injected)
           here == injected[n]
<1>c. /\ n \in Nat /\ n # 0 /\ n = Len(layerStack)
      /\ layerStack \in Seq(Layer)
      /\ Last(injected) = here /\ OffersAreIn(here)
  BY <1>a, <1>b, LenProperties DEF OffersInv, OffersAreInjected, Last
<1>d. layerStack' \in Seq(Layer) /\ Len(layerStack') = n - 1
  <2>a. PICK m \in Nat : m = n - 1
    BY <1>c
  <2>b. m <= Len(layerStack) /\ layerStack' = SubSeq(layerStack, 1, m)
    BY <1>a, <1>c, <2>a DEF Front
  <2> HIDE DEF n
  <2> QED BY <1>c, <2>a, <2>b, SubSeqProperties, ElementOfSeq, SMT
<1>e. /\ \E T : injected' \in Seq(T)
      /\ Len(injected') = n - 1
      /\ n - 1 # 0 => here \subseteq injected'[n - 1]
  <2> DEFINE T == S \cup {injected[i] \cup here : i \in 1..n}
             f(i) == IF i = n - 1 THEN injected[i] \cup here ELSE injected[i]
  <2>a. injected' = [i \in 1..n - 1 |-> f(i)]
    BY <1>a, <1>c DEF HandedToCaller
  <2>b. \A i \in 1..n - 1 : f(i) \in T
    BY <1>b, <1>c
  <2>c. n - 1 \in Nat
    BY <1>c
  <2>d. n - 1 # 0 => n - 1 \in 1..n - 1 /\ here \subseteq f(n - 1)
    BY <1>c
  <2> HIDE DEF f, T, n, here
  <2>e. injected' \in [1..n - 1 -> T]
    BY <2>a, <2>b
  <2>f. injected' \in Seq(T) /\ Len(injected') = n - 1
    BY <2>c, <2>e, FunctionIsSeq
  <2> QED BY <2>a, <2>d, <2>f
<1> HIDE DEF here, n
<1>f. OffersAreInjected'
  <2>a. ASSUME layerStack' # <<>>
        PROVE  OffersAreIn(injected[Len(injected)])'
    <3>a. n - 1 # 0
      BY <1>d, <2>a, EmptySeq
    <3>b. PICK caller : caller = injected'[Len(injected')] /\ here \subseteq caller
      BY <1>e, <3>a
    <3>c. playbackAction' = playbackAction \/ playbackAction'.input.mask = {}
      BY <1>a DEF LeaveInputLayer, CompletePlaybackAction, slotVars, NoAction, NoInput
    <3>d. /\ UNCHANGED <<playbackUiActionOffered, scriptedUiOfferedMask>>
          /\ UNCHANGED autoUiActionOffered
      BY <1>a DEF LeaveInputLayer, AutoUiAfterUpdate, offerVars, autoUiVars
    <3>e. OffersAreIn(caller)'
      BY <1>c, <3>b, <3>c, <3>d DEF OffersAreIn
    <3> QED BY <3>b, <3>e DEF OffersAreIn
  <2> QED BY <1>d, <1>e, <2>a DEF OffersAreInjected
<1>g. autoUiActionPhase' # "Idle" => autoUiActionMask' \in AutoUiMasks
  BY <1>a DEF AutoUiAfterUpdate, AutoUiActionAccepted, OffersInv, autoUiVars,
     autoUiActionVars
<1>h. playbackAction' # playbackAction => playbackAction.input.mask \subseteq here
  BY <1>a, <1>c DEF LeaveInputLayer, LayerServesPlayback, slotVars, OffersAreIn
<1>i. scriptedBufferedMask \ scriptedBufferedMask' \subseteq here
  BY <1>a, <1>c DEF LeaveInputLayer, OffersAreIn
<1>j. autoUiActionPhase = "Pending" /\ autoUiActionPhase' = "Neutral"
         => autoUiActionMask \subseteq here
  BY <1>a, <1>c DEF AutoUiAfterUpdate, AutoUiActionAccepted, OffersAreIn, OffersInv,
     autoUiVars, autoUiActionVars
<1> QED BY <1>c, <1>f, <1>g, <1>h, <1>i, <1>j DEF OffersInv, CompletionsWereInjected

LEMMA OffersNext ==
    ASSUME OffersInv, [Next]_vars
    PROVE  OffersInv' /\ CompletionsWereInjected
<1>a. ASSUME \/ \E layer \in Layer, handle \in Handle : ManagerRegisters(layer, handle)
             \/ \E layer \in Layer : ManagerReleases(layer)
             \/ \E words \in PadWords : ButtonsAreRead(words)
             \/ CaptureClient
             \/ UNCHANGED vars
      PROVE  OffersInv' /\ CompletionsWereInjected
  <2>a. /\ UNCHANGED <<layerStack, injected, playbackUiActionOffered, playbackAction>>
        /\ UNCHANGED <<scriptedUiOfferedMask, autoUiActionOffered>>
        /\ UNCHANGED <<autoUiActionPhase, autoUiActionMask>>
    BY <1>a DEF ManagerRegisters, ManagerReleases, RegisterInputLayer,
       ReleaseInputLayer, ButtonsAreRead, CaptureClient, slotVars, offerVars,
       scriptedVars, autoUiVars, autoUiActionVars, layerVars, historyVars, vars, ibVars
  <2> QED BY <2>a, OffersKept DEF OffersInv
<1>b. ASSUME NEW d \in Descriptor, NEW enabled \in BOOLEAN, RelayChecks(d, enabled)
      PROVE  OffersInv' /\ CompletionsWereInjected
  <2>a. /\ UNCHANGED <<layerStack, injected, playbackUiActionOffered>>
        /\ UNCHANGED playbackAction \/ playbackAction' = NoAction
        /\ UNCHANGED <<scriptedUiOfferedMask, autoUiActionOffered>>
        /\ UNCHANGED <<autoUiActionPhase, autoUiActionMask>>
    BY <1>b DEF RelayChecks, PadRelayCheckAction, CompletePlaybackAction, slotVars,
       offerVars, autoUiVars, autoUiActionVars, layerVars, historyVars
  <2> QED BY <2>a, OffersKept DEF OffersInv
<1>c. ASSUME PlaybackClient
      PROVE  OffersInv' /\ CompletionsWereInjected
  <2>a. /\ UNCHANGED <<layerStack, injected>>
        /\ playbackUiActionOffered' = FALSE \/ layerStack = <<>>
        /\ UNCHANGED <<scriptedUiOfferedMask, autoUiActionOffered>>
        /\ UNCHANGED <<autoUiActionPhase, autoUiActionMask>>
    BY <1>c DEF PlaybackClient, SetPlaybackOverride, scriptedVars, autoUiVars,
       autoUiActionVars, layerVars, historyVars
  <2> QED BY <2>a, OffersKept DEF OffersInv
<1>d. ASSUME ScriptedClient
      PROVE  OffersInv' /\ CompletionsWereInjected
  <2>a. /\ UNCHANGED <<layerStack, injected, playbackUiActionOffered, playbackAction>>
        /\ UNCHANGED scriptedUiOfferedMask \/ scriptedUiOfferedMask' = {}
        /\ UNCHANGED autoUiActionOffered
        /\ UNCHANGED <<autoUiActionPhase, autoUiActionMask>>
    BY <1>d DEF ScriptedClient, SetBufferedButtonAction, CancelBufferedButtonAction,
       scriptedVars, slotVars, offerVars, autoUiVars, autoUiActionVars, layerVars,
       historyVars
  <2> QED BY <2>a, OffersKept DEF OffersInv
<1>e. ASSUME AutoUiClient
      PROVE  OffersInv' /\ CompletionsWereInjected
  <2>a. /\ UNCHANGED <<layerStack, injected, playbackUiActionOffered, playbackAction>>
        /\ UNCHANGED scriptedUiOfferedMask
        /\ UNCHANGED autoUiActionOffered \/ autoUiActionOffered' = FALSE
    BY <1>e DEF AutoUiClient, CancelAutoUiAction, scriptedVars, slotVars, offerVars,
       autoUiVars, layerVars, historyVars
  <2>b. autoUiActionPhase' # "Idle" => autoUiActionMask' \in AutoUiMasks
    BY <1>e DEF AutoUiClient, RequestAutoUiAction, CancelAutoUiAction, autoUiVars,
       autoUiActionVars, OffersInv
  <2> QED BY <2>a, <2>b, OffersKept
<1>f. ASSUME \E layer \in LiveLayers : LayerUpdateBegins(layer)
      PROVE  OffersInv' /\ CompletionsWereInjected
  BY <1>f, UpdateBeginsStep DEF LiveLayers
<1>g. ASSUME \E words \in PadWords, enabled \in EnabledMasks :
                PadDataIsRead(words, enabled)
      PROVE  OffersInv' /\ CompletionsWereInjected
  BY <1>g, WordIsReadStep
<1>h. ASSUME \E out \in LayerOutcome : LayerUpdateEnds(out)
      PROVE  OffersInv' /\ CompletionsWereInjected
  BY <1>h, UpdateEndsStep
<1> QED BY <1>a, <1>b, <1>c, <1>d, <1>e, <1>f, <1>g, <1>h DEF Next

\* What a layer update completes was injected into a word read during that update, by it
\* or by an update within it, however deep updates are nested: the offers are globals, an
\* inner update resets them and its caller finds what it left behind.
THEOREM AcceptedWasInjectedHolds == Spec => AcceptedWasInjected
<1>a. Init => OffersInv
  <2>a. Init => layerStack = <<>> /\ injected = <<>> /\ autoUiActionPhase = "Idle"
    BY DEF Init, InputBufferInit
  <2>b. <<>> \in Seq(Layer)
    OBVIOUS
  <2> QED BY <2>a, <2>b DEF OffersInv, OffersAreInjected
<1>b. OffersInv /\ [Next]_vars => OffersInv'
  BY OffersNext
<1>c. OffersInv /\ [Next]_vars => [Len(injected') < Len(injected) =>
         LET here == Last(injected) IN
         /\ playbackAction' # playbackAction => playbackAction.input.mask \subseteq here
         /\ scriptedBufferedMask \ scriptedBufferedMask' \subseteq here
         /\ autoUiActionPhase = "Pending" /\ autoUiActionPhase' = "Neutral"
               => autoUiActionMask \subseteq here]_vars
  BY OffersNext DEF CompletionsWereInjected
<1> QED BY <1>a, <1>b, <1>c, PTL DEF Spec, AcceptedWasInjected
====
