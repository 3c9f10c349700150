---- MODULE Field_proofs ----
(* Where the player stands: the orbiting camera keeps to the player, neither a *)
(* velocity nor a forced reaction crosses into another scene, and a combo that is*)
(* held toggles the menu or the log once.                                      *)
EXTENDS CameraTools, Scenes, Shell, TLAPS

----
(* The cameras. *)

\* The height the code keeps is the one the target is owed, and a level orbit has
\* nothing to wait for.
HeightKept == IF axis = "Up" THEN anchor = unlockTargetHeight ELSE settled

\* Every reachable state of the camera tools is well typed, whatever the size of
\* the world and the strides.
CameraInv == CameraTypeOK /\ OrbitFollowsPlayer /\ HeightKept

LEMMA CameraInitInv == CameraInit => CameraInv
  <1> SUFFICES ASSUME CameraInit PROVE CameraInv
    OBVIOUS
  <1>a. 0 \in Place
    BY CameraAssumption DEF Place
  <1>b. CameraTypeOK
    <2>a. /\ freecamOn \in BOOLEAN /\ cameraUnlockOn \in BOOLEAN
          /\ relativeToPlayer \in BOOLEAN /\ HasCameraState \in BOOLEAN
          /\ menuOpen \in BOOLEAN /\ secondPad \in BOOLEAN
      BY Zenon DEF CameraInit
    <2>b. /\ CamState \in Place /\ NormalCamTarget \in Place /\ lastPlayerPos \in Place
          /\ UnlockLastPlayerPosition \in Place /\ player \in Place \cup {NoPlayer}
          /\ VisualCamTarget \in Int /\ unlockOffset \in Int /\ unlockTargetHeight \in Int
          /\ anchor \in Int /\ settled \in BOOLEAN /\ axis \in {"Level", "Up"}
          /\ layer \in {"Normal", "Freecam"} /\ SceneTransitionTypeOK
      BY <1>a DEF CameraInit, SceneTransitionInit, SceneTransitionTypeOK
    <2> QED
      BY <2>a, <2>b DEF CameraTypeOK
  <1>c. OrbitFollowsPlayer
    <2>a. /\ settled = (axis = "Level") /\ VisualCamTarget = 0 /\ UnlockLastPlayerPosition = 0
          /\ anchor = IF axis = "Up" THEN unlockTargetHeight ELSE 0
      BY Zenon DEF CameraInit
    <2>b. settled => axis = "Level"
      BY <2>a, Zenon
    <2> QED
      BY <2>a, <2>b DEF OrbitFollowsPlayer
  <1>d. HeightKept
    <2>a. CASE axis = "Up"
      <3>a. anchor = IF axis = "Up" THEN unlockTargetHeight ELSE 0
        BY Zenon DEF CameraInit
      <3> QED
        BY <2>a, <3>a DEF HeightKept
    <2>b. CASE axis = "Level"
      <3>a. settled = (axis = "Level")
        BY Zenon DEF CameraInit
      <3> QED
        BY <2>b, <3>a DEF HeightKept
    <2> QED
      BY <2>a, <2>b DEF CameraInit
  <1> QED
    BY <1>b, <1>c, <1>d DEF CameraInv

\* The two hooks on the engine's cameras leave the orbit alone.
LEMMA EngineCamerasKeep == ASSUME CameraInv, EngineCameras, UNCHANGED axis PROVE CameraInv'
  <1> PICK place \in Place, target \in Place :
        PilotCameraLayers(place, target) \/ CopyCurrentCameraState(place, target)
    BY DEF EngineCameras
  <1>a. CASE PilotCameraLayers(place, target)
    BY <1>a DEF PilotCameraLayers, CameraInv, CameraTypeOK, OrbitFollowsPlayer, HeightKept, switches,
       normalVars, orbitVars, inputVars, SceneTransitionTypeOK
  <1>b. CASE CopyCurrentCameraState(place, target)
    BY <1>b DEF CopyCurrentCameraState, CameraInv, CameraTypeOK, OrbitFollowsPlayer, HeightKept, switches,
       normalVars, orbitVars, inputVars, SceneTransitionTypeOK, EndSceneTransition
  <1> QED
    BY <1>a, <1>b

LEMMA CameraUpdateKeeps ==
  ASSUME CameraInv, NEW key \in Keys, CameraUpdate(key), UNCHANGED axis
  PROVE  CameraInv'
  <1> USE DEF CameraInv, CameraTypeOK, OrbitFollowsPlayer, HeightKept,
              SceneTransitionTypeOK, switches, normalVars, orbitVars, inputVars
  <1>u. UNCHANGED axis
    OBVIOUS
  <1>a. CASE cameraUnlockOn
    <2>a. UpdateCameraUnlock /\ UNCHANGED <<switches, normalVars, lastPlayerPos, player>>
          /\ UNCHANGED <<inputVars, layer, sceneTransition>>
      BY <1>a DEF CameraUpdate
    <2>b. CASE ~PartyKnown
      BY <2>a, <2>b DEF UpdateCameraUnlock
    <2>c. CASE PartyKnown
      <3>a. player \in Int /\ player \in Place
        BY <2>c DEF PartyKnown, Place
      <3>b. OrbitTurned /\ OrbitShown
        BY <2>a, <2>c DEF UpdateCameraUnlock
      <3>c. unlockOffset' \in Int
        BY <3>b, CameraAssumption DEF OrbitTurned
      <3>d. PICK raised \in {0} \cup (IF secondPad /\ axis = "Up" THEN Strides ELSE {}) :
               unlockTargetHeight' = unlockTargetHeight + raised /\ anchor' = anchor + raised
        BY <3>b DEF OrbitTurned
      <3>e. raised \in Int /\ (axis = "Level" => raised = 0)
        BY CameraAssumption
      <3>f. UnlockLastPlayerPosition \in Int
        BY DEF Place
      <3>g. /\ UnlockLastPlayerPosition' = player /\ settled' = TRUE
            /\ VisualCamTarget' =
                  IF axis = "Level" THEN VisualCamTarget + (player - UnlockLastPlayerPosition)
                  ELSE player + unlockTargetHeight'
        BY <3>b DEF OrbitShown, TargetCarried
      <3>h. VisualCamTarget' - UnlockLastPlayerPosition' = anchor'
        <4>a. CASE axis = "Level"
          BY <3>a, <3>d, <3>e, <3>f, <3>g, <4>a
        <4>b. CASE axis = "Up"
          BY <3>a, <3>d, <3>e, <3>f, <3>g, <4>b
        <4> QED
          BY <4>a, <4>b
      <3>i. CameraTypeOK'
        BY <1>u, <2>a, <3>a, <3>c, <3>d, <3>e, <3>f, <3>g
      <3>j. HeightKept'
        BY <1>u, <3>a, <3>d, <3>e, <3>g
      <3> QED
        BY <3>h, <3>i, <3>j
    <2> QED
      BY <2>b, <2>c
  <1>b. CASE ~cameraUnlockOn
    <2>a. UpdateFreecam(key) /\ UNCHANGED <<inputVars, layer, sceneTransition>>
      BY <1>b DEF CameraUpdate
    <2>b. PartyKnown => player \in Place
      BY DEF PartyKnown
    <2>c. 0 \in Place
      BY CameraAssumption DEF Place
    <2>d. CamState' \in Place /\ lastPlayerPos' \in Place /\ player' \in Place \cup {NoPlayer}
      BY <2>a, <2>b, <2>c DEF UpdateFreecam
    <2>e. freecamOn' \in BOOLEAN
      BY <2>a DEF UpdateFreecam, FreecamAfter
    <2> QED
      BY <2>a, <2>d, <2>e DEF UpdateFreecam
  <1> QED
    BY <1>a, <1>b

LEMMA CameraMenuSectionKeeps == ASSUME CameraInv, CameraMenuSection, UNCHANGED axis PROVE CameraInv'
  <1> USE DEF CameraInv, CameraTypeOK, OrbitFollowsPlayer, HeightKept,
              SceneTransitionTypeOK, switches, normalVars, orbitVars, inputVars, sceneVars
  <1>u. UNCHANGED axis
    OBVIOUS
  <1>a. CASE ToggleFreecam
    BY <1>a DEF ToggleFreecam
  <1>b. CASE ToggleCameraUnlock
    <2>a. CASE cameraUnlockOn \/ ~(PartyKnown /\ HasCameraState)
      BY <1>b, <2>a DEF ToggleCameraUnlock, InitializeCameraUnlockFromState
    <2>b. CASE ~cameraUnlockOn /\ PartyKnown /\ HasCameraState
      <3>a. player \in Place /\ player \in Int /\ CamState \in Int /\ NormalCamTarget \in Int
        BY <2>b DEF PartyKnown, Place
      <3>b. /\ VisualCamTarget' = NormalCamTarget /\ UnlockLastPlayerPosition' = player
            /\ \/ /\ UNCHANGED <<unlockOffset, unlockTargetHeight>>
                  /\ settled' = (axis = "Level")
                  /\ anchor' = IF axis = "Up" THEN unlockTargetHeight
                               ELSE NormalCamTarget - player
               \/ /\ unlockOffset' = CamState - NormalCamTarget
                  /\ unlockTargetHeight' =
                        IF axis = "Up" THEN NormalCamTarget - player ELSE unlockTargetHeight
                  /\ settled' = TRUE
                  /\ anchor' = NormalCamTarget - player
        BY <1>b, <2>b DEF ToggleCameraUnlock, InitializeCameraUnlockFromState
      <3>c. CameraTypeOK'
        <4>a. freecamOn' \in BOOLEAN /\ cameraUnlockOn' \in BOOLEAN
          BY <1>b, <2>b, Zenon DEF ToggleCameraUnlock
        <4>b. /\ VisualCamTarget' \in Int /\ UnlockLastPlayerPosition' \in Place
              /\ unlockOffset' \in Int /\ unlockTargetHeight' \in Int
              /\ anchor' \in Int
          BY <3>a, <3>b
        <4>c. settled' \in BOOLEAN
          BY <3>b, Zenon
        <4> QED
          BY <1>b, <1>u, <4>a, <4>b, <4>c DEF ToggleCameraUnlock
      <3>d. OrbitFollowsPlayer'
        BY <1>u, <3>a, <3>b
      <3>e. HeightKept'
        BY <1>u, <3>a, <3>b
      <3> QED
        BY <3>c, <3>d, <3>e
    <2> QED
      BY <2>a, <2>b
  <1>c. CASE DragOrbit
    <2>a. CASE UNCHANGED <<unlockTargetHeight, anchor, settled>>
      BY <1>c, <1>u, <2>a, CameraAssumption DEF DragOrbit
    <2>b. CASE /\ axis = "Up" /\ unlockTargetHeight' \in Heights
               /\ anchor' = unlockTargetHeight' /\ settled' = FALSE /\ UNCHANGED unlockOffset
      <3>a. unlockTargetHeight' \in Int
        BY <2>b, CameraAssumption DEF Heights
      <3> QED
        BY <1>c, <1>u, <2>b, <3>a DEF DragOrbit
    <2> QED
      BY <1>c, <2>a, <2>b DEF DragOrbit
  <1>d. CASE DragCamera
    BY <1>d DEF DragCamera
  <1>e. CASE ResetPosition
    BY <1>e, CameraAssumption DEF ResetPosition, Place
  <1>f. CASE ToggleRelative
    BY <1>f DEF ToggleRelative
  <1>g. CASE TeleportPlayerToCamera
    BY <1>g DEF TeleportPlayerToCamera
  <1> QED
    BY <1>a, <1>b, <1>c, <1>d, <1>e, <1>f, <1>g DEF CameraMenuSection

LEMMA CameraNextKeeps == CameraInv /\ [CameraNext]_cameraVars => CameraInv'
  <1> SUFFICES ASSUME CameraInv, [CameraNext]_cameraVars PROVE CameraInv'
    OBVIOUS
  <1> USE DEF switches, normalVars, orbitVars, inputVars, sceneVars
  <1>a. CASE UNCHANGED cameraVars
    BY <1>a DEF cameraVars, CameraInv, CameraTypeOK, OrbitFollowsPlayer, HeightKept,
       SceneTransitionTypeOK
  <1> USE DEF CameraInv, CameraTypeOK, OrbitFollowsPlayer, HeightKept, SceneTransitionTypeOK
  <1>b. CASE ToggleMenu /\ UNCHANGED axis
    BY <1>b DEF ToggleMenu
  <1>c. CASE SecondPadChanges /\ UNCHANGED axis
    BY <1>c DEF SecondPadChanges
  <1>d. CASE PlayerMoves /\ UNCHANGED axis
    BY <1>d DEF PlayerMoves
  <1>e. CASE Mapjump /\ UNCHANGED axis
    BY <1>e DEF Mapjump, MapjumpArms, CameraOnSceneTransition
  <1> HIDE DEF CameraInv
  <1> QED
    BY <1>a, <1>b, <1>c, <1>d, <1>e, EngineCamerasKeep, CameraUpdateKeeps,
       CameraMenuSectionKeeps DEF CameraNext

\* CameraTools: the switches, both cameras and the player's place keep their types, and
\* the orbit keeps to the player, whatever the size of the world and the strides.
THEOREM CameraInvariance == CameraSpec => []CameraInv
  BY CameraInitInv, CameraNextKeeps, PTL DEF CameraSpec

\* CameraTools: seen from the player the target of the unlocked camera stays where the
\* activation found it, in height where it was put since, through jumps, freecam and lost
\* players.
THEOREM OrbitFollowsPlayerHolds == CameraSpec => []OrbitFollowsPlayer
  <1>a. CameraInv => OrbitFollowsPlayer
    BY DEF CameraInv
  <1> QED
    BY <1>a, CameraInvariance, PTL

----
(* Warps and forced reactions. *)

\* A transition has no place to measure from: both ways into it forget the place,
\* and no update runs while it lasts.
PlaceIsOfScene ==
    /\ previousPlayerPosition \in {"None", "Here"}
    /\ IsSceneTransitionActive => previousPlayerPosition = "None"

LEMMA PlaceIsOfSceneInit == WarpsInit => PlaceIsOfScene
  BY DEF WarpsInit, SceneTransitionInit, IsSceneTransitionActive, PlaceIsOfScene

LEMMA PlaceIsOfSceneNext == PlaceIsOfScene /\ [WarpsNext]_warpVars => PlaceIsOfScene'
  <1> SUFFICES ASSUME PlaceIsOfScene, [WarpsNext]_warpVars PROVE PlaceIsOfScene'
    OBVIOUS
  <1> USE DEF PlaceIsOfScene, IsSceneTransitionActive
  <1>a. CASE MenuWarps \/ CameraUpdates \/ PartyComesOrGoes \/ UNCHANGED warpVars
    <2>a. UNCHANGED <<previousPlayerPosition, sceneTransition>>
      BY <1>a DEF MenuWarps, Load, SaveWarpsToFile, NewWarp, ToggleShowAll, SelectWarp,
         UpdateWarp, DeleteWarp, GoToWarp, CameraUpdates, PartyComesOrGoes, warpVars
    <2> QED
      BY <2>a
  <1>b. CASE MeasureVelocity
    BY <1>b DEF MeasureVelocity
  <1>c. CASE Jump
    BY <1>c DEF Jump, MapjumpArms, BeginSceneTransition, ForgetPlace
  <1>d. CASE ReloadSave
    BY <1>d DEF ReloadSave, ReloadBegins, BeginSceneTransition, ForgetPlace
  <1>e. CASE SceneLoads
    BY <1>e DEF SceneLoads
  <1>f. CASE TransitionEnds
    BY <1>f DEF TransitionEnds, EndSceneTransition
  <1> QED
    BY <1>a, <1>b, <1>c, <1>d, <1>e, <1>f DEF WarpsNext, WarpsGame

\* PlayerMovement: no velocity is measured across a map jump or a reload.
THEOREM VelocityWithinSceneHolds == WarpsSpec => []VelocityWithinScene
  <1>a. PlaceIsOfScene => VelocityWithinScene
    BY DEF PlaceIsOfScene, VelocityWithinScene
  <1> QED
    BY <1>a, PlaceIsOfSceneInit, PlaceIsOfSceneNext, PTL DEF WarpsSpec

\* A press is a record, whatever was asked for.
PressMade ==
    \E request, answered, left :
        press = [of |-> request, answered |-> answered, sceneLeft |-> left]

LEMMA ReactionsStep ==
  ASSUME PressMade, ForcedAsAsked, [ReactionsNext]_reactionVars
  PROVE  PressMade' /\ ForcedAsAsked'
  <1> PICK request, answered, left :
        press = [of |-> request, answered |-> answered, sceneLeft |-> left]
    BY DEF PressMade
  <1> USE DEF PressMade, ForcedAsAsked
  <1>a. CASE UNCHANGED <<PendingReaction, press>>
    BY <1>a
  <1>b. CASE \E kind \in ReactionKind : ReactionButton(kind)
    <2>a. PICK asked :
            /\ PendingReaction' = asked
            /\ press' = [of |-> asked, answered |-> FALSE, sceneLeft |-> FALSE]
      BY <1>b, Zenon DEF ReactionButton
    <2>b. PressMade'
      BY <2>a, Zenon
    <2>c. ~press'.answered /\ ~press'.sceneLeft /\ press'.of = asked
      BY <2>a
    <2> QED
      BY <2>a, <2>b, <2>c
  <1>c. CASE ReactionsUpdate
    <2>a. PendingReaction' = NoReaction
      BY <1>c DEF ReactionsUpdate, Taken
    <2>b. press' = [of |-> request, answered |-> TRUE, sceneLeft |-> left]
      BY <1>c DEF ReactionsUpdate
    <2> QED
      BY <2>a, <2>b
  <1>d. CASE SceneTransitionBegins /\ ~IsSceneTransitionActive
    <2>a. PendingReaction' = NoReaction
      BY <1>d DEF SceneTransitionBegins, DropPending
    <2>b. press' = [of |-> request, answered |-> answered, sceneLeft |-> TRUE]
      BY <1>d DEF SceneTransitionBegins
    <2> QED
      BY <2>a, <2>b
  <1> QED
    BY <1>a, <1>b, <1>c, <1>d DEF ReactionsNext, reactionVars, SelectPower,
       SceneTransitionBegins, ReactionsTransitionEnds, CharacterChanges

\* ReactionControls: what waits is the last press, if it has not been answered and its
\* scene has not begun to go since.
THEOREM ForcedAsAskedHolds == ReactionsSpec => []ForcedAsAsked
  <1>a. ReactionsInit => PressMade /\ ForcedAsAsked
    <2> SUFFICES ASSUME ReactionsInit PROVE PressMade /\ ForcedAsAsked
      OBVIOUS
    <2>a. press = [of |-> NoReaction, answered |-> TRUE, sceneLeft |-> FALSE]
      BY DEF ReactionsInit, NoPress
    <2>b. PressMade
      BY <2>a, Zenon DEF PressMade
    <2>c. press.answered
      BY <2>a
    <2> QED
      BY <2>b, <2>c DEF ReactionsInit, ForcedAsAsked
  <1>b. PressMade /\ ForcedAsAsked /\ [ReactionsNext]_reactionVars
          => (PressMade /\ ForcedAsAsked)'
    BY ReactionsStep
  <1> QED
    BY <1>a, <1>b, PTL DEF ReactionsSpec

\* Both, when one transition flag serves the two modules.
THEOREM NothingCrossesScenesHolds == ScenesSpec => []NothingCrossesScenes
  BY VelocityWithinSceneHolds, ForcedAsAskedHolds, PTL DEF ScenesSpec, NothingCrossesScenes

----
(* The frame with its menu and log. *)

\* Who toggled and has not let go is seen with the combo in hand.
OwedHoldCombo ==
    /\ controllers \in [Player -> Pad]
    /\ owed \subseteq Player
    /\ \A p \in owed : controllers[p].stateCur = Combo

LEMMA ReadingsAreTyped ==
  ASSUME NEW pad \in Reading, NEW handheld \in Reading
  PROVE  /\ pad.held \in SUBSET Buttons /\ pad.connected \in BOOLEAN
         /\ Both(pad, handheld).held \in SUBSET Buttons
         /\ Both(pad, handheld).connected \in BOOLEAN
  <1>a. ASSUME NEW r \in Reading PROVE r.held \in SUBSET Buttons /\ r.connected \in BOOLEAN
    <2>a. CASE r = Unread
      BY <2>a DEF Unread
    <2>b. CASE r \in [connected : {TRUE}, held : SUBSET Buttons]
      <3>a. r.held \in SUBSET Buttons /\ r.connected \in {TRUE}
        BY <2>b
      <3> QED
        BY <3>a, Zenon
    <2> QED
      BY <2>a, <2>b DEF Reading
  <1> QED
    BY <1>a DEF Both

LEMMA PolledIsTyped ==
  ASSUME NEW c \in Pad, NEW reading, reading.held \in SUBSET Buttons,
         reading.connected \in BOOLEAN
  PROVE  Polled(c, reading) \in Pad
  BY DEF Polled, Pad

\* A frame: the pads are polled, and the menu toggles by a fresh combo only.
LEMMA FrameTogglesFresh ==
  ASSUME OwedHoldCombo, NEW reading1 \in Reading, NEW handheld \in Reading,
         NEW reading2 \in Reading, MainUpdate(reading1, handheld, reading2)
  PROVE  OwedHoldCombo' /\ (isOpen' # isOpen => GetDebugInput(controllers') \notin owed)
  <1> DEFINE reads == <<Both(reading1, handheld), reading2>>
             pads == [controllers EXCEPT ![1] = Polled(@, Both(reading1, handheld)),
                                         ![2] = Polled(@, reading2)]
             debug == GetDebugInput(pads)
             letGo == {p \in Player :
                          reads[p].connected /\ reads[p].held # Combo}
  <1>a. \A p \in Player : controllers[p] \in Pad /\ pads[p] = Polled(controllers[p], reads[p])
    BY DEF OwedHoldCombo, Player
  <1>b. \A p \in Player : /\ reads[p].held \in SUBSET Buttons
                          /\ reads[p].connected \in BOOLEAN
    BY ReadingsAreTyped DEF Player
  <1>c. controllers' = pads /\ pads \in [Player -> Pad]
    <2>a. ASSUME NEW p \in Player PROVE pads[p] \in Pad
      <3> HIDE DEF reads, pads
      <3> QED
        BY <1>a, <1>b, PolledIsTyped
    <2>b. DOMAIN pads = Player /\ pads = [p \in Player |-> pads[p]]
      BY DEF OwedHoldCombo
    <2> QED
      BY <2>a, <2>b DEF MainUpdate
  <1>d. debug \in Player
    BY DEF GetDebugInput, Player
  <1>e. \A p \in Player : /\ pads[p].statePrev = controllers[p].stateCur
                          /\ pads[p].stateCur = (IF reads[p].connected THEN reads[p].held
                                                 ELSE controllers[p].stateCur)
    <2> HIDE DEF reads, pads
    <2> SUFFICES ASSUME NEW p \in Player
                 PROVE  /\ pads[p].statePrev = controllers[p].stateCur
                        /\ pads[p].stateCur = (IF reads[p].connected THEN reads[p].held
                                               ELSE controllers[p].stateCur)
      OBVIOUS
    <2>a. pads[p] = Polled(controllers[p], reads[p])
      BY <1>a
    <2> QED
      BY <2>a DEF Polled
  <1> DEFINE toggles == InputDownStrict(pads[debug], Combo)
  <1>f. /\ owed' = (owed \ letGo) \cup (IF toggles THEN {debug} ELSE {})
        /\ isOpen' = IF toggles THEN ~isOpen ELSE isOpen
    BY DEF MainUpdate
  <1> HIDE DEF reads, pads, debug
  <1>g. toggles => pads[debug].stateCur = Combo /\ debug \notin owed
    BY <1>d, <1>e DEF InputDownStrict, OwedHoldCombo
  <1>h. owed' \subseteq Player
    BY <1>d, <1>f DEF OwedHoldCombo
  <1>i. ASSUME NEW p \in owed' PROVE pads[p].stateCur = Combo
    <2>a. CASE p \in owed \ letGo
      BY <2>a, <1>e DEF OwedHoldCombo
    <2>b. CASE toggles /\ p = debug
      BY <2>b, <1>g
    <2> QED
      BY <1>f, <1>i, <2>a, <2>b
  <1>j.  isOpen' # isOpen => debug \notin owed
    BY <1>f, <1>g
  <1>k.  GetDebugInput(controllers') = debug
    BY <1>c DEF debug
  <1> QED
    BY <1>c, <1>h, <1>i, <1>j, <1>k DEF OwedHoldCombo

LEMMA ShellStep ==
  ASSUME OwedHoldCombo, [ShellNext]_shellVars
  PROVE  OwedHoldCombo' /\ (isOpen' # isOpen => GetDebugInput(controllers') \notin owed)
  <1>a. CASE \E reading1, handheld, reading2 \in Reading :
                MainUpdate(reading1, handheld, reading2)
    BY <1>a, FrameTogglesFresh
  <1>b. CASE UNCHANGED <<controllers, owed, isOpen>>
    BY <1>b DEF OwedHoldCombo
  <1> QED
    BY <1>a, <1>b DEF ShellNext, shellVars, padVars, menuVars, DisableControllerUpdatingForMenu,
       LogInfo, ToastInfo, SetLoggingDisabled, ToggleLog, LogWindow

LEMMA ShellInitHolds == ShellInit => OwedHoldCombo
  BY DEF ShellInit, OwedHoldCombo, Pad, Player

\* main, HidInput: who toggled the menu or the log toggles neither again before the
\* combo is let go.
THEOREM ToggleNeedsReleaseHolds == ShellSpec => ToggleNeedsRelease
  <1>a. OwedHoldCombo /\ [ShellNext]_shellVars
          => OwedHoldCombo' /\ [isOpen' # isOpen => GetDebugInput(controllers') \notin owed]_shellVars
    BY ShellStep
  <1> QED
    BY <1>a, ShellInitHolds, PTL DEF ShellSpec, ToggleNeedsRelease

====
