------------------------------ MODULE CameraTools ------------------------------
(* src/xenomods/modules/CameraTools.cpp: the free camera, which takes the game's  *)
(* camera layer over, and the camera unlock, which leaves the layer alone and     *)
(* shows the scene from an orbit around a target that follows the player.         *)
(*                                                                                *)
(* Places are points of a line, one coordinate of the world: a level one, or the  *)
(* height, which the orbit treats in a way of its own.  A camera keeps only where *)
(* it is; what it looks at is kept where the code keeps it as a place, in the     *)
(* targets.  VisualCamState, where the orbit's camera is, is the target and the   *)
(* offset added up for the picture and read by nothing else.                      *)
(* HasNormalCamTarget is set and cleared with HasCameraState and is left out.     *)
EXTENDS Integers, SceneTransition

CONSTANTS
    MaxPlace,           \* bound: the world is 0 .. MaxPlace
    Strides,            \* how far a camera or the player moves in a frame
    NoPlayer

ASSUME CameraAssumption ==
    /\ MaxPlace \in Nat
    /\ Strides \subseteq Int
    /\ NoPlayer \notin Int

Place == 0 .. MaxPlace
Heights == -MaxPlace .. MaxPlace    \* bound: of the target over the player

VARIABLES
    axis,                       \* which coordinate the line is: it never changes
    freecamOn, cameraUnlockOn, relativeToPlayer,
    CamState,                   \* where the camera of the tools is
    HasCameraState, NormalCamTarget,
    VisualCamTarget, UnlockLastPlayerPosition,
    unlockOffset,               \* unlockYaw, -Pitch and -Distance: camera from target
    unlockTargetHeight,
    lastPlayerPos,
    menuOpen, secondPad,        \* Menu::IsOpen, and controller 2 is connected
    player,                     \* game: the leader's place, if there is a party
    layer,                      \* game: whose matrix the layer's cameras have
    anchor,                     \* history: the target from the player at activation,
                                \* and what it was raised by, or set to, since
    settled                     \* history: no height is set that no frame has shown

switches == <<freecamOn, cameraUnlockOn, relativeToPlayer>>
normalVars == <<CamState, HasCameraState, NormalCamTarget>>
orbitVars == <<VisualCamTarget, UnlockLastPlayerPosition, unlockOffset,
               unlockTargetHeight, anchor, settled>>
inputVars == <<menuOpen, secondPad>>
sceneVars == <<player, layer, sceneTransition>>
cameraVars == <<axis, switches, normalVars, orbitVars, lastPlayerPos, inputVars, sceneVars>>

CameraTypeOK ==
    /\ SceneTransitionTypeOK
    /\ freecamOn \in BOOLEAN /\ cameraUnlockOn \in BOOLEAN
    /\ relativeToPlayer \in BOOLEAN
    /\ CamState \in Place /\ HasCameraState \in BOOLEAN /\ NormalCamTarget \in Place
    /\ VisualCamTarget \in Int
    /\ UnlockLastPlayerPosition \in Place
    /\ axis \in {"Level", "Up"}
    /\ unlockOffset \in Int /\ unlockTargetHeight \in Int
    /\ lastPlayerPos \in Place
    /\ menuOpen \in BOOLEAN /\ secondPad \in BOOLEAN
    /\ player \in Place \cup {NoPlayer}
    /\ layer \in {"Normal", "Freecam"}
    /\ anchor \in Int /\ settled \in BOOLEAN

CameraInit ==
    /\ SceneTransitionInit
    /\ freecamOn = FALSE /\ cameraUnlockOn = FALSE
    /\ relativeToPlayer = FALSE
    /\ CamState = 0 /\ HasCameraState = FALSE /\ NormalCamTarget = 0
    /\ VisualCamTarget = 0 /\ UnlockLastPlayerPosition = 0
    /\ axis \in {"Level", "Up"}
    /\ unlockOffset = 1 /\ unlockTargetHeight = 1
    /\ lastPlayerPos = 0
    /\ menuOpen = FALSE /\ secondPad = FALSE
    /\ player = NoPlayer
    /\ layer = "Normal"
    /\ anchor = (IF axis = "Up" THEN unlockTargetHeight ELSE 0)
    /\ settled = (axis = "Level")

\* PlayerMovement::GetPartyPosition has an answer.
PartyKnown == player # NoPlayer /\ ~IsSceneTransitionActive

-------------------------------------------------------------------------------
(* The engine's camera updates.  place and target are what the scene camera     *)
(* holds once the engine has moved it.                                          *)

\* PilotCameraLayers.
PilotCameraLayers(place, target) ==
    /\ layer' = IF freecamOn THEN "Freecam" ELSE "Normal"
    /\ IF cameraUnlockOn
       THEN /\ CamState' = IF freecamOn THEN CamState ELSE place
            /\ NormalCamTarget' = target
            /\ HasCameraState' = TRUE
       ELSE UNCHANGED normalVars
    /\ UNCHANGED <<switches, orbitVars, lastPlayerPos, inputVars, player, sceneTransition>>

\* CopyCurrentCameraState, which also sees a transition end.
CopyCurrentCameraState(place, target) ==
    /\ IF ~freecamOn /\ ~cameraUnlockOn
       THEN CamState' = place /\ NormalCamTarget' = target /\ HasCameraState' = TRUE
       ELSE UNCHANGED normalVars
    /\ IF sceneTransition = "Armed" /\ player # NoPlayer
       THEN EndSceneTransition
       ELSE UNCHANGED sceneTransition
    /\ UNCHANGED <<switches, orbitVars, lastPlayerPos, inputVars, player, layer>>

-------------------------------------------------------------------------------
(* CameraTools::Update. *)

\* Controller 2, if there is one, turns the orbit and raises or lowers its target.
OrbitTurned ==
    /\ unlockOffset' \in {unlockOffset} \cup (IF secondPad THEN Strides ELSE {})
    /\ \E raised \in {0} \cup (IF secondPad /\ axis = "Up" THEN Strides ELSE {}) :
          /\ unlockTargetHeight' = unlockTargetHeight + raised
          /\ raised # 0 => unlockTargetHeight' \in Heights
          /\ anchor' = anchor + raised

\* Where the target is once the player has moved on: carried along by the way the
\* player went, but in height put over the player anew.
TargetCarried ==
    IF axis = "Level" THEN VisualCamTarget + (player - UnlockLastPlayerPosition)
    ELSE player + unlockTargetHeight'

\* Mutant: the place the player was last is the one at activation.
OrbitShownFromStart ==
    /\ VisualCamTarget' = TargetCarried
    /\ UNCHANGED UnlockLastPlayerPosition
    /\ settled' = TRUE

OrbitShown ==
    /\ VisualCamTarget' = TargetCarried
    /\ UnlockLastPlayerPosition' = player
    /\ settled' = TRUE

UpdateCameraUnlock == IF PartyKnown THEN OrbitTurned /\ OrbitShown ELSE UNCHANGED orbitVars

\* With one controller the free camera listens only while the menu is open.
FreecamListens == secondPad \/ menuOpen

Keys == {"None", "Toggle", "Teleport"}

\* The key pressed this frame: FREECAM_TOGGLE and FREECAM_TELEPORT are strict
\* combinations, of which one at most goes down.
FreecamAfter(key) == IF key = "Toggle" THEN ~freecamOn ELSE freecamOn

\* How far a camera that is relative to the player is taken along: by what the
\* player has moved since the last frame of the free camera, whenever that was.
RelativePlayerDelta ==
    IF relativeToPlayer /\ PartyKnown THEN player - lastPlayerPos ELSE 0

UpdateFreecam(key) ==
    /\ freecamOn' = FreecamAfter(key)
    /\ IF freecamOn'
       THEN /\ \E move \in Strides : CamState' = CamState + move + RelativePlayerDelta
            /\ CamState' \in Place
            /\ lastPlayerPos' = IF PartyKnown THEN player ELSE 0
            /\ player' = IF key = "Teleport" /\ PartyKnown THEN CamState' ELSE player
       ELSE UNCHANGED <<CamState, lastPlayerPos, player>>
    /\ UNCHANGED <<cameraUnlockOn, relativeToPlayer, HasCameraState, NormalCamTarget,
                   orbitVars>>

CameraUpdate(key) ==
    /\ ~IsSceneTransitionActive
    /\ IF cameraUnlockOn
       THEN /\ UpdateCameraUnlock
            /\ UNCHANGED <<switches, normalVars, lastPlayerPos, player>>
       ELSE /\ FreecamListens
            /\ UpdateFreecam(key)
    /\ UNCHANGED <<inputVars, layer, sceneTransition>>

CameraOnSceneTransition == HasCameraState' = FALSE

-------------------------------------------------------------------------------
(* CameraTools::MenuSection. *)

ToggleFreecam ==
    /\ freecamOn' = ~freecamOn
    /\ cameraUnlockOn' = (cameraUnlockOn /\ freecamOn)
    /\ UNCHANGED <<relativeToPlayer, normalVars, orbitVars, lastPlayerPos, inputVars,
                   sceneVars>>

\* The orbit starts from the camera and the target the tools know last, if any.
\* A camera that is on its target leaves the orbit and its height as they were set
\* before; it may be on it in this coordinate and not in the others.
InitializeCameraUnlockFromState ==
    IF PartyKnown /\ HasCameraState
    THEN /\ VisualCamTarget' = NormalCamTarget
         /\ UnlockLastPlayerPosition' = player
         /\ \/ /\ CamState = NormalCamTarget
               /\ UNCHANGED <<unlockOffset, unlockTargetHeight>>
               /\ settled' = (axis = "Level")
               /\ anchor' = IF axis = "Up" THEN unlockTargetHeight
                            ELSE NormalCamTarget - player
            \/ /\ unlockOffset' = CamState - NormalCamTarget
               /\ unlockTargetHeight' =
                     IF axis = "Up" THEN NormalCamTarget - player ELSE unlockTargetHeight
               /\ settled' = TRUE
               /\ anchor' = NormalCamTarget - player
    ELSE UNCHANGED orbitVars

ToggleCameraUnlock ==
    /\ cameraUnlockOn' = ~cameraUnlockOn
    /\ IF cameraUnlockOn
       THEN UNCHANGED <<freecamOn, orbitVars>>
       ELSE freecamOn' = FALSE /\ InitializeCameraUnlockFromState
    /\ UNCHANGED <<relativeToPlayer, normalVars, lastPlayerPos, inputVars, sceneVars>>

\* The four fields of the orbit, of which the last sets the height of the target.
DragOrbit ==
    /\ cameraUnlockOn
    /\ \/ unlockOffset' \in Strides /\ UNCHANGED <<unlockTargetHeight, anchor, settled>>
       \/ /\ axis = "Up"
          /\ unlockTargetHeight' \in Heights
          /\ anchor' = unlockTargetHeight'
          /\ settled' = FALSE
          /\ UNCHANGED unlockOffset
    /\ UNCHANGED <<switches, normalVars, VisualCamTarget,
                   UnlockLastPlayerPosition, lastPlayerPos, inputVars, sceneVars>>

\* Editing the place, the rotation or the field of view takes the camera over.
DragCamera ==
    /\ CamState' \in Place
    /\ freecamOn' = TRUE
    /\ UNCHANGED <<cameraUnlockOn, relativeToPlayer, HasCameraState, NormalCamTarget,
                   orbitVars, lastPlayerPos, inputVars, sceneVars>>

ResetPosition ==
    /\ CamState' = 0
    /\ UNCHANGED <<switches, HasCameraState, NormalCamTarget, orbitVars, lastPlayerPos,
                   inputVars, sceneVars>>

ToggleRelative ==
    /\ freecamOn
    /\ relativeToPlayer' = ~relativeToPlayer
    /\ UNCHANGED <<freecamOn, cameraUnlockOn, normalVars, orbitVars, lastPlayerPos,
                   inputVars, sceneVars>>

TeleportPlayerToCamera ==
    /\ PartyKnown
    /\ player' = CamState
    /\ UNCHANGED <<switches, normalVars, orbitVars, lastPlayerPos, inputVars, layer,
                   sceneTransition>>

CameraMenuSection ==
    /\ menuOpen
    /\ \/ ToggleFreecam
       \/ ToggleCameraUnlock
       \/ DragOrbit
       \/ DragCamera
       \/ ResetPosition
       \/ ToggleRelative
       \/ TeleportPlayerToCamera

-------------------------------------------------------------------------------
(* The rest of the program and the game. *)

ToggleMenu ==
    /\ menuOpen' = ~menuOpen
    /\ UNCHANGED <<switches, normalVars, orbitVars, lastPlayerPos, secondPad, sceneVars>>

\* HidInput::Poll of controller 2.
SecondPadChanges ==
    /\ secondPad' = ~secondPad
    /\ UNCHANGED <<switches, normalVars, orbitVars, lastPlayerPos, menuOpen, sceneVars>>

PlayerMoves ==
    /\ IF player = NoPlayer THEN player' \in Place
       ELSE \/ player' = NoPlayer
            \/ \E stride \in Strides : player' = player + stride /\ player' \in Place
    /\ UNCHANGED <<switches, normalVars, orbitVars, lastPlayerPos, inputVars, layer,
                   sceneTransition>>

\* A map jump.
Mapjump ==
    /\ ~IsSceneTransitionActive
    /\ MapjumpArms
    /\ CameraOnSceneTransition
    /\ player' \in {player, NoPlayer}
    /\ UNCHANGED <<switches, CamState, NormalCamTarget, orbitVars, lastPlayerPos,
                   inputVars, layer>>

EngineCameras ==
    \E place, target \in Place :
        PilotCameraLayers(place, target) \/ CopyCurrentCameraState(place, target)

CameraNext ==
    /\ UNCHANGED axis
    /\ \/ EngineCameras
       \/ \E key \in Keys : CameraUpdate(key)
       \/ CameraMenuSection
       \/ ToggleMenu
       \/ SecondPadChanges
       \/ PlayerMoves
       \/ Mapjump

CameraSpec == CameraInit /\ [][CameraNext]_cameraVars

-------------------------------------------------------------------------------
\* Seen from the player, the target of the orbit stays where it was when the unlock
\* was activated, and in height where controller 2 or its field put it since, or,
\* when the camera was on its target at the activation, where it had been put
\* before: whatever the player walks or is teleported, whichever frames go by
\* without a party or in a transition, and however the unlock and the free camera
\* were switched, no displacement is lost or counted twice.  A height the field
\* has set, or an earlier orbit, shows from the next frame with a party.
OrbitFollowsPlayer ==
    settled => VisualCamTarget - UnlockLastPlayerPosition = anchor

================================================================================
