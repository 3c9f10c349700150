--------------------------------- MODULE Warps ---------------------------------
(* src/xenomods/modules/PlayerMovement.cpp: the list of warps with its window and *)
(* its file, and the player's velocity, which is measured from one update to the  *)
(* next.                                                                          *)
(*                                                                                *)
(* A place is the map whose coordinates it has.  A warp's rotation, velocity and  *)
(* camera are set, moved and saved with its place and are left out.               *)
EXTENDS Integers, SequencesExt, SceneTransition

CONSTANTS
    Maps,
    Anywhere,           \* a warp's mapId 0: not locked to a map
    Origin,             \* the place of a warp that has never been given one
    NoParty,            \* no leader
    Missing,            \* warps.toml: not there, or not to be parsed
    MaxWarps            \* bound: warps the user makes

ASSUME WarpsAssumption ==
    /\ Anywhere \notin Maps
    /\ Origin \notin Maps
    /\ NoParty \notin Maps
    /\ MaxWarps \in Nat

WarpData == [mapId : Maps \cup {Anywhere}, position : Maps \cup {Origin}]

VARIABLES
    WarpList,                   \* Warps
    selectedWarpIndex,          \* 0 for none
    ShowAllWarps,
    warpsFile,                  \* warps.toml
    normalCameraRestorePending,
    previousPlayerPosition,     \* none, of this scene, or of a scene that was left
    map,                        \* game: the map's id
    party                       \* game: the leader's place

listVars == <<WarpList, selectedWarpIndex, ShowAllWarps, warpsFile>>
partyVars == <<map, party>>
warpVars == <<listVars, normalCameraRestorePending, previousPlayerPosition, partyVars,
              sceneTransition>>

WarpsTypeOK ==
    /\ SceneTransitionTypeOK
    /\ WarpList \in Seq(WarpData) /\ Len(WarpList) <= MaxWarps
    /\ selectedWarpIndex \in 0 .. MaxWarps
    /\ ShowAllWarps \in BOOLEAN
    /\ warpsFile = Missing \/ warpsFile \in Seq(WarpData)
    /\ normalCameraRestorePending \in BOOLEAN
    /\ previousPlayerPosition \in {"None", "Here", "Left"}
    /\ map \in Maps
    /\ party \in Maps \cup {Origin, NoParty}

WarpsInit ==
    /\ SceneTransitionInit
    /\ WarpList = <<>> /\ selectedWarpIndex = 0 /\ ShowAllWarps = FALSE
    /\ warpsFile \in {Missing, <<>>} \cup {<<[mapId |-> Anywhere, position |-> m]>> : m \in Maps}
    /\ normalCameraRestorePending = FALSE
    /\ previousPlayerPosition = "None"
    /\ map \in Maps
    /\ party = NoParty

\* GetPartyPosition and GetPartyRotation have an answer.
GetPartyPosition == party # NoParty /\ ~IsSceneTransitionActive

-------------------------------------------------------------------------------
(* The window, drawn in every frame, during transitions as well. *)

\* A warp is listed if Go To Warp may take it.
AllowedHere(warp) == warp.mapId \in {Anywhere, map}

visibleWarpIndices(warps) ==
    {i \in DOMAIN warps : ShowAllWarps \/ AllowedHere(warps[i])}

\* The selection is set right before it is used.
SelectedOf(warps, selected) ==
    LET visible == visibleWarpIndices(warps)
    IN  IF selected \in visible THEN selected
        ELSE IF visible = {} THEN 0
        ELSE CHOOSE i \in visible : \A j \in visible : i <= j

Selected == SelectedOf(WarpList, selectedWarpIndex)

\* LoadWarpsFromFile: an empty list in the file leaves the warps as they are.
Load ==
    /\ IF warpsFile \in {Missing, <<>>} THEN UNCHANGED WarpList
       ELSE WarpList' = warpsFile
    /\ selectedWarpIndex' = SelectedOf(WarpList', IF WarpList' = <<>> THEN 0 ELSE 1)
    /\ UNCHANGED <<ShowAllWarps, warpsFile, normalCameraRestorePending,
                   previousPlayerPosition, partyVars, sceneTransition>>

\* SaveWarpsToFile makes the file anew and then fills it; neither may succeed.
SaveWarpsToFile ==
    /\ warpsFile' \in {WarpList, warpsFile, Missing}
    /\ selectedWarpIndex' = Selected
    /\ UNCHANGED <<WarpList, ShowAllWarps, normalCameraRestorePending,
                   previousPlayerPosition, partyVars, sceneTransition>>

\* SetWarp takes the map's id in any case and the place if the party has one.
SetAt(position) ==
    [mapId |-> map, position |-> IF GetPartyPosition THEN party ELSE position]

NewWarp ==
    /\ Len(WarpList) < MaxWarps
    /\ WarpList' = Append(WarpList, SetAt(Origin))
    /\ selectedWarpIndex' = SelectedOf(WarpList', Len(WarpList'))
    /\ UNCHANGED <<ShowAllWarps, warpsFile, normalCameraRestorePending,
                   previousPlayerPosition, partyVars, sceneTransition>>

ToggleShowAll ==
    /\ ShowAllWarps' = ~ShowAllWarps
    /\ UNCHANGED <<WarpList, selectedWarpIndex, warpsFile, normalCameraRestorePending,
                   previousPlayerPosition, partyVars, sceneTransition>>

SelectWarp ==
    /\ selectedWarpIndex' \in visibleWarpIndices(WarpList)
    /\ UNCHANGED <<WarpList, ShowAllWarps, warpsFile, normalCameraRestorePending,
                   previousPlayerPosition, partyVars, sceneTransition>>

UpdateWarp ==
    /\ Selected # 0
    /\ WarpList' = [WarpList EXCEPT ![Selected] = SetAt(@.position)]
    /\ selectedWarpIndex' = Selected
    /\ UNCHANGED <<ShowAllWarps, warpsFile, normalCameraRestorePending,
                   previousPlayerPosition, partyVars, sceneTransition>>

DeleteWarp ==
    /\ Selected # 0
    /\ WarpList' = RemoveAt(WarpList, Selected)
    /\ selectedWarpIndex' = IF Selected > Len(WarpList') THEN Len(WarpList') ELSE Selected
    /\ UNCHANGED <<ShowAllWarps, warpsFile, normalCameraRestorePending,
                   previousPlayerPosition, partyVars, sceneTransition>>

\* GoToWarp: during a transition the party stays, and the camera is restored all
\* the same, unless the warp is of a file without one.
GoToWarp ==
    /\ Selected # 0
    /\ AllowedHere(WarpList[Selected])
    /\ party' = IF GetPartyPosition THEN WarpList[Selected].position ELSE party
    /\ normalCameraRestorePending' \in {normalCameraRestorePending, TRUE}
    /\ selectedWarpIndex' = Selected
    /\ UNCHANGED <<WarpList, ShowAllWarps, warpsFile, previousPlayerPosition, map,
                   sceneTransition>>

\* RestoreNormalCameraState.
CameraUpdates ==
    /\ normalCameraRestorePending
    /\ normalCameraRestorePending' = FALSE
    /\ UNCHANGED <<listVars, previousPlayerPosition, partyVars, sceneTransition>>

MenuWarps ==
    \/ Load
    \/ SaveWarpsToFile
    \/ NewWarp
    \/ ToggleShowAll
    \/ SelectWarp
    \/ UpdateWarp
    \/ DeleteWarp
    \/ GoToWarp

-------------------------------------------------------------------------------
(* The velocity: how far the player is from where the last update saw him.      *)

\* PlayerMovement::Update; hasPreviousPlayerPosition is whether there is one.
MeasureVelocity ==
    /\ ~IsSceneTransitionActive
    /\ previousPlayerPosition' = IF GetPartyPosition THEN "Here" ELSE "None"
    /\ UNCHANGED <<listVars, normalCameraRestorePending, partyVars, sceneTransition>>

\* Mutant: only a frame without a party forgets the place.
KeepsPlace == previousPlayerPosition' = previousPlayerPosition

\* OnSceneTransition.
ForgetPlace == previousPlayerPosition' = "None"

BeginSceneTransition ==
    IF IsSceneTransitionActive THEN UNCHANGED previousPlayerPosition ELSE ForgetPlace

\* A map jump takes the party away until the new scene has it.
Jump ==
    /\ MapjumpArms
    /\ BeginSceneTransition
    /\ party' = NoParty
    /\ UNCHANGED <<listVars, normalCameraRestorePending, map>>

\* ReloadSave; the jump follows from the title screen.
ReloadSave ==
    /\ ReloadBegins
    /\ BeginSceneTransition
    /\ UNCHANGED <<listVars, normalCameraRestorePending, partyVars>>

-------------------------------------------------------------------------------
(* The game. *)

\* The scene is replaced while the transition is on: what was measured is of
\* another one.
SceneLoads ==
    /\ sceneTransition = "Armed" /\ party = NoParty
    /\ map' \in Maps
    /\ party' = map'
    /\ previousPlayerPosition' =
          IF previousPlayerPosition = "None" THEN "None" ELSE "Left"
    /\ UNCHANGED <<listVars, normalCameraRestorePending, sceneTransition>>

\* The camera hook of CameraTools.
TransitionEnds ==
    /\ EndSceneTransition
    /\ party # NoParty
    /\ UNCHANGED <<listVars, normalCameraRestorePending, previousPlayerPosition, partyVars>>

\* Within a scene the leader comes and goes.
PartyComesOrGoes ==
    /\ ~IsSceneTransitionActive
    /\ party' = IF party = NoParty THEN map ELSE NoParty
    /\ UNCHANGED <<listVars, normalCameraRestorePending, previousPlayerPosition, map,
                   sceneTransition>>

WarpsGame ==
    \/ CameraUpdates
    \/ Jump
    \/ ReloadSave
    \/ SceneLoads
    \/ TransitionEnds
    \/ PartyComesOrGoes

WarpsNext ==
    \/ MenuWarps
    \/ MeasureVelocity
    \/ WarpsGame

WarpsSpec == WarpsInit /\ [][WarpsNext]_warpVars

-------------------------------------------------------------------------------
\* The velocity that is shown, and that a warp takes with it, is measured between
\* two places of one scene: no update after a map jump or a reload measures from
\* where the player stood before it.
VelocityWithinScene == previousPlayerPosition # "Left"

================================================================================
