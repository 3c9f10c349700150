---------------------------- MODULE SceneTransition ----------------------------
(* The scene transition flag of State.cpp: set when a map jump or a save       *)
(* reload starts, armed once the jump has been requested, and cleared by the   *)
(* camera hook when the new scene has a camera and a party leader.  While it   *)
(* is set UpdateAllRegisteredModules skips every module that does not ask to   *)
(* run during transitions.                                                     *)

VARIABLE sceneTransition   \* sceneTransitionActive and sceneTransitionCompletionArmed

SceneTransitionTypeOK == sceneTransition \in {"None", "Active", "Armed"}

SceneTransitionInit == sceneTransition = "None"

IsSceneTransitionActive == sceneTransition # "None"

\* execMapjump's hook begins, jumps and arms in one call.
MapjumpArms == sceneTransition' = "Armed"

\* ReloadSave begins and leaves the arming to the map jump that follows.
ReloadBegins ==
    sceneTransition' = IF IsSceneTransitionActive THEN sceneTransition ELSE "Active"

EndSceneTransition ==
    /\ sceneTransition = "Armed"
    /\ sceneTransition' = "None"

================================================================================
