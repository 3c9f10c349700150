--------------------------------- MODULE Scenes ---------------------------------
(* Two modules under one scene transition: what PlayerMovement measures and what  *)
(* ReactionControls was asked for belong to the scene they were taken in, and what *)
(* it was asked for in a transition to the scene that comes.                      *)
EXTENDS Warps, Reactions

ScenesSpec == WarpsSpec /\ ReactionsSpec

\* Neither the place the velocity is measured from nor a reaction that was asked for
\* before a scene began to go crosses from it into another.
NothingCrossesScenes == VelocityWithinScene /\ ForcedAsAsked

================================================================================
