-------------------------- MODULE MCTargetingSessions --------------------------
(* Three instances of Targeting in one run.  An initial choice of session says   *)
(* what is exercised: routes walked over two maps, a route that is edited        *)
(* between and during short runs, or one whose steps change while they act.      *)
EXTENDS MCTargeting

VARIABLE session

Walks == INSTANCE Targeting WITH
    Routes <- mcRoutes, NewSteps <- mcNoSteps, MaxStride <- 2, Features <- mcRuns
Edits == INSTANCE Targeting WITH
    Routes <- mcEdited, NewSteps <- mcNewSteps, MaxStride <- 1, Features <- mcEdits,
    Place <- mcOrigin
Adjusts == INSTANCE Targeting WITH
    Routes <- mcAdjusted, NewSteps <- mcNoSteps, MaxStride <- 1, Features <- mcAdjusts,
    Place <- mcTwoPlaces

MCSessionInit ==
    /\ session \in {"Walks", "Edits", "Adjusts"}
    /\ CASE session = "Walks" -> Walks!Init
         [] session = "Edits" -> Edits!Init /\ ~options.warp
         [] session = "Adjusts" -> Adjusts!Init /\ ~options.warp
    /\ MCSetting

MCSessionNext ==
    /\ UNCHANGED session
    /\ \/ session = "Walks" /\ Walks!Next
       \/ session = "Edits" /\ MCEditBound /\ Edits!Next
       \/ session = "Adjusts" /\ Adjusts!Next /\ MCAdjustBound'

MCSessionSpec == MCSessionInit /\ [][MCSessionNext]_<<vars, session>>

================================================================================
