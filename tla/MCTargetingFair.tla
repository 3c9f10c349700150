---------------------------- MODULE MCTargetingFair ----------------------------
(* The fair runs of Targeting.  A beat that every frame flips stands for the     *)
(* frames themselves, so that "frames keep coming" is about the steps taken, and *)
(* TLC need not decide of every state whether a frame would change it.           *)
EXTENDS MCTargeting

VARIABLE beat

fairVars == <<vars, beat>>

MCFairInit == MCFirstMap /\ beat = FALSE
MCFairNext ==
    \/ Frame /\ beat' = ~beat
    \/ (Window \/ Environment) /\ UNCHANGED beat

\* Among the frames there are always some that find the player in control and
\* walk it by one place.
FreeFrames ==
    []<><<beat' # beat /\ \E outcome \in Outcomes : Update("free", outcome, 1)>>_fairVars

MCFairSpec == MCFairInit /\ [][MCFairNext]_fairVars /\ FreeFrames /\ GameFairness

================================================================================
