---------------------------- MODULE MCAutoUiSessions ----------------------------
(* Two instances of AutoUi in one run.  An initial choice of session says what   *)
(* is exercised: two popups, or a cutscene beside one popup.                     *)
EXTENDS MCAutoUi

VARIABLE session

Skips == INSTANCE AutoUi WITH
    TutorialMenu <- mcOneMenu, FamilyOf <- mcOnlyStandard, OwnerOf <- mcOnlyOwner,
    SendersOf <- mcOnlySenders, Features <- mcSkips

MCSessionInit == MCInit /\ session \in {"Tutorials", "Skips"}

MCSessionNext ==
    /\ UNCHANGED session
    /\ \/ session = "Tutorials" /\ Next
       \/ session = "Skips" /\ Skips!Next

MCFairSpec ==
    MCSessionInit /\ [][MCSessionNext]_<<vars, session>> /\ Skips!Fairness

================================================================================
