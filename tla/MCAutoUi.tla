-------------------------------- MODULE MCAutoUi --------------------------------
(* Small instances of AutoUi for TLC. *)
EXTENDS AutoUi

CONSTANTS l1, l2, m1, m2

\* Object 1 owns the standard popup; 2 the battle popup or the confirmation.
mcBit == {"A"}
mcNone == {}
mcRelayTypes == {2}
mcHandles == {1}
mcObjects == {1, 2}
mcLayers == {l1, l2}
mcObjectOf == (l1 :> 1 @@ l2 :> 2)
mcTwoMenus == {m1, m2}
mcOneMenu == {m1}
mcFamilyOf == [menu \in TutorialMenu |-> IF menu = m1 THEN "Standard" ELSE "Battle"]
mcOwnerOf == [menu \in TutorialMenu |-> IF menu = m1 THEN 1 ELSE 2]
mcSendersOf == [menu \in TutorialMenu |-> {0, mcOwnerOf[menu]}]
mcOnlyStandard == [menu \in mcOneMenu |-> "Standard"]
mcOnlyOwner == [menu \in mcOneMenu |-> 1]
mcOnlySenders == [menu \in mcOneMenu |-> {0, 1}]
mcSkipSenders == {2}
mcPadWords == {{}, {"A"}}
mcA == {{"A"}}
mcTutorials == {"Trace", "SceneTransition"}
mcSkips == {"Cutscene", "SceneTransition"}
mcCutscene == {"Cutscene"}

\* What PendingIsOwned needs of the game; TutorialActionIsOwned needs nothing.
ASSUME InstanceAssumption == ConfirmationSetting

\* Buffering of the player's presses, which nothing here reads, is off.
MCInit == Init /\ ~Enabled

MCSpec == MCInit /\ [][Next]_vars

================================================================================
