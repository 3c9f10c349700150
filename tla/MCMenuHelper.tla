------------------------------ MODULE MCMenuHelper ------------------------------
(* Small instances of MenuHelper for TLC. *)
EXTENDS MenuHelper

\* One ordinary button, or one and an L/R button of the amount widget.
mcOneBit == {"A"}
mcAmountBits == {"A", "L"}
mcL == {"L"}
mcNone == {}
mcRelayTypes == {2}
mcHandles == {1}
mcObjects == {1}
mcObjectOf == [layer \in Layer |-> 1]
mcPadWords == {{}, {"A"}}
mcNeutral == {{}}
mcEnabled == {{"A"}}
mcPairs == Layer \X {1}

mcA == UiPadAction({"A"}, 1)
mcLPress == UiPadAction({"L"}, 1)

Stored(name, kind, actions) ==
    [name |-> name, kind |-> kind, actions |-> actions, lastPlayback |-> <<>>]

\* A repeated input, the case the neutral frames are for.
mcShopFile == {<<Stored("r", "Shop", <<mcA, mcA>>)>>}
mcMenusFile == {<<Stored("r", "Menu", <<mcA, mcA>>)>>,
                <<Stored("r", "Travel", <<mcA, mcA>>)>>}

mcShop == {"Shop"}
mcMenu == {"Menu"}
mcShopMenu == {"Shop", "Menu"}
mcMenuTravel == {"Menu", "Travel"}
mcNames == {"r"}

mcShopFeatures == {"SceneTransition", "Targeting", "Window"}
mcAuxFeatures == {"AuxCore", "Window"}
mcAuxTargeting == {"AuxCore", "Targeting"}
mcTwoNames == {"r", "s"}
mcNoFile == {<<>>}
mcAuxFile == {<<Stored("r", "Shop", <<mcLPress, mcA>>)>>}
mcSandboxFeatures == {"BladeBond", "Sandbox", "SceneTransition", "Window"}
mcRouteFeatures == {"SceneTransition", "Targeting"}
mcWindow == {"Window"}
mcTwoShops == {<<Stored("r", "Shop", <<mcA>>), Stored("s", "Shop", <<mcA, mcA>>)>>}
mcAmountEnabled == {{"A"}, {"L"}}

================================================================================
