------------------------------ MODULE MCTargeting ------------------------------
(* Small instances of Targeting for TLC: routes, by what they exercise.          *)
EXTENDS Targeting

mcOneMap == {1}
mcTwoMaps == {1, 2}
mcLine == -3 .. 4
mcShortLine == -1 .. 3
mcBareLine == 0 .. 3
mcButtons == {"A", "B"}

Step(type, map, place) ==
    [type |-> type, mapId |-> map, position |-> place, frames |-> 0, hold |-> 1,
     buttons |-> {}, stick |-> FALSE, buffered |-> FALSE, enabled |-> TRUE,
     intermediate |-> FALSE]
Position(place) == Step("Position", 1, place)
Delay(frames) == [Step("Delay", 1, 0) EXCEPT !.frames = frames]
Press(buttons, frames, hold) ==
    [Step("Action", 1, 0) EXCEPT !.buttons = buttons, !.frames = frames, !.hold = hold]
Buffered(buttons, hold) == [Press(buttons, 0, hold) EXCEPT !.buffered = TRUE]
Stick(hold) == [Press({}, 0, hold) EXCEPT !.stick = TRUE]
Toggle == Step("Toggle", 1, 0)
Shop == Step("ShopTas", 1, 0)
Marker(type, place) == Step(type, 1, place)
Initializer(type) == [Step(type, 1, 0) EXCEPT !.intermediate = TRUE]
Elsewhere(step) == [step EXCEPT !.mapId = 2]

mcWalks == {<<Position(1), Delay(2), Position(3), Position(0)>>,
            <<Position(2), Position(1), Elsewhere(Position(0)), Elsewhere(Delay(1))>>}
mcPresses == {<<Buffered({"A"}, 2), Buffered({"A", "B"}, 1), Position(1)>>,
              <<Position(1), Stick(2), Press({"B"}, 1, 1), Toggle>>}
mcHelpers == {<<Shop, Delay(1), Marker("MenuTas", 1), Position(2)>>,
              <<Initializer("TravelTas"), Position(1), Marker("TravelTas", 2), Shop>>}
mcRoutes == mcWalks \cup mcPresses \cup mcHelpers

mcEdited == {<<Position(0), Elsewhere(Toggle), Toggle, Position(0)>>,
             <<Toggle, Marker("MenuTas", 0), Position(0)>>}
mcAdjusted == {<<Buffered({"A"}, 1), Delay(2), Position(1)>>}
mcNewSteps == {Position(0)}
mcNoSteps == {}

mcShopDelay == {<<Shop, Delay(2), Position(1)>>}

mcNone == {}
mcOptions == {"Options"}
mcRuns == {"Jump", "Reload", "Warp"}
mcEdits == {"Edit", "Arming"}
mcAdjusts == {"Adjust"}
mcOrigin == {0}
mcTwoPlaces == {0, 1}
mcFields == {0, 2}

MCSpec == Init /\ [][Next]_vars

\* Sessions that start routes from their first step, on the first map.
MCSetting == mapId = 1 /\ options.fromSelection = options.warp
MCFirstMap == Init /\ MCSetting
MCRunSpec == MCFirstMap /\ [][Next]_vars

\* One step at a time is other than the route's file says, and by one change.
MCAdjustBound ==
    \E file \in mcAdjusted : \E i \in DOMAIN file :
        Targets \in {[file EXCEPT ![i] = step] : step \in Adjusted(file[i]) \cup {file[i]}}

\* Routes run while they are short; longer ones are only edited.
MCEditBound == Len(Targets) > 2 => ~timer.running /\ helper = IdleHelper

================================================================================
