------------------------------- MODULE Targeting -------------------------------
(* The Targeting route of xenomods: the list of steps, the player that walks    *)
(* from step to step once a frame, the actions it presses meanwhile, its timers *)
(* and the window that edits it.  The Menu Tool, the input buffer and the game  *)
(* appear by what the route sees of them.  Positions are points of a line: the  *)
(* code drops the height and only asks for the distance, the side and whether   *)
(* a target was crossed.                                                        *)
EXTENDS RouteSteps, SceneTransition

CONSTANTS
    Routes,           \* the route files a session may load
    NewSteps,         \* what the window's Add may insert, map and place aside
    FieldFrames,      \* what the window's delay and hold fields are set to
    MaxTargets,       \* bound: steps in a route
    MaxActions,       \* bound: actions in flight at once
    MaxFrames,        \* bound: frame counters stop here
    WarpDelay,        \* frames a route waits after Warp/start, 10 in the code
    MaxStride,        \* how far the player walks between two frames
    Features          \* what the environment does, a part of AllFeatures

AllFeatures == {"Options", "Edit", "Adjust", "Jump", "Reload", "Warp", "Arming"}

ASSUME TargetingAssumption ==
    /\ Place \subseteq Int /\ 0 \in Place
    /\ MaxTargets \in Nat /\ MaxActions \in Nat /\ MaxFrames \in Nat \ {0}
    /\ WarpDelay \in Nat /\ MaxStride \in Nat \ {0}
    /\ Features \subseteq AllFeatures

ASSUME RoutesAssumption ==
    /\ \A targets \in Routes : targets \in Seq(TargetData) /\ Len(targets) <= MaxTargets
    /\ NewSteps \subseteq TargetData /\ FieldFrames \subseteq Nat

VARIABLES
    Targets,             \* the route, a sequence of steps
    options,             \* StartFromSelection and WarpToStart
    route,               \* RouteActive, activeTargetIndex and what hangs on them
    activeActions,       \* the Actions in flight
    timer,               \* the script timer
    split,               \* the target-to-target timer
    pad,                 \* the route's overrides in the input buffer
    helper,              \* the Menu Tool's replay, as IsPlaybackPendingOrActive sees it
    AutoCutsceneSkips,   \* whether automatic cutscene skips are enabled
    mapId, player,       \* the game: the current map, the leader's position
    ghost                \* what the properties remember of the run

routeVars == <<Targets, options, route, activeActions, timer, split>>
vars == <<Targets, options, route, activeActions, timer, split, pad, helper,
          AutoCutsceneSkips, mapId, player, ghost, sceneTransition>>

--------------------------------------------------------------------------------
(* The state's records.                                                         *)

NoApproach == [index |-> 0, delta |-> 0]

StoppedRoute == [active |-> FALSE, at |-> 0, waiting |-> FALSE, startDelay |-> 0,
                 delayAt |-> 0, delayLeft |-> 0, approach |-> NoApproach,
                 menuTas |-> FALSE]

NoPad == [leftStick |-> 0, held |-> {}, stick |-> FALSE, buffered |-> {}]

IdleHelper == [state |-> "Idle", kind |-> "Shop"]
HelperStates == [state : {"Idle", "ArmedPlayback", "Playing"}, kind : {"Shop", "Menu", "Travel"}]

\* entry: where the route joined this map; done: the steps it has performed
\* since; disturbed: since it joined, the timer was set back, or the map's steps
\* changed behind it; served, due: frames it has stood at the current Delay, and
\* that the Delay asked for when it was entered; leg: the pair of targets this
\* frame timed; adjusted: the window has changed an Action in flight; unearned: an
\* Action was credited while a button it had asked for was not taken.
NoGhost == [entry |-> 0, done |-> <<>>, disturbed |-> FALSE, served |-> 0, due |-> 0,
            leg |-> <<0, 0>>, adjusted |-> FALSE, unearned |-> FALSE]

TargetsOK == Targets \in Seq(TargetData) /\ Len(Targets) <= MaxTargets

Index == 0 .. MaxTargets
Counter == 0 .. MaxFrames

ActiveAction == [index : Nat, delayLeft : Nat, holdLeft : Int, started : BOOLEAN,
                 requested : BOOLEAN, accepted : BOOLEAN, owed : SUBSET Button]

TypeOK ==
    /\ TargetsOK
    /\ options \in [fromSelection : BOOLEAN, warp : BOOLEAN]
    /\ route.at \in Index /\ route.delayAt \in Index
    /\ route.startDelay \in Nat /\ route.delayLeft \in Nat
    /\ {route.active, route.waiting, route.menuTas} \subseteq BOOLEAN
    /\ route.approach \in [index : Index, delta : Int]
    /\ activeActions \in Seq(ActiveAction)
    /\ timer \in [running : BOOLEAN, moved : BOOLEAN, frames : Counter, best : Counter]
    /\ split \in [running : BOOLEAN, origin : Index, frames : Counter]
    /\ pad \in [leftStick : {-1, 0, 1}, held : SUBSET Button, stick : BOOLEAN,
                buffered : SUBSET Button]
    /\ helper \in HelperStates
    /\ AutoCutsceneSkips \in BOOLEAN
    /\ mapId \in Map /\ player \in Place
    /\ SceneTransitionTypeOK

--------------------------------------------------------------------------------
(* The route's order.                                                           *)

FindFirstTargetForMap(map) == FirstOf(OnMap(Targets, map))

\* Mutant: the next step of any map.
NextOnAnyMap(current, map) == FirstOf({i \in DOMAIN Targets : i > current})

FindNextTargetForMap(current, map) ==
    FirstOf({i \in OnMap(Targets, map) : i > current})
FindNextMovementTargetForMap(current, map) ==
    FirstOf({i \in OnMap(Targets, map) : i > current /\ IsMovementTarget(Targets[i])})

Tick(count) == IF count < MaxFrames THEN count + 1 ELSE count
AtLeast(low, n) == IF n < low THEN low ELSE n

--------------------------------------------------------------------------------
(* A handler works on a copy of the state, the world; walk says whether its     *)
(* loop over the steps goes on, stopped at a step or returned.                  *)

World == [route |-> route, actions |-> activeActions, timer |-> timer,
          split |-> split, pad |-> pad, helper |-> helper,
          skips |-> AutoCutsceneSkips, ghost |-> ghost, walk |-> "on"]

Becomes(w) ==
    /\ route' = w.route /\ activeActions' = w.actions /\ timer' = w.timer
    /\ split' = w.split /\ pad' = w.pad /\ helper' = w.helper
    /\ AutoCutsceneSkips' = w.skips /\ ghost' = w.ghost

ResetTargetApproach(w) == [w EXCEPT !.route.approach = NoApproach]
LeftStickOff(w) == [w EXCEPT !.pad.leftStick = 0]

\* Mutant: the stick keeps its last direction.
ApproachOff(w) == ResetTargetApproach(w)

StandStill(w) == LeftStickOff(ResetTargetApproach(w))
Return(w) == [w EXCEPT !.walk = "returned"]

\* Mutant: what was asked of the input buffer stays there.
ClearKeepsBuffered(w) ==
    [w EXCEPT !.actions = <<>>, !.pad.held = {}, !.pad.stick = FALSE, !.ghost.adjusted = FALSE]

ClearActiveActions(w) ==
    [w EXCEPT !.actions = <<>>, !.pad.held = {}, !.pad.stick = FALSE, !.pad.buffered = {},
              !.ghost.adjusted = FALSE]

\* MenuHelper::IsPlaybackPendingOrActive and IsMenuPlaybackPendingOrActive.
PlaybackPending(w) == w.helper.state # "Idle"
MenuPlaybackPending(w) == PlaybackPending(w) /\ w.helper.kind # "Shop"

MarkRouteMovementComplete(w) ==
    LeftStickOff([w EXCEPT !.route = [StoppedRoute EXCEPT !.menuTas = w.route.menuTas],
                           !.timer.moved = TRUE,
                           !.split.running = FALSE])

\* Mutant: actions in flight do not count.
BusyWithReplay(w) == w.route.menuTas \/ PlaybackPending(w)

StillBusy(w) == w.actions # <<>> \/ w.route.menuTas \/ PlaybackPending(w)

TryCompleteScriptTimer(w) ==
    IF ~w.timer.running \/ ~w.timer.moved \/ StillBusy(w) THEN w
    ELSE [w EXCEPT !.timer.running = FALSE,
                   !.timer.best = IF @ = 0 \/ (0 < w.timer.frames /\ w.timer.frames < @)
                                  THEN w.timer.frames ELSE @]

\* StopRoute cancels the Menu Tool's replay, whoever armed it.
StopRoute(w) ==
    LET stopped == ClearActiveActions([w EXCEPT !.helper = IdleHelper,
                                                !.route = StoppedRoute,
                                                !.timer.running = FALSE,
                                                !.timer.moved = FALSE,
                                                !.split.running = FALSE,
                                                !.split.origin = 0,
                                                !.ghost = [NoGhost EXCEPT !.unearned = w.ghost.unearned]])
    IN  LeftStickOff(stopped)

--------------------------------------------------------------------------------
(* Actions in flight.                                                           *)

QueueAction(w, i) ==
    [w EXCEPT !.actions = Append(@, [index |-> i,
                                     delayLeft |-> Targets[i].frames,
                                     holdLeft |-> AtLeast(1, Targets[i].hold),
                                     started |-> FALSE, requested |-> FALSE,
                                     accepted |-> FALSE, owed |-> {}])]

BufferedButtons(target) == ~target.stick /\ target.buffered

\* One action's share of a frame: what becomes of it, what it holds, what it
\* asks the input buffer for.  pending is read before any action runs; delayLeft
\* and holdLeft are the Action's own, what it presses is read from the step.
RunAction(a, controlFree, pending) ==
    LET target == Targets[a.index]
        idle == [run |-> a, held |-> {}, asked |-> {}, stick |-> FALSE]
        begun == [a EXCEPT !.started = TRUE]
        Held(run) == [idle EXCEPT !.run = [run EXCEPT !.holdLeft = @ - 1],
                                  !.held = target.buttons]
        credited == [begun EXCEPT !.accepted = TRUE, !.holdLeft = @ - 1]
    IN  IF ~a.started /\ ~controlFree /\ ~BufferedButtons(target) THEN idle
        ELSE IF ~a.started /\ a.delayLeft > 0 THEN
             [idle EXCEPT !.run.delayLeft = @ - 1]
        ELSE IF target.stick THEN
             [idle EXCEPT !.run = [begun EXCEPT !.holdLeft = @ - 1], !.stick = TRUE]
        ELSE IF target.buffered /\ ~a.accepted THEN
             IF ~a.requested THEN
                  [idle EXCEPT !.run = [begun EXCEPT !.requested = TRUE,
                                                     !.owed = target.buttons],
                               !.asked = target.buttons]
             ELSE IF pending \cap target.buttons # {} THEN [idle EXCEPT !.run = begun]
             ELSE IF credited.holdLeft = 0 THEN [idle EXCEPT !.run = credited]
             ELSE Held(credited)
        ELSE Held(begun)

UpdateActiveAction(w, controlFree) ==
    LET ran == [k \in DOMAIN w.actions |->
                    RunAction(w.actions[k], controlFree, w.pad.buffered)]
        kept == InOrder({k \in DOMAIN ran : ran[k].run.holdLeft > 0}, Len(ran))
        left == [n \in DOMAIN kept |-> ran[kept[n]].run]
        asked == UNION {ran[k].asked : k \in DOMAIN ran}
    IN  [w EXCEPT !.actions = left,
                  !.pad.held = UNION {ran[k].held : k \in DOMAIN ran},
                  !.pad.stick = \E k \in DOMAIN ran : ran[k].stick,
                  !.pad.buffered = IF left = <<>> THEN {} ELSE @ \cup asked,
                  !.ghost.adjusted = @ /\ left # <<>>,
                  !.ghost.unearned = @ \/ \E k \in DOMAIN ran :
                      /\ ran[k].run.accepted /\ ~w.actions[k].accepted
                      /\ w.actions[k].owed \cap Targets[w.actions[k].index].buttons # {}]

--------------------------------------------------------------------------------
(* The steps.  outcome is what the Menu Tool makes of the step's recording:     *)
(* missing, armed, or begun at once because its menu is already open.           *)

Outcomes == {"missing", "armed", "begun"}

KindOf(type) ==
    CASE type = "ShopTas" -> "Shop" [] type = "MenuTas" -> "Menu" [] type = "TravelTas" -> "Travel"

ArmPlayback(w, i, outcome) ==
    IF outcome = "missing" THEN w
    ELSE [w EXCEPT !.helper = [kind |-> KindOf(Targets[i].type),
                               state |-> IF outcome = "armed" THEN "ArmedPlayback"
                                                              ELSE "Playing"]]

\* On to the next step of the map; after the last one the movement is complete.
AfterStep(w, i) ==
    LET next == FindNextTargetForMap(i, mapId)
        moved == [w EXCEPT !.route.at = next, !.ghost.done = Append(@, i)]
    IN  IF next = 0 THEN Return(MarkRouteMovementComplete(moved)) ELSE moved

ConsumeDelay(w, i) ==
    LET entered == IF w.route.delayAt = i THEN w
                   ELSE [w EXCEPT !.route.delayAt = i,
                                  !.route.delayLeft = Targets[i].frames,
                                  !.ghost.due = Targets[i].frames]
        still == StandStill(entered)
    IN  IF still.route.delayLeft > 0
        THEN Return([still EXCEPT !.route.delayLeft = @ - 1])
        ELSE AfterStep([still EXCEPT !.route.delayAt = 0], i)

ConsumeToggle(w, i) == AfterStep([w EXCEPT !.skips = Targets[i].enabled], i)

\* ArmShopPlayback's result is ignored.
ConsumeShopTas(w, i, outcome) ==
    IF PlaybackPending(w) THEN Return(StandStill(w))
    ELSE AfterStep(ArmPlayback(StandStill(w), i, outcome), i)

ConsumeIntermediateMenuTas(w, i, outcome) ==
    IF PlaybackPending(w) THEN Return(StandStill(w))
    ELSE IF outcome = "armed"
         THEN AfterStep(ArmPlayback(StandStill(w), i, outcome), i)
    ELSE Return(StopRoute(w))

CompleteTargetSplit(w, i) ==
    LET begin == [running |-> FindNextMovementTargetForMap(i, mapId) # 0,
                  origin |-> i, frames |-> 0]
    IN  IF w.split.origin = 0 THEN [w EXCEPT !.split = begin]
        ELSE IF ~w.split.running THEN w
        ELSE [w EXCEPT !.split = begin, !.ghost.leg = <<w.split.origin, i>>]

Delta(i) == Targets[i].position - player

\* Mutant: a target is reached by standing on it only.
StandsOn(w, i) == Delta(i) = 0

Reached(w, i) ==
    \/ Delta(i) = 0
    \/ w.route.approach.index = i /\ w.route.approach.delta * Delta(i) <= 0

ReachPosition(w, i) ==
    IF ~Reached(w, i) THEN [w EXCEPT !.walk = "stopped"]
    ELSE LET next == AfterStep(ResetTargetApproach(CompleteTargetSplit(w, i)), i)
         IN  IF next.walk = "returned" THEN TryCompleteScriptTimer(next) ELSE next

\* The helper that consumes special steps forgets the approach to a marker
\* before the distance is taken: a marker is reached by standing on it.
ReachMenuTasMarker(w, i, walking, outcome) ==
    LET still == StandStill(w)
        split1 == CompleteTargetSplit(still, i)
        started == AfterStep([ArmPlayback(split1, i, outcome)
                                  EXCEPT !.route.menuTas = TRUE], i)
    IN  IF ~walking \/ ~Reached(still, i) THEN [still EXCEPT !.walk = "stopped"]
        ELSE IF outcome = "armed" THEN Return(started)
        ELSE Return(StopRoute(split1))

\* One turn of the loops over the steps: Kinds are the steps this loop consumes.
VisitStep(w, i, kinds, outcome) ==
    LET target == Targets[i]
    IN  IF w.walk # "on" \/ w.route.at # i THEN w
        ELSE IF target.type \notin kinds THEN [w EXCEPT !.walk = "stopped"]
        ELSE CASE target.type = "Delay" -> ConsumeDelay(w, i)
               [] target.type = "Action" -> AfterStep(QueueAction(w, i), i)
               [] target.type = "Toggle" -> ConsumeToggle(w, i)
               [] target.type = "ShopTas" -> ConsumeShopTas(w, i, outcome)
               [] target.type = "Position" -> ReachPosition(w, i)
               [] IsMenuTasStep(target) ->
                      IF target.intermediate
                      THEN ConsumeIntermediateMenuTas(w, i, outcome)
                      ELSE ReachMenuTasMarker(w, i, "Position" \in kinds, outcome)

ConsumeSteps(w, kinds, outcome) ==
    LET walked[i \in 0 .. Len(Targets)] ==
            IF i = 0 THEN w ELSE VisitStep(walked[i - 1], i, kinds, outcome)
    IN  walked[Len(Targets)]

--------------------------------------------------------------------------------
(* The frame.  situation is what the module finds of the game: the leader may   *)
(* be absent or not under the player's control, its coordinates unusable, or    *)
(* the camera vertical; otherwise the route is free to act.                     *)

Situations == {"free", "locked", "absent", "nonfinite", "vertical"}
ControlFree(situation) == situation \notin {"locked", "absent"}

Direction(delta) == IF delta > 0 THEN 1 ELSE -1

SteerTowards(w, situation) ==
    LET delta == Delta(w.route.at)
        tracked == [w EXCEPT !.route.approach = [index |-> w.route.at, delta |-> delta]]
    IN  IF situation = "vertical" THEN LeftStickOff(tracked)
        ELSE [tracked EXCEPT !.pad.leftStick = Direction(delta)]

WalkRoute(w, outcome, situation) ==
    LET walked == ConsumeSteps(w, TargetType, outcome)
    IN  IF walked.walk = "returned" THEN walked ELSE SteerTowards(walked, situation)

AfterDelays(w, outcome, situation) ==
    IF w.walk = "returned" THEN w
    ELSE IF situation = "nonfinite" THEN LeftStickOff(w)
    ELSE IF w.route.startDelay > 0
         THEN StandStill([w EXCEPT !.route.startDelay = @ - 1])
    ELSE WalkRoute([w EXCEPT !.walk = "on"], outcome, situation)

\* The active index is repaired to the map's first step when it fits no step of it.
OnCurrentMap(w) == w.route.at \in OnMap(Targets, mapId)
RepairIndex(w, map) ==
    LET first == FindFirstTargetForMap(map)
    IN  [w EXCEPT !.route.at = first, !.ghost.entry = first, !.ghost.done = <<>>,
                  !.ghost.disturbed = FALSE]

UpdateRoute(w, outcome, situation) ==
    LET here == IF OnCurrentMap(w) THEN w ELSE RepairIndex(w, mapId)
        ready == [here EXCEPT !.route.waiting = FALSE]
    IN  IF ~w.route.active THEN LeftStickOff(w)
        ELSE IF here.route.at = 0 THEN LeftStickOff(here)
        ELSE IF Targets[here.route.at].type = "ShopTas"
             THEN ConsumeSteps(here, TargetType \ {"Position"}, outcome)
        ELSE IF ~ControlFree(situation)
             THEN StandStill([here EXCEPT !.route.waiting = TRUE])
        ELSE AfterDelays(ConsumeSteps(ready, {"Delay"}, outcome), outcome, situation)

\* Frames the route has stood at the Delay it stands at: the one it entered it in,
\* which may be without control, and those with control since.
CountServed(w, situation) ==
    [w EXCEPT !.ghost.served =
        IF w.route.at = 0 \/ w.route.at # w.route.delayAt THEN 0
        ELSE IF route.delayAt # w.route.at THEN 1
        ELSE IF ControlFree(situation) THEN @ + 1 ELSE @]

\* Mutant: the marker's replay is never over.
MenuTasGoesOn(w) == w

MenuTasOver(w) == [w EXCEPT !.route.menuTas = FALSE]

UpdateFrame(situation, outcome) ==
    LET ticked == [World EXCEPT
                      !.ghost.leg = NoGhost.leg,
                      !.timer.frames = IF timer.running THEN Tick(@) ELSE @,
                      !.split.frames = IF split.running THEN Tick(@) ELSE @]
        acted == UpdateActiveAction(ticked, ControlFree(situation))
        going == TryCompleteScriptTimer(MenuTasOver(acted))
    IN  IF acted.route.menuTas /\ MenuPlaybackPending(acted) THEN StandStill(acted)
        ELSE UpdateRoute(going, outcome, situation)

\* A frame: the module's update, then the game walks the player where the left
\* stick points.
Update(situation, outcome, stride) ==
    /\ ~IsSceneTransitionActive
    /\ LET w == CountServed(UpdateFrame(situation, outcome), situation)
       IN  Becomes(w) /\ player' = player + w.pad.leftStick * stride
    /\ player' \in Place /\ Len(activeActions') <= MaxActions
    /\ UNCHANGED <<Targets, options, mapId, sceneTransition>>

--------------------------------------------------------------------------------
(* The window.                                                                  *)

StartRoute(w, selected) ==
    LET from == IF options.fromSelection THEN selected ELSE FindFirstTargetForMap(mapId)
        cleared == LeftStickOff(ClearActiveActions(
                      [w EXCEPT !.route = [StoppedRoute EXCEPT !.active = (from # 0),
                                                               !.at = from,
                                                               !.menuTas = w.route.menuTas]]))
        warpTo == FirstOf({i \in OnMap(Targets, mapId) : i >= from /\ Targets[i].type = "Position"})
    IN  IF options.fromSelection /\ selected \notin OnMap(Targets, mapId)
        THEN LeftStickOff([w EXCEPT !.route.active = FALSE, !.route.at = 0])
        ELSE IF from = 0 THEN cleared
        ELSE [cleared EXCEPT
                 !.timer.running = TRUE, !.timer.moved = FALSE, !.timer.frames = 0,
                 !.split = [running |-> FALSE, origin |-> 0, frames |-> 0],
                 !.route.startDelay = IF options.warp /\ warpTo # 0 THEN WarpDelay ELSE 0,
                 !.ghost = [NoGhost EXCEPT !.entry = from,
                                           !.unearned = w.ghost.unearned]]

WarpPlace(w) ==
    LET warpTo == FirstOf({i \in OnMap(Targets, mapId) :
                              i >= w.route.at /\ Targets[i].type = "Position"})
    IN  IF w.route.startDelay > 0 /\ ~IsSceneTransitionActive
        THEN Targets[warpTo].position ELSE player

\* The button reads Stop while the route or its timer runs, Start otherwise.
PressStart(selected) ==
    /\ ~route.active /\ ~timer.running
    /\ LET w == StartRoute(World, selected)
       IN  Becomes(w) /\ player' = WarpPlace(w)
    /\ UNCHANGED <<Targets, options, mapId, sceneTransition>>

PressStop ==
    /\ route.active \/ timer.running
    /\ Becomes(StopRoute(World))
    /\ UNCHANGED <<Targets, options, mapId, player, sceneTransition>>

ResetTimer ==
    /\ timer' = [timer EXCEPT !.frames = 0]
    /\ ghost' = [ghost EXCEPT !.disturbed = @ \/ timer.running]
    /\ UNCHANGED <<Targets, options, route, activeActions, split, pad, helper,
                   AutoCutsceneSkips, mapId, player, sceneTransition>>

ResetBest ==
    /\ timer' = [timer EXCEPT !.best = 0]
    /\ UNCHANGED <<Targets, options, route, activeActions, split, pad, helper,
                   AutoCutsceneSkips, mapId, player, ghost, sceneTransition>>

ToggleOption(option) ==
    /\ "Options" \in Features
    /\ options' = [options EXCEPT ![option] = ~@]
    /\ UNCHANGED <<Targets, route, activeActions, timer, split, pad, helper,
                   AutoCutsceneSkips, mapId, player, ghost, sceneTransition>>

\* Every structural edit stops the route; the stopped world has no index left.
EditTargets(targets) ==
    /\ "Edit" \in Features
    /\ Targets' = targets
    /\ Becomes(StopRoute(World))
    /\ UNCHANGED <<options, mapId, player, sceneTransition>>

Add(step, selected) ==
    /\ Len(Targets) < MaxTargets
    /\ LET placed == [step EXCEPT !.mapId = mapId,
                                  !.position = IF IsSceneTransitionActive THEN 0 ELSE player]
       IN  EditTargets(Inserted(Targets, placed, selected))

Delete(i) == EditTargets(RemoveAt(Targets, i))

Move(i, up) == EditTargets(MoveTargetWithinMap(Targets, i, up))

ToggleIntermediate(i) ==
    /\ IsMenuTasStep(Targets[i])
    /\ EditTargets([Targets EXCEPT ![i].intermediate = ~@])

\* "Update" and "Update marker" take the player's place without stopping the
\* route; a Target also moves to the current map, a marker keeps its own.
SetTarget(i) ==
    /\ "Edit" \in Features
    /\ IsMovementTarget(Targets[i])
    /\ Targets' = [Targets EXCEPT
          ![i].position = IF IsSceneTransitionActive THEN @ ELSE player,
          ![i].mapId = IF Targets[i].type = "Position" THEN mapId ELSE @]
    /\ ghost' = IF OnMap(Targets', mapId) = OnMap(Targets, mapId) THEN ghost
                ELSE [ghost EXCEPT !.entry = route.at, !.done = <<>>,
                                   !.disturbed = @ \/ ~route.active]
    /\ UNCHANGED <<options, route, activeActions, timer, split, pad, helper,
                   AutoCutsceneSkips, mapId, player, sceneTransition>>

\* The fields of a step the window changes in place, the route running or not: a
\* Delay that counts and an Action in flight have their frames, hold and requests
\* as they began, and their buttons and kind as they are now.
Adjusted(step) ==
    CASE step.type = "Delay" -> {[step EXCEPT !.frames = n] : n \in FieldFrames}
      [] step.type = "Toggle" -> {[step EXCEPT !.enabled = on] : on \in BOOLEAN}
      [] IsMovementTarget(step) -> {[step EXCEPT !.position = place] : place \in Place}
      [] step.type = "Action" ->
            {[step EXCEPT !.frames = n] : n \in FieldFrames}
            \cup {[step EXCEPT !.hold = n] : n \in FieldFrames \ {0}}
            \cup {[step EXCEPT !.stick = on, !.buffered = @ /\ ~on] : on \in BOOLEAN}
            \cup {[step EXCEPT !.buttons = (@ \ {button}) \cup ({button} \ @)] :
                     button \in {b \in Button : ~step.stick}}
            \cup {[step EXCEPT !.buffered = on] : on \in {b \in BOOLEAN : ~step.stick}}
      [] OTHER -> {}

Adjust(i) ==
    /\ "Adjust" \in Features
    /\ \E step \in Adjusted(Targets[i]) : Targets' = [Targets EXCEPT ![i] = step]
    /\ ghost' = [ghost EXCEPT !.adjusted = @ \/ \E k \in DOMAIN activeActions :
                                                  activeActions[k].index = i]
    /\ UNCHANGED <<options, route, activeActions, timer, split, pad, helper,
                   AutoCutsceneSkips, mapId, player, sceneTransition>>

WarpToTarget(i) ==
    /\ "Edit" \in Features
    /\ i \in OnMap(Targets, mapId) /\ Targets[i].type = "Position"
    /\ Becomes(StopRoute(World))
    /\ player' = IF IsSceneTransitionActive THEN player ELSE Targets[i].position
    /\ UNCHANGED <<Targets, options, mapId, sceneTransition>>

\* A route file that parses; one that does not leaves everything as it was.
LoadTargetsFromFile(targets) ==
    /\ "Edit" \in Features
    /\ Targets' = targets
    /\ LET stopped == StopRoute(World)
       IN  Becomes([stopped EXCEPT !.timer.frames = 0, !.timer.best = 0,
                                   !.split.frames = 0])
    /\ UNCHANGED <<options, mapId, player, sceneTransition>>

--------------------------------------------------------------------------------
(* Scene transitions, and the game.                                             *)

\* The Menu Tool keeps an armed shop or main menu replay, and a running one of
\* the main menu while the tutorial's blade bond is open.
HelperAcross(w, bond) ==
    IF \/ w.helper.state = "ArmedPlayback" /\ w.helper.kind # "Travel"
       \/ w.helper.state = "Playing" /\ w.helper.kind = "Menu" /\ bond
    THEN w.helper ELSE IdleHelper

\* Mutant: the Delay stays entered, its countdown does not.
ForgetCountdown(w) == [w EXCEPT !.route.delayLeft = 0]

ForgetDelay(w) == [w EXCEPT !.route.delayAt = 0, !.route.delayLeft = 0]

OnSceneTransition(w, bond) ==
    IF IsSceneTransitionActive THEN w
    ELSE StandStill([ForgetDelay(w) EXCEPT !.route.menuTas = FALSE,
                                           !.route.waiting = w.route.active,
                                           !.helper = HelperAcross(w, bond),
                                           !.ghost.served = 0])

\* Mutant: the split goes on from the last map's target.
RestartScriptTimer(w) ==
    IF w.timer.running THEN [w EXCEPT !.timer.frames = 0, !.ghost.disturbed = TRUE] ELSE w

RestartTimers(w) ==
    IF ~w.timer.running THEN w
    ELSE [w EXCEPT !.timer.frames = 0, !.ghost.disturbed = TRUE,
                   !.split = [origin |-> 0, frames |-> 0,
                              running |-> @.running /\ w.timer.moved]]

OnMapChange(w, map) ==
    LET reset == RestartTimers(w)
    IN  IF w.route.active /\ w.route.at \notin OnMap(Targets, map)
        THEN RepairIndex(reset, map) ELSE reset

MapJump(map, place, bond) ==
    /\ "Jump" \in Features
    /\ MapjumpArms
    /\ Becomes(OnMapChange(OnSceneTransition(World, bond), map))
    /\ mapId' = map /\ player' = place
    /\ UNCHANGED <<Targets, options>>

ReloadSave(bond) ==
    /\ "Reload" \in Features
    /\ ReloadBegins
    /\ Becomes(OnSceneTransition(World, bond))
    /\ UNCHANGED <<Targets, options, mapId, player>>

EndTransition ==
    /\ EndSceneTransition
    /\ UNCHANGED <<Targets, options, route, activeActions, timer, split, pad, helper,
                   AutoCutsceneSkips, mapId, player, ghost>>

\* A cutscene, another tool or the player's own hands move the leader.
PlayerMoves(place) ==
    /\ "Warp" \in Features /\ ~IsSceneTransitionActive
    /\ player' = place
    /\ UNCHANGED <<Targets, options, route, activeActions, timer, split, pad, helper,
                   AutoCutsceneSkips, mapId, ghost, sceneTransition>>

\* The game's pad relay takes a buffered press.
GameAccepts(button) ==
    /\ button \in pad.buffered
    /\ pad' = [pad EXCEPT !.buffered = @ \ {button}]
    /\ activeActions' = [k \in DOMAIN activeActions |->
                           [activeActions[k] EXCEPT !.owed = @ \ {button}]]
    /\ UNCHANGED <<Targets, options, route, timer, split, helper, AutoCutsceneSkips,
                   mapId, player, ghost, sceneTransition>>

HelperBecomes(now) ==
    /\ helper' = now
    /\ UNCHANGED <<Targets, options, route, activeActions, timer, split, pad,
                   AutoCutsceneSkips, mapId, player, ghost, sceneTransition>>

\* The Menu Tool's replay begins when its menu opens, ends or is cancelled, and
\* may be armed by the user while a route runs.
HelperBegins ==
    helper.state = "ArmedPlayback" /\ HelperBecomes([helper EXCEPT !.state = "Playing"])
HelperEnds == helper.state # "Idle" /\ HelperBecomes(IdleHelper)
HelperArms(now) ==
    "Arming" \in Features /\ helper.state = "Idle" /\ now.state # "Idle" /\ HelperBecomes(now)

--------------------------------------------------------------------------------
Init ==
    /\ Targets \in Routes
    /\ options \in [fromSelection : BOOLEAN, warp : BOOLEAN]
    /\ route = StoppedRoute /\ activeActions = <<>>
    /\ timer = [running |-> FALSE, moved |-> FALSE, frames |-> 0, best |-> 0]
    /\ split = [running |-> FALSE, origin |-> 0, frames |-> 0]
    /\ pad = NoPad /\ helper = IdleHelper /\ AutoCutsceneSkips = FALSE
    /\ mapId \in Map /\ player = 0
    /\ ghost = NoGhost
    /\ SceneTransitionInit

Frame ==
    \E situation \in Situations, outcome \in Outcomes, stride \in 0 .. MaxStride :
        Update(situation, outcome, stride)

Window ==
    \/ \E selected \in 0 .. Len(Targets) : PressStart(selected)
    \/ PressStop
    \/ ResetTimer
    \/ ResetBest
    \/ \E option \in DOMAIN options : ToggleOption(option)
    \/ \E step \in NewSteps, selected \in 0 .. Len(Targets) : Add(step, selected)
    \/ \E i \in DOMAIN Targets :
           \/ Delete(i)
           \/ \E up \in BOOLEAN : Move(i, up)
           \/ ToggleIntermediate(i)
           \/ SetTarget(i)
           \/ Adjust(i)
           \/ WarpToTarget(i)
    \/ \E targets \in Routes : LoadTargetsFromFile(targets)

Environment ==
    \/ \E map \in Map, place \in Place, bond \in BOOLEAN : MapJump(map, place, bond)
    \/ \E bond \in BOOLEAN : ReloadSave(bond)
    \/ EndTransition
    \/ \E place \in Place : PlayerMoves(place)
    \/ \E button \in Button : GameAccepts(button)
    \/ HelperBegins
    \/ HelperEnds
    \/ \E now \in HelperStates : HelperArms(now)

Next == Frame \/ Window \/ Environment

Spec == Init /\ [][Next]_vars

\* The Menu Tool's replays begin and end, the game takes the presses it is sent.
GameFairness ==
    /\ WF_vars(HelperBegins) /\ WF_vars(HelperEnds)
    /\ \A button \in Button : WF_vars(GameAccepts(button))

--------------------------------------------------------------------------------
(* Properties.                                                                  *)

StepsBetween(low, high) ==
    InOrder({i \in OnMap(Targets, mapId) : low <= i /\ i < high}, Len(Targets))

\* Through delays, waits, repairs, jumps and re-entries, a running route has
\* performed every step of its map from the one it entered at, each once and in
\* the route's order, up to the one it stands at.
PerformedInOrder ==
    route.active => ghost.done = StepsBetween(ghost.entry, route.at)

\* Targeting holds the left stick only while it walks towards a target of this
\* map, the player is in control and nothing else is due: never while a replay it
\* started works its menu, in a delay, or across a scene transition.
StickOnlyWhileWalking ==
    pad.leftStick # 0 =>
        /\ route.active /\ ~route.waiting /\ ~IsSceneTransitionActive
        /\ route.at \in OnMap(Targets, mapId) /\ IsMovementTarget(Targets[route.at])
        /\ route.delayAt = 0 /\ route.startDelay = 0 /\ ~route.menuTas

\* No press is left in the input buffer once no Action is in flight, however the
\* Actions ended.  While some are, what one asked for and the game has not taken is
\* there, none goes on before the buttons its step names were taken, and, as long as
\* the window has changed none of them, nothing else is there: each press pending is
\* awaited.  Actions that wait for the same button wait for one press of it.
PressesArePaired ==
    /\ activeActions = <<>> => pad.buffered = {}
    /\ \A k \in DOMAIN activeActions : activeActions[k].owed \subseteq pad.buffered
    /\ ~ghost.adjusted =>
          pad.buffered = UNION {activeActions[k].owed : k \in DOMAIN activeActions}
    /\ ~ghost.unearned

\* The route moves past a Delay only after it has stood there for the frames that
\* the Delay asked for when it was entered; a Delay of no frames is not entered.
DelayIsServed ==
    [][\A i \in DOMAIN Targets :
          /\ Targets[i].type = "Delay"
          /\ Len(ghost'.done) > Len(ghost.done) /\ i \in ToSet(ghost'.done) \ ToSet(ghost.done)
          => IF route.delayAt = i THEN route.at = i /\ ghost.served >= ghost.due
             ELSE Targets[i].frames = 0]_vars

\* The script timer stops by itself only when the route has ended, no Action is in
\* flight and no replay is pending, and then every step of the map was performed from
\* the one the route joined at.  Its time is that run's unless, since the route
\* joined, a map change or the window set the count back, or a step was moved to or
\* from the map behind the route: then it is what was left of the run, and becomes
\* the best time if it is the least.
TimerCoversRoute ==
    [][timer.running /\ ~timer'.running /\ timer'.moved =>
          /\ ~route'.active /\ activeActions' = <<>> /\ helper'.state = "Idle"
          /\ ghost.disturbed \/ ghost'.done = StepsBetween(ghost'.entry, MaxTargets + 1)]_vars

\* A target-to-target time is measured between one movement target and the next
\* of the map, never across a map change; a split that was running when a step
\* was moved to or from the map is excepted.
SplitsJoinNeighbours ==
    [][ghost'.leg \notin {ghost.leg, NoGhost.leg} /\ ghost'.leg[1] >= ghost'.entry =>
          ghost'.leg[2] = FindNextMovementTargetForMap(ghost'.leg[1], mapId)]_vars

\* The route never turns back towards a Position: what it passes it has reached.
NoTurningBack ==
    [][LET before == route.approach after == route'.approach
       IN  /\ after.index # 0 /\ after.index = before.index
           /\ Targets[after.index].type = "Position"
           => before.delta * after.delta > 0]_vars

\* "Route delays obey the same control lock as movement and Actions. [...] every
\* other loss of field control pauses the countdown."
DelaysObeyControlLock ==
    [][\A situation \in {"locked", "absent"}, outcome \in Outcomes :
          Update(situation, outcome, 0) =>
              \/ route'.delayAt = 0
              \/ route'.delayAt = route.delayAt /\ route'.delayLeft = route.delayLeft
              \/ route'.delayLeft = Targets[route'.delayAt].frames]_vars

\* Steps of a map by blocks: what stands before the first Target, then each Target
\* with the steps that follow it.
Blocks(targets, map) ==
    LET entries == MapEntries(targets, map)
        Block(h) == SubSeq(entries, h, NextBlock(entries, h) - 1)
    IN  <<SubSeq(entries, 1, NextBlock(entries, 0) - 1),
          {<<h, Block(h)>> : h \in Heads(entries)}>>

\* Moving a Target takes its steps with it and tears no other block apart; moving
\* another step keeps it within its block; other maps' steps stay in place.
BlocksStayTogether ==
    [][Targets' # Targets => \A i \in DOMAIN Targets, up \in BOOLEAN : Move(i, up) =>
          LET map == Targets[i].mapId
              before == Blocks(Targets, map) after == Blocks(Targets', map)
          IN  /\ \A j \in DOMAIN Targets :
                    Targets[j].mapId # map => Targets'[j] = Targets[j]
              /\ IF Targets[i].type = "Position"
                 THEN /\ after[1] = before[1]
                      /\ {b[2] : b \in after[2]} = {b[2] : b \in before[2]}
                 ELSE /\ ToSet(after[1]) = ToSet(before[1])
                      /\ {<<b[1], ToSet(b[2])>> : b \in after[2]}
                         = {<<b[1], ToSet(b[2])>> : b \in before[2]}]_vars

\* Unless the map changes, a route that runs comes to an end, and so does its timer.
RouteFinishes == (route.active \/ timer.running) ~> ~(route.active \/ timer.running)

================================================================================
