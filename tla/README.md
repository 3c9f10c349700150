# A TLA+ model of XenomodsTAS

XenomodsTAS is a game modification for Xenoblade Chronicles 2 (`bf2`) and Torna
(`ira`): a set of modules loaded into the game process that hook native functions, draw
debug windows, record and replay inputs and walk routes by themselves. This directory holds
a formal model of it, the TLC configurations that check it, and TLAPS proofs about it. File
and line references are to the repository root, most of them without their directory
(`src/src/xenomods/` and its `modules/`, or `src/src/skylaunch/`).

Build `bf2` is modelled; what a module does under other code names is a subset of it.

## 1. Inventory

### How the mod runs

The mod's modules run on the game thread. They have no locks because there is nothing to
lock: the concurrency is that of *callbacks*. A hook is a function that the game calls
instead of its own; it may run code before and after the native function (`Orig`), and while
`Orig` runs the game may call other hooks. So a hook's "before" and "after" parts are two
steps with other hooks' steps in between, and globals read after `Orig` may have changed.

Once per frame the framework hook polls the pads, calls every module's `Update` unless a
scene transition is in progress, and draws the windows.

```
   game: pad getters    UIInputLayer::update    PadRelay::checkAction    UI callbacks
             |                  |                       |                     |
             v                  v                       v                     |
        +----------------------------------------------------------+         |
        |  InputBuffer: one set of globals, four clients           |         |
        +----------------------------------------------------------+         |
          ^ capture, playback    ^ scripted, raw    ^ automatic A            |
          |                      |                  |                         v
     MenuHelper <----------- Targeting      AutoTutorials, AutoCutsceneSkips  (hooks)
          ^                   |      |              ^
          |                   |      +-- route files (NnFile)
          +---- SkipTravelProfiler (traces; hands over the Aux Core handle)
     State: settings at boot; scene transitions reach every registered module
     CameraTools, PlayerMovement, ReactionControls, TriggerVisualizer: per frame, per scene
     BladePulls, CombatAiDebug, AudioControls, UtilityMenu: own hooks, own files
     Skylaunch: hooks are installed and plugins loaded before any of this runs
```

### Components

| Component | State | Operations | Hard behaviour |
|---|---|---|---|
| **InputBuffer** (`InputBuffer.cpp`) | buffered presses, capture flags, one playback slot, scripted masks, one automatic-action slot, offer flags, layer registrations, Aux Core amount widget | hooks on `getBtn`, `getDown`, `getPadData`, `UIInputLayer::update`, `PadRelay::checkAction`, layer registration; a setter per client | callbacks inside a native layer update, globals shared by four clients, stale offers, table of 256 |
| **Menu Tool** (`MenuHelper.cpp`) | helper state, kind, recordings, draft, playback script, index and neutral frames, open menus, Aux Core sequence, sandbox copy, scene transition | 20 game hooks, the window's buttons, Targeting's calls, `Update`, InputBuffer's two callbacks | every order of menus opening and closing against arming, stopping, saving and scene changes; an Aux Core shop inside a shop; repeated inputs; liveness of a replay |
| Sandbox data store (`MenuHelper.cpp`) | whether the disposable copy is in use | swap on open and close, save refusal, store rebuild | a copy that outlives its store, or its menu |
| **Auto Tutorials** (`AutoTutorials.cpp`) | one `TutorialRuntime` per popup family | initialize, finalize, update and listener of each, acceptance callback, checkbox, scene change | a pending A that outlives its popup; re-arming between pages |
| **Auto Cutscene Skips** (`AutoCutsceneSkips.cpp`) | phase of the attempt, accepted frame, confirmation menu and object, trace | 12 hooks, layer callback before and after, switch, profiler buttons, scene change | a one-shot attempt at frame N+6 inside the right layer's update, against cancellation from anywhere |
| **Targeting** (`Targeting.cpp`) | route, current step, approach, stick, actions in flight and what each waits for, timers, splits | `Update`, the window's edits, scene changes | starts replays and presses and waits for them over frames; edits, map changes and locks in between |
| **Route files** (`Targeting.cpp`, `NnFile.cpp`) | one file per route, backups, migration copies, legacy file, active-route setting | load, save, new, switch, reload, migrate, back up | a power cut or a refused write between delete, create and fill |
| Scene transition (`State.cpp`) | in progress, completion armed | begin, arm, end, notify modules | a completion that was never armed |
| Settings (`State.cpp`) | `config.toml` and its section for the game | load at boot | wrong types, partial lists |
| Module registry (`UpdatableModule.cpp`) | table of 32 modules | register, initialize, update, notify | the 33rd module |
| Skip Travel Profiler | one run of an opening, history, two input traces | hooks that observe; forced handover of the screen | one screen's trace meeting another's; bounded buffers |
| Trigger visualizer, tutorial tools (`DebugStuff.cpp`) | four registries, a model each, bypass of a control lock | hooks on the game's objects, `Update` | handles used again, models left in a scene that is gone |
| Blade pulls | queue, cursor, presets on the card | two game hooks, window | shaping and adding are two hooks; power cuts |
| Combat AI trace | tracks of recharged slots, ring of decisions | nested hooks, resets | nested decisions, frame counter that restarts |
| Camera tools | free and unlocked camera, target, remembered player | hooks per camera layer, `Update`, keys | three owners of one camera, scene changes |
| Player movement | warps, last position | window, `Update`, scene change | a place measured in one scene and used in another |
| Forced reactions | pending reaction | window, `Update` | a press of one scene applied in the next |
| Background music | saved levels, applied flag, silent frames | `Update`, switch, map change | game silence taken for the user's levels |
| Menu, log, controller polling, toasts | open, held and pressed buttons, timed lines | per frame | edges across disconnects, bounded lists |
| Window settings, `tasSettings.toml` (`UtilityMenu.cpp`) | two files | load, save | four writers of one file |
| File replacement and BDAT tools | override file, dumps, table overrides | hooks on file reads and table queries | which of game, override and random value is heard; partial failure |
| Skylaunch hooking and plugin loader | trampolines, mapped pages, plugin list | install a hook, load plugins | relocation by kind, width and direction, failing plugins |
| Displays, editors, cheats, boot, patches, libnx | game memory, or none | one control each, or start-up | little state of their own |

`PROJECT.json` lists them all, with the status of each, and 40 hazards line by line;
section 7 names the others.

### What makes each correct

* InputBuffer: credit is given only for a word that was really injected; a recorded handle
  finds its layer.
* Menu Tool: a replay puts out the recording, prefix by prefix, once each, in order, to the
  layer it was recorded on, with the button released in between, and gets past each input;
  the pad goes back to the player; drafts are kept; an armed shop replay survives scene
  changes; the sandbox never stands in for a store that is gone.
* Auto Tutorials and Auto Cutscene Skips: no A is left pending without a popup or a running
  attempt to own it; every attempt ends.
* Targeting: steps are performed in order and once; delays are served in full; the stick is
  held only while the route walks; no Action goes on before its buttons were taken and none is
  left waiting for a press that was withdrawn; the timer stops only behind the last step, and
  its time is a whole run's unless a map change or an edit set the count back; splits join
  neighbours; a route finishes.
* Files: what counts as saved is what a restart would load; a route is migrated only beside a
  whole copy of itself, as long as no earlier copy was spoiled and the directory could be
  listed; one writer does not undo another's section.
* Tools: a Blade uses up the pull that shaped it; a displayed delay is never too long; a
  forced handover serves the opening it was armed for; trigger models have one owner; the
  camera's target stays with the player, at the height it was last put at; nothing measured
  or asked for in a scene is used after it; an instance of the music switch never takes its own
  silence for the player's levels.
* Loader: moved instructions name what was read out of them, but for the words the relocation
  is known to spoil; a plugin runs once; the game hears of a file or table what the card and the
  settings say.

## 2. Modules

| Module | Models | Composed in |
|---|---|---|
| `InputBuffer` | globals, helpers and hooks of `InputBuffer.cpp`, as operators its clients compose | the next three |
| `InputBufferClients` | InputBuffer with all four clients reduced to arbitrary calls | `MCInputBuffer` |
| `MenuHelper` | the Menu Tool over InputBuffer | `MCMenuHelper`, `MCMenuHelperSessions` |
| `Replay` | abstract specification: what a replay promises | `MenuHelper` implements it |
| `AutoUi` | Auto Tutorials and Auto Cutscene Skips over InputBuffer | `MCAutoUi`, `MCAutoUiSessions` |
| `SceneTransition` | the transition flag of `State.cpp` | `Targeting`, `CameraTools`, `Warps`, `Reactions`, `TriggerVisualizer` |
| `RouteSteps` | the steps of a route, their order on a map, insertion and moves of blocks | `Targeting` |
| `Targeting` | the route's frame, actions in flight, timers, edits, jumps and reloads | `MCTargeting`, `MCTargetingSessions`, `MCTargetingFair` |
| `RouteFiles` | the files of routes, with power cuts and refusals | `MCRouteFiles`, `MCField` |
| `CameraTools` | free and unlocked camera | `MCField` |
| `Warps`, `Reactions`, `Scenes` | player movement, forced reactions, the two under one transition | `MCField` |
| `Shell` | polling, menu key, withheld pads, log and toasts | `MCField` |
| `InlineHook`, `ControlledPages`, `PluginManager` | Skylaunch: hooked instructions, free pages, plugins | `MCField` |
| `Config`, `FileReplacement` | settings at boot; overridden files and tables | `MCField` |
| `BladePulls`, `CombatAiDebug`, `TriggerVisualizer`, `SkipTravelProfiler`, `InputTraces`, `AudioControls`, `ToolSettings` | one tool each | `MCTools` |
| `MenuHelper_proofs`, `AutoUi_proofs`, `InputBufferClients_proofs`, `Targeting_proofs`, `RouteFiles_proofs`, `Loader_proofs`, `Field_proofs`, `Tools_proofs` | the theorems of section 5 | - |

The head comment of each module says what it stands for and what it abstracts; the "map" of
`PROJECT.json` gives the lines of every definition.

### InputBuffer

Each global is a variable of the same name. A function that other modules call constrains
only the variables it assigns, so a caller can make several such calls in one step, as a
handler does. `UIInputLayer::update` is two operators, `UIInputLayerUpdateBegin` (up to
`Orig`) and `UIInputLayerUpdateEnd`; `layerStack` holds the updates whose `Orig` is running.
The parts before and after the callbacks to other modules are `EnterInputLayer` and
`LeaveInputLayer`. `UIUtilGetPadData` has one disjunct for each outcome of that hook.
`InputBufferClients` adds two histories: which bits the mod put into the words each update
has read, and which handle the manager last gave each layer.

Abstractions: pad words are sets of buttons; sticks, `getUp` and the word shown in the
window are left out. `physicalNeedsReleaseMask` is only ever cleared, and `strictRelayMask` is
set only around one native call, so neither is state. The game's relay check is an arbitrary
answer (`enabled`).

### MenuHelper

One action per hook, button, Targeting call and per-frame `Update`; each action makes every
call the code makes, down into InputBuffer. `openCall` is the native menu-creation call in
progress (the hook's two halves are `MainMenuCreateBegin` and `MainMenuCreated` or
`MainMenuNotCreated`). The selection, the name box and the kind box are the user's to change at
any time, so the actions that read them choose. `menuHelper.toml` holds any recordings
(`RecordingFiles`), saving succeeds or fails. `delivered` and `sinceDelivery` are history
variables: what the game has accepted since the replay was armed, and the frames since.

`Features` switches parts of the *environment* on and off (Aux Core shops, blade-bond
menus, the sandbox, scene changes, Targeting, the window). It keeps the runs small. The
proofs hold for every value of it.

### AutoUi

Popups and the confirmation come and go at any time, also inside a layer update; the game
event, the popups' `update` and the windows run outside. Both modules' callbacks are part of
InputBuffer's layer actions: `LayerUpdateBegins` queues the A at N+6, `LayerUpdateEnds` lets
the attempt be observed, moves the slot from Pending to Neutral to Idle, and disarms the
popup that was pressed. Of the native clock only the distance from the accepted + is kept,
up to N+7. Of the trace only its running, the table of layer snapshots (an attempt needs an
entry there) and the pad capture are kept.

### Targeting and the route files

`Targets` is the list, with the steps of all maps interleaved as the file holds them. One
action, `Update`, is the whole of `Targeting::Update`: the actions in flight, the frame's
early returns in their order, the loop that consumes steps (`ConsumeActiveSpecialSteps`, a
recursive function of the fuel left), the walk and the count of a Delay. The player stands on
a line: the code drops the height and asks only for the distance, the side and whether a
target was crossed. The Menu Tool is what the route sees of it (`helper`), the buffered
presses are `pad.buffered`. The window edits a step in place while the route runs (`Adjust`, one
field at a time; a change of buttons meets an Action whose press is pending). `ghost` is history:
the steps performed since the route was entered (`done`), the frames served of a Delay, the leg a
split joins, whether a count was set back since (`disturbed`), whether the window changed an
Action in flight (`adjusted`), and whether one went on before its buttons were taken
(`unearned`).

`RouteFiles` keeps what the card holds under each name: a route, nothing, or something that
does not parse. A write deletes, creates and fills (`NnFile::Preallocate`, `Write`, `Flush`),
with a power cut or a refusal after each. A route is a value, with old or new names. A load of
old names is two writes, the copy and the rewrite, and the cut may fall into either; a listing of
the directory may fail wherever the code makes one. `spoiled` is history: the names under whose
copy something else than the whole route was left, which the code, that asks only for the name,
takes for the copy.

### The tools

Each is one module over variables of the code's names, with one action per hook, update and
button. Numbers that a property only compares are scaled down by the runs (frames, levels,
places on a line); handles and objects are reused once their owner is gone, as the engine
does. `CombatAiDebug` keeps of a slot whether it is recharged; what a decision only displays
is left out, so that two disagreements with nobody's words (the eviction of slot 0, nested
script requests listed as native) are not visible. Its `DelayIsNotOverstated` is one-sided on
purpose: a slot that is first seen late, or a frame counter set back, makes the shown delay
too short. An Art whose slot has no data is passed over, as in `SnapshotSlots`.
`CameraTools` follows one coordinate of the world (`axis`): a level one, or the height, which
`UpdateCameraUnlock` treats by a rule of its own (408-409). `TriggerVisualizer` lets a tutorial
object be captured again under another flag, which begins its repetition anew, and updates models
on empty registries while a transition runs. `AudioControls` keeps, for each silence, who made it:
this instance, the game, or an instance of the plugin before it. `InlineHook` counts addresses in
words, and rewrites each of the relative kinds by its own rule and field width, the sign of a
backward condition (203), the size bits of a near load (320), the byte of an ADR (381) and an ADRP
into the moved words (405) as the code treats them; `ControlledPages` queries a block of equal pages at a time, as the kernel
answers; `PluginManager` follows the list as `kept \o rest` around the iterator.

## 3. Runs

Several modules share a run: an initial choice (`session`, `used`, `tool`) says which of them
is at work, and the others stay as they start. The choice never changes, so that the state
space is the sum of the parts, and a property about one part is checked in all of its states.

| Run | Instance | Shows |
|---|---|---|
| `InputBuffer` | 2 layers, 2 handles, a table of 2 slots, buttons A and Down; the clients that offer actions, with an update inside an update, or those that read pads beside a manager that reuses handles | `RegistrationsFollowManager`, `AcceptedWasInjected` |
| `HelperSessions` | shop replays of a repeated input with Targeting and scene changes; recordings under the sandbox through every menu; an Aux Core shop inside a shop with a recording of L, then A | `OverrideOnlyWhilePlaying`, `SandboxIsRefusedAndBacked`, `ArmedShopReplaySurvives`, `LayeredActionsReachTheirLayer`, `DraftIsKept`, `AuxSequenceStaysOnLayers` |
| `Menus` | main-menu and travel recordings of a repeated input, opened by the game or by Targeting, scene changes, fairness | `ImplementsReplay`, `RepeatedInputIsReleased`, `ReplayAdvances` |
| `AutoUi` | two popups of different families with pad capture; or a cutscene skip beside a popup; scene changes, fairness | `PendingIsOwned`, `AttemptEnds` |
| `Targeting` | six routes with every kind of step walked over two maps, with jumps, reloads and other tools' warps; two routes edited before, between and during short runs; one whose steps the window changes while they act | `PerformedInOrder`, `StickOnlyWhileWalking`, `PressesArePaired`, `DelayIsServed`, `TimerCoversRoute`, `SplitsJoinNeighbours`, `NoTurningBack`, `BlocksStayTogether` |
| `Finish` | the six routes under fairness, without jumps | `RouteFinishes` |
| `Field` | nine parts: route files, cameras, warps, reactions, shell, hooks, pages, plugins, replacement | `SavedIsOnCard`, `MigrationKeepsOriginal`, `OrbitFollowsPlayer`, `NothingCrossesScenes`, `ToggleNeedsRelease`, `MovedAsRead`, `EachContentRunsOnce`, `FilesAreHeard` |
| `Tools` | nine parts: Blades, decisions, visualizer, tutorials, openings, the two traces, music, settings | `SavedPresetIsCurrent`, `PullsAreServedInOrder`, `DelayIsNotOverstated`, `ModelsAreOwned`, `TutorialServesOneVisit`, `ForcedInputServesOpening`, `NothingIsLost`, `SavedIsNotOurSilence`, `SilenceIsRecovered`, `SettingsAreKept` |
| `Arming`, `Delays`, `Malformed`, `AudioRegions` | see the findings | one disagreement each |

Every action of every module fires in some run, and each property is refuted by TLC when a
definition it depends on is replaced by a plausible mistake ("mutants" in `PROJECT.json`).
The longest, `Field` and `Targeting`, take three to four minutes with two workers. No run
stops the game, but a bounded instance may run out of steps, so deadlock is not checked.

### Bounds

* `MaxNesting = 2` where actions are offered (`InputBuffer`): an update within an update is the
  case in which the hook restores `updatingInputLayer` and not the offer flags
  (`InputBuffer.cpp:619`); a third repeats it, and the proof covers any depth. Elsewhere
  `MaxNesting = 1`.
* `MaxRegistrations = 2` in `InputBuffer`, so that the table of 256 is full and its slots
  reused. The game is assumed to keep no more live layers than there are slots.
* Recordings have one or two actions. Two equal inputs are the case that needs a neutral
  frame, L and then A the case of the Aux Core amount widget; a third would repeat one of
  the two. `MaxActions` bounds what is recorded (65536 in the code), `MaxRecordings` is 2
  (64 in the code). The proofs cover every length.
* `MaxSnapshots = 2`: each layer of the run has its entry. `sincePlus` and
  `auxCoreInputAge` saturate where the code stops comparing them. Buffering of the player's
  presses is off in the runs of `AutoUi`: nothing there reads it.
* Routes have three or four steps on two maps, and a Delay of two frames is longer than
  `MaxFrames` lets a timer count, so that saturation happens. A route that is edited runs
  only while it has two steps (`MCEditBound`): this is what keeps `BlocksStayTogether`
  and the moves of blocks of up to four steps in reach. `MaxActions = 3` actions in flight.
* In the walks two Actions in flight wait for the same button, in one press or in two. In the
  session of in-place edits `FieldFrames` are the values a frame field takes (0 and 2), and one
  step at a time differs from the file, by one change (`MCAdjustBound`).
* Two files and three routes; two presets and two pulls; two models for two registries; one
  place to stand beside another (`MaxPlace = 1`): the least in which two things can be
  confused. Buffers and rings hold one to six entries, so that each is full. `Heights`, what the
  camera's height takes, are as far as the places (`MaxPlace`). `ExistingSoundReadyFrames` is 3
  and `SilentRecoveryFrames` 2, so that the first is the longer, as in the code (120 and 15).
* Pages: 14, with the heap, the alias region and the text in the middle. Instructions: up to
  two relative ones per hook, with reaches scaled down so that one target is near and one far.
* Counters that only grow (`MaxFrame`, `MaxCalls`, `MaxRunId`, `MaxFiles`, `MaxLog`) stop at
  their bound.

### Assumptions about the game

Native code is not in the repository; the models leave it free except for the following.

* A finalize follows its initialize. A layer's enabled entries stay what they are during one
  update. A tutorial object's flag is its own: no two objects have the same. One popup per family and one confirmation menu are alive at a time; a popup
  registers its listener in its own initialize. For `PendingIsOwned` the layers take A,
  updates do not nest, and the confirmation's listener hears one sender
  (`ConfirmationSetting`; with two senders the property fails: `confirmationObject` follows the
  sender of any listener event, `AutoCutsceneSkips.cpp:684`, and the A on the old one is
  never cancelled).
* The data store is rebuilt only while no menu is open. Module updates and windows run
  outside layer updates and outside menu creation.
* The game sets a Blade up, then adds or drops it, before it sets up another. It opens one
  skip-travel screen at a time, and asks for the controls after it enabled the input.

### Fairness

* `MenuHelper`: native calls return and scene transitions end again and again
  (`[]<>(Idle /\ ~sceneTransitionActive)`), which is what it means for the game's main loop to
  go on; the framework then updates the modules (strong fairness of `Update`, because a scene
  transition disables it in between); and an open menu keeps asking for the button it waits
  for (strong fairness of the relay check that serves the pending action). The last is about the
  game: without it a menu that ignores the button stops any replay.
* `AutoUi`: a layer update returns (weak fairness); an active cutscene has its clock and its
  game event updated again and again (strong fairness, since a layer update disables them).
  Nothing is assumed of the player, of popups or of the confirmation menu.
* `Targeting`: among the frames there are again and again some that find the player in
  control and move it by one place (`FreeFrames`); replays begin and end, and the game takes
  the presses it is sent (`GameFairness`). A beat that every frame flips stands for the frames,
  so that the assumption is about steps taken and not about states changed.

`ReplayAdvances` is stated for main-menu replays. A shop replay can wait for ever: stop a
replay in a shop's transition and start it again, and `shopTransitionBlocked` stays set
(`MenuHelper.cpp:1370`), until the shop closes or the player aborts. `RouteFinishes` likewise
assumes that a replay begins: a step that initializes the Menu Tool behind an armed shop
replay whose shop never opens waits for ever (`Targeting.cpp:1133`).

## 4. Findings

Each is a run that TLC refutes; `PROJECT.json` quotes the lines.

* **Arming** (`MenuHelper.cpp:1352`). A replay armed while an Aux Core shop is open should
  begin at once, by the comment in `ArmPlayback` (813-815). `OnShopOpened` returns early for
  an Aux Core session, so it waits for the next open.
* **Delays** (`Targeting.cpp:2256`). A comment says that a route's delays obey the control
  lock (2273-2275). A ShopTAS step is consumed before the lock is looked at, and the loop goes
  on to a Delay behind it, whose first frame is counted while the player is locked.
* **Malformed** (`Targeting.cpp:1191`). A malformed file "must not be replaced until the user
  actually changes the in-memory route" (2151-2152). Switching to one leaves the old route
  running under its name, and the next best time writes that route over it.
* **AudioRegions** (`AudioControls.cpp:290`). A region should receive the user's saved levels at
  its first safe update (306-308). They start at 1.0 and are read only when the music is
  switched off, so with music left on every region is set to full volume.

One property was restated when its proof did not go through, after TLC had shown why on a route
of three steps: a split that is being timed while "Update" moves a step to or from the map may
span a movement target (`Targeting.cpp:844-882`; `SetTarget` keeps the split), so
`SplitsJoinNeighbours` excepts that case.

## 5. Proofs

Every property the passing runs check is also a theorem, for every value of the constants, except
three liveness properties and `PendingIsOwned` (below). The constants are bound only by the named assumptions at the
head of each module, which TLC evaluates in the runs: masks are sets of buttons, a value that
stands for "none" is no value, bounds are natural numbers, files on the card are lists of
well-formed entries.

| Module | Theorem | States | Rests on |
|---|---|---|---|
| `MenuHelper_proofs` | `Invariance`, `TypeCorrect` | `IInv`, `TypeOK` | `IInv == TypeOK /\ ReplayInv` |
| | `OverrideIsReleased` | `OverrideOnlyWhilePlaying` | `IInv` |
| | `ReplayInOrder`, `SlotHoldsNext` | `DeliveredInOrder`, `SlotIsNextAction` (not run) | `IInv` |
| | `Refinement` | `ImplementsReplay` | `SessionStep` |
| | `RecordingHears` | `RecordingHasCapture` (not run) | `IInv` |
| | `SandboxIsSafe` | `SandboxIsRefusedAndBacked` | itself |
| | `ArmedShopReplaySurvivesHolds`, `DraftIsKeptHolds` | action properties | `IInv` |
| | `LayeredActionsReachTheirLayerHolds`, `AuxSequenceStaysOnLayersHolds` | action properties | `IInv` |
| | `RepeatedInputIsReleasedHolds` | action property | `ReleaseInv` |
| `AutoUi_proofs` | `TypeCorrect` | `TypeOK` | `Typed`: the same, in parts |
| | `TutorialActionIsOwnedHolds` | `TutorialActionIsOwned` (not run) | `PendingInv` |
| `InputBufferClients_proofs` | `RegistrationsFollow` | `RegistrationsFollowManager` | `RegistrationsInv` |
| | `AcceptedWasInjectedHolds` | action property | `OffersInv` |
| `Targeting_proofs` | `TypeCorrect`, `PerformedInOrderHolds`, `StickOnlyWhileWalkingHolds`, `PressesArePairedHolds` | invariants | `Inv` |
| | `DelayIsServedHolds`, `TimerCoversRouteHolds`, `SplitsJoinNeighboursHolds`, `NoTurningBackHolds` | action properties | `Inv`, `Counted`, `Aside` |
| | `BlocksStayTogetherHolds` | action property | `Inv`, and lemmas about lists |
| `RouteFiles_proofs` | `TypeCorrect`, `SavedIsOnCardHolds` | invariants | `IInv` |
| | `MigrationKeepsOriginalHolds`, `NewRouteIsFreshHolds`, `DeletesOnlyEmptyHolds` | action properties (the last two not run) | `IInv` |
| `Loader_proofs` | `TrampolineSuffices`, `MovedAsReadHolds` | `FitsTrampoline` (not run), `MovedAsRead` | `HookInv`, `RelocationInv` |
| | `SearchFindsFreePages` | `FoundIsFree` (not run) | `PagesInv` |
| | `EachContentRunsOnceHolds` | invariant | `IInv` |
| | `FilesAreHeardHolds` | invariant | `FilesInv` |
| `Field_proofs` | `OrbitFollowsPlayerHolds` | invariant | `CameraInv` |
| | `NothingCrossesScenesHolds` | invariant of two modules together | one for each |
| | `ToggleNeedsReleaseHolds` | action property | the frame itself |
| `Tools_proofs` | `SilenceIsRecoveredHolds`, `SavedIsNotOurSilenceHolds` | invariant, action property | `AudioInv` |
| | `SavedPresetIsCurrentHolds`, `PullsAreServedInOrderHolds` | invariant, action property | `PullsInv` |
| | `DelayIsNotOverstatedHolds` | invariant | `TracerInv` |
| | `NothingIsLostHolds` | invariant | `AuxTraceInv`, `TutorialTraceInv` |
| | `SettingsAreKeptHolds` | invariant | `ToolSettingsInv` |
| | `ModelsAreOwnedHolds`, `TutorialServesOneVisitHolds` | invariants | `TriggersInv` |
| | `ForcedInputServesOpeningHolds` | invariant | `ProfilerInv` |

The theorems speak of each component's own specification (`AudioSpec`, `CameraSpec`, ...), not
of the specification of the run, which only puts them side by side under the initial choice.

### Why the invariants are what they are

**Menu Tool.** `ReplayInv` joins four facts: the override is on exactly while a replay runs,
the index lies in the script, what was delivered is the counted prefix, and the slot holds
the next action. None is inductive alone. That `DeliveredInOrder` survives an acceptance needs
`SlotIsNextAction` (the game took the slot, the count moves by one); `SlotIsNextAction`
survives a stop only because the override is on just while a replay runs, so that closing it
empties the slot; and both need the index inside the script for `NextAction` to mean anything.
`SessionStep` says of a step what the session variables may do: `SessionInv` holds after it and
it is a step or a stutter of `Replay`. There is a lemma that gives it for each procedure the
handlers share (`StopPlayback`, `StartPlaying`, `BeginActiveSession`, `EndActiveSession`,
`ArmPlayback`, `OnAcceptedAction`, `QueueNextPlaybackAction`), and one per action that adds the
types of the rest. Invariance and refinement are two readings of the same lemma. The
refinement mapping sends `ArmedPlayback` to "armed", Playing and `WaitingForShopClose` to
"running", and all else to "idle", with the script and `delivered` visible in the first two.
`ReleaseInv` adds the neutral frames: just after an acceptance of an input whose repetition
follows, some are left, so that the slot is not refilled in the same frame.

**Input buffer.** A registration is overwritten by layer or by handle, so
`RegistrationsInv` says both that the table holds no layer twice and that what is live is in it.
For `AcceptedWasInjected`, `OffersInv` says that what the flags call offered is in a word read
since the innermost update in progress began: a new update takes the flags back, and when one
returns, its words are counted to the update around it, which may be credited for them.

**Automatic actions.** A popup's A keeps its popup: whatever ends the popup, or takes its object
from it, empties the slot in the same step, whichever updates run within which. `PendingInv` adds
what an A that no popup wants can be: it was queued on an object that an event of the confirmation
named (`SkipSenders`). So `TutorialActionIsOwned` needs nothing of the game. `PendingIsOwned`, which
the run checks, says more, that the attempt's A too has its attempt, and holds only where
`ConfirmationSetting` does; it is not proved.

**Targeting.** The state is read as a record (`World`), as the model's `Update` builds it from
assignment to assignment. `Steady` says that the order, the Delay, the approach, the timers and
the presses of a world fit the step the route stands at; `Earned` that a Delay's frames served
and left add up; `StickOK` who holds the stick; `Still` that in a transition nothing is under
way. A frame is followed through its parts, each with a lemma of its own: the actions in flight
(`ActionsUpdated`), each kind of step (`Passed`, `Walked`), the loop over the steps
(`StepsConsumed`), the frame around the loop (`RouteUpdates`, `FrameUpdates`) and the count of
a Delay (`FrameCounted`). `Counted` is what a frame guarantees; every other step stops the route
or leaves its progress `Aside`. Four action properties follow from these two. The fifth,
`BlocksStayTogether`, is a fact about lists: where each step stands after two stretches changed
places (`SwappedPlaces`), hence where each block begins and what it holds (`SwapKeepsBlocks`);
that a step changes places with a neighbour of its own block (`MovedStepKeeps`); and that
the map's own sequence, read back from the route it was written into, is what was written
(`EntriesReplaced`), because the places of `InOrder` are the ranks of its numbers. The loop's induction runs over the fuel, up to the route's length
(`UpTo`): the library's induction theorems take a predicate as a parameter, so the set of
counterexamples is given a least element by the well-foundedness of the numbers instead
(`LeastNatural`). The same device serves the other modules wherever the code takes the first free
slot or the smallest number.

**Route files.** The copies in memory are worth something only as long as the session saw no
refused write: then the current file is there with new names, it holds what `lastSavedTargets`
says, and the listing is a part of the directory, all of it unless a listing failed (`blind`). For
the migration no such condition is of use, since a cut ends the session and its memory: the copy on
the card of a file with old names is a whole copy, or absent, or its name is `spoiled`
(`CopiesAreOfTheirFiles`). The proofs include the refusals that the run leaves out.

**Loader.** A hooked function's words are read once and written once; `HookInv` bounds what each
kind of instruction adds (`Growth`), and `RelocationInv` says of every moved item what it
stands for, or which later item will settle it (`waitsFor`): a forward branch into the moved words
is patched when its target is reached. What a moved item names is compared with what was read out
of the instruction (`Read`, which sends a backward condition forward), and what is spoiled is said
by kind, target and sign, not by what the relocation did (`Spoiled`). `PagesInv` needs that a block
of equal pages is uniform (`BlockIsUniform`), so that stepping over it skips nothing that is free.

**Tools.** `AudioInv` bounds the silent frames of each of the two counters by the other.
`PullsInv` says that a shaped Blade is of the pull at the cursor (`ShapedByActivePull`).
`TracerInv` ties a decision in progress to a track that has known its slot since. Trace
invariants relate what the buffer ends with to what the layers were seen in, under the flag that
says something was dropped. `TriggersInv` adds to the ownership of models that an exception from
a lock is fresh and that a begun tutorial is suppressed until its volume was left. `ProfilerInv`
says that a screen that can be used has its input.

### Only model-checked

* `PendingIsOwned`: it needs a game whose layers take A, whose updates do not nest and whose
  confirmation's listener hears one sender (`ConfirmationSetting`), which the source does not show.
* `ReplayAdvances`, `AttemptEnds`, `RouteFinishes`: liveness under fairness is out of the proof
  system's reach, and so is ENABLED. Induction over data, and so what a recursive
  function computes for every input, is too, except where a bounded set of counterexamples
  can be formed as above.

## 6. Plan

Done: every module of section 2, its runs and the theorems above. Left:

1. A pending A across two objects: the words the game saw, as history, to state that two presses
   never merge.
2. What a route restored by "Update" on another map's step should do to a running split.

## 7. Not modelled, and why

* **Displays and editors** (`DebugStuff.cpp` but for the triggers, `RenderingControls`,
  `PartyEditor`, `BattleCheats`, `ResourceManager`, `EventDebugUtils`): each reads or writes game
  memory from one control, with no state of its own between frames.
* **Boot, functional hooks, patches** (`main.cpp`, `FunctionalHooks.cpp`, `FrameratePatch`,
  `CompatabilityFix`, `AppletRedirect`): straight-line installation. The order they set up is
  what the models assume: `RomMountedHook` calls `GetState()` first, so that the settings are
  loaded before any module is initialized and before a plugin is.
* **Network logger** (`TcpLogger.cpp`): its queue and its list of clients are shared by three
  threads without locks. Nothing in the repository says what it promises.
* **Vendored code** (libnx, ImGui, toml++), and the one-line wrappers of hookng.
* In the modelled modules: the sticks of the input buffer, the text of files and
  traces, the wording, colours and geometry of what is drawn, interpolation and angles.

### Behaviour seen while modelling that no property states

These are in the models as the code has them, or are left out with the part they belong to; no
comment, document or test says what should happen, or the effect is only what is displayed.

* Input buffer: an update nested in another shares its offer flags: an offer made before it is
  forgotten, one made within it may be answered by the caller. A press the relay consumed is
  buffered again when `getDown` is read later in the frame. A buffered direction of the stick
  survives an override and is replayed afterwards, and X is answered before Y is known.
* Menu Tool: arming by Targeting during a recording leaves the capture on and the draft without
  a state that saves it. A deletion during a replay lets the elapsed time go to another recording.
  A scene change puts the real data back under a tutorial blade-bond menu that it keeps open
  (1718, 1722), although the tooltip promises otherwise (1215).
* Auto Cutscene Skips: with all 64 layer snapshots in use and Capture off, every later skip is
  given up with the message that the confirmation did not poll (872). Clearing the trace leaves
  the pad capture on.
* Profiler: pad capture is shared with Auto Cutscene Skips, either of which may turn the other's
  off; the end of one popup stops another's trace; a full event buffer drops the milestones that
  complete a run; `insideAuxListHandler` may wrap.
* Targeting: arming a replay for a menu that is open reports failure and cancels the replay it has
  begun (1142). An edit cancels the user's own replay (1166). Two Actions in flight that share a
  button may both be answered by one press (189). A map change while the last Action is awaited
  resets the frame count, and the rest becomes the best time (2391): the property names the case.
  The frame that enters a Delay is counted also while the player is locked (see Delays). A press
  asked for by an Action whose buttons the window then changes stays pending until the last Action
  ends.
* Route files: a copy cut short counts as the copy, since only its name is asked for (1347), so
  that the next load rewrites the route without one. After a listing that failed (465-481) the start
  saves over `targets0.toml`, and + New begins there. A power cut while the legacy file is copied leaves an unreadable `targets0.toml` that
  hides it for ever (790). After a failed load the backup is written over the only good copy (650).
  `NnFile::Write` reports no failure.
* Blade pulls: `Initialize` always takes the first preset; a failed scan of the directory makes
  `CreatePreset` overwrite it. A pull whose Blade cannot be resolved holds the queue.
* Camera: editing position or angles switches the free camera on without clearing the unlock;
  unlocking from the free camera starts with its matrix and an old target; unlocking with the camera
  on its target returns early (346) and keeps the height of the last orbit.
* Player movement: Set during a transition takes the new map and keeps the old position; an empty
  list of warps in the file does not clear the list; the fourth element of a rotation is read from
  the third; a speed of 0 divides by it.
* Reactions: one pressed while a transition runs is forced in the new scene.
* Audio: options changed while muted are lost; a plugin reloaded while muted saves zeros, and gives
  back full volume for them.
* Log: expired toasts are erased only while a log line is shown (`Logger.cpp:134`). A disconnected
  pad keeps its last held buttons (`HidInput.cpp:73`).
* Hooks: a conditional branch that goes back is sent far forward (`And64InlineHook.cpp:203`); the
  words `Spoiled` names are wrong in their new place (320, 381, 405).
* Tables: `it.starts_with(sheetName)` (`BdatOverride.cpp:18`) skips more sheets than "these
  specific" ones (`docs/config.md:28`), every sheet whose name is the beginning of an entry, which
  `TablesFollowFile` states as the code has it; an override file that names only rows below a sheet's first makes the count wrap (100); a
  value its member's type cannot hold ends the program (164); an override longer than what was read
  is read past the buffer's length (`FileDetours.cpp:41`); counts ignore the list of skipped sheets;
  `docs/config.md:29` lists
  `CHR_EnArrange`, which the default does not.
* Settings: a list malformed in the game's section keeps its first elements, a wrong scalar gives the
  default; a file that does not parse resets all without telling the logger. `ReloadConfig` has no
  caller, although `docs/menu.md:198` names a menu entry for it.
* Plugins: `RomMountedHook` fills a manager of its own while `GetContainingPlugin` asks the static
  one. A hash whose module fails to load stays registered with ro. Module registry: the 33rd
  module is dropped silently.

## 8. Running it

```
tlc -workers 2 -config MCMenuHelperMenus.cfg MCMenuHelper.tla
tlapm Targeting_proofs.tla
```

`PROJECT.json` gives module and configuration of each run. A run takes from seconds to three
minutes; the proofs of a module take from half a minute to five minutes from nothing.
