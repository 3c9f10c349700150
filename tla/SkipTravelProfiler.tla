-------------------------- MODULE SkipTravelProfiler --------------------------
(* The skip-travel part of src/xenomods/modules/SkipTravelProfiler.cpp: one    *)
(* run of events from the X button or the open command to the handover of      *)
(* input, a ring of finished runs, and the forced handover: once the opening   *)
(* is ForcedFullscreenInputFrame frames old, Update enables the fullscreen     *)
(* input and shows the operation controls by itself, and the game's own call   *)
(* for the same controls is swallowed when it comes.                           *)
(*                                                                             *)
(* The game opens one skip-travel screen at a time; its stages run in any      *)
(* order, except that it asks for the controls after it enabled the input, on  *)
(* the object that received the point list's open event.  The player can leave *)
(* only with the input enabled, in a later frame.                              *)
(*                                                                             *)
(* Of an event only its kind is kept, and of the kinds only those that         *)
(* HasEvent asks for; the others count.  Of the frame counter only the age of  *)
(* an armed opening is kept, as far as it is compared.                         *)
EXTENDS Integers, FiniteSets

CONSTANTS
    ControlsObject,             \* UI objects that may hold the operation controls
    MaxEvents,                  \* 192 in the code
    HistoryCapacity,            \* 8 in the code
    ForcedFullscreenInputFrame, \* 42 in the code
    MaxRunId,                   \* bound: runs started
    PointList                   \* game: what the tracked point list may read as

Milestones == {"OpenCommandQueued", "SeqNextComplete", "FullscreenInputEnabled",
               "OperationControlsRequested"}
Handover == Milestones \ {"OpenCommandQueued"}

Run == [id : 0 .. MaxRunId, events : 0 .. MaxEvents, has : SUBSET Milestones,
        running : BOOLEAN, completed : BOOLEAN]
NoRun == [id |-> 0, events |-> 0, has |-> {}, running |-> FALSE, completed |-> FALSE]

\* The forced handover.  age: frames since forcedFullscreenInputStartFrame.
NotForced == [armed |-> FALSE, confirmed |-> FALSE, age |-> 0, object |-> 0]

\* What is known of the world map's point list, and of the animation hooked in it.
Untracked == [map |-> FALSE, state |-> "none", animation |-> FALSE]

VARIABLES
    captureEnabled,
    currentRun, history, historyWrite, historyCount, nextRunId,
    forced,                 \* forcedFullscreenInput*, forcedOperationControlsObject
    suppressed,             \* suppressNativeOperationControlsObject
    tracked,                \* trackedWorldMap, lastPointList*, trackedAnimationObject
    screen                  \* game: the skip-travel screen, and what was shown on it

profilerVars ==
    <<captureEnabled, currentRun, history, historyWrite, historyCount, nextRunId,
     forced, suppressed, tracked, screen>>

\* open: created and not left.  input: enabled by anyone, native: by the game;
\* usable: enabled in an earlier frame.  asked, shown: the controls, as the game
\* asked for them and as they came up.
NoScreen == [open |-> FALSE, input |-> FALSE, native |-> FALSE, usable |-> FALSE,
             object |-> 0, asked |-> FALSE, shown |-> 0]

Slot == 0 .. HistoryCapacity - 1

ProfilerTypeOK ==
    /\ captureEnabled \in BOOLEAN
    /\ currentRun \in Run
    /\ history \in [Slot -> Run]
    /\ historyWrite \in Slot
    /\ historyCount \in 0 .. HistoryCapacity
    /\ nextRunId \in 1 .. MaxRunId + 1
    /\ forced \in [armed : BOOLEAN, confirmed : BOOLEAN,
                   age : 0 .. ForcedFullscreenInputFrame, object : ControlsObject \cup {0}]
    /\ suppressed \in ControlsObject \cup {0}
    /\ tracked \in [map : BOOLEAN, state : PointList \cup {"none"}, animation : BOOLEAN]

-------------------------------------------------------------------------------
(* A call runs several of these in turn on w, the profiler's state. *)

World == [run |-> currentRun, history |-> history, write |-> historyWrite,
          count |-> historyCount, next |-> nextRunId, forced |-> forced,
          suppressed |-> suppressed, tracked |-> tracked]

Becomes(w) ==
    /\ currentRun' = w.run /\ history' = w.history /\ historyWrite' = w.write
    /\ historyCount' = w.count /\ nextRunId' = w.next /\ forced' = w.forced
    /\ suppressed' = w.suppressed /\ tracked' = w.tracked

\* RecordEvent: a full buffer drops the event, milestones included.
RecordEvent(w, event) ==
    IF ~w.run.running \/ w.run.events = MaxEvents
    THEN w
    ELSE [w EXCEPT !.run.events = @ + 1, !.run.has = @ \cup ({event} \cap Milestones)]

\* Two stages of the same call, which touch nothing in between.
RecordStages(w) == RecordEvent(RecordEvent(w, "Stage"), "Stage")

NextSlot(w) == (w.write + 1) % HistoryCapacity

SaveCurrentRun(w) ==
    IF w.run.id = 0 \/ w.run.events = 0
    THEN w
    ELSE [w EXCEPT !.history[w.write] = w.run, !.write = NextSlot(w),
                   !.count = IF w.count < HistoryCapacity THEN w.count + 1 ELSE w.count]

FinishRun(w, completed) ==
    IF ~w.run.running
    THEN w
    ELSE SaveCurrentRun([w EXCEPT !.run.running = FALSE, !.run.completed = completed])

FinishRunWhenReady(w) ==
    IF w.run.running /\ Handover \subseteq w.run.has THEN FinishRun(w, TRUE) ELSE w

Interrupt(w) ==
    IF w.run.running THEN FinishRun(RecordEvent(w, "Interrupted"), FALSE) ELSE w

\* ResetNativeTracking.
ResetNativeTracking(w) == [w EXCEPT !.tracked = Untracked]

StartRun(w, fromXButton) ==
    LET started == [Interrupt(w) EXCEPT
            !.run = [NoRun EXCEPT !.id = w.next, !.running = TRUE],
            !.next = w.next + 1]
    IN  IF ~captureEnabled
        THEN w
        ELSE IF fromXButton
        THEN RecordEvent(ResetNativeTracking(started), "ButtonPressed")
        ELSE ResetNativeTracking(started)

EnsureRun(w) == IF captureEnabled /\ ~w.run.running THEN StartRun(w, FALSE) ELSE w

\* ObserveWorldMap: the map's point list is looked up until there is one.
ObserveWorldMap(w, list) ==
    IF ~w.run.running \/ (w.tracked.map /\ w.tracked.state # "none")
    THEN w
    ELSE IF list = "none"
    THEN [w EXCEPT !.tracked.map = TRUE]
    ELSE RecordEvent([w EXCEPT !.tracked.map = TRUE, !.tracked.state = list], "Stage")

SamplePointListState(w, list) ==
    IF ~w.run.running \/ ~w.tracked.map \/ list = "none"
    THEN w
    ELSE IF w.tracked.state = "none"
    THEN ObserveWorldMap(w, list)
    ELSE IF w.tracked.state = list
    THEN w
    ELSE RecordEvent([w EXCEPT !.tracked.state = list], "Stage")

\* SampleTrackedAnimation, of an animation that moved or did not.
SampleTrackedAnimation(w, moved) ==
    IF w.tracked.animation /\ moved THEN RecordEvent(w, "Stage") ELSE w

-------------------------------------------------------------------------------
(* The forced handover. *)

ArmForcedFullscreenInput(w) ==
    IF w.forced.armed
    THEN w
    ELSE [w EXCEPT !.forced = [NotForced EXCEPT !.armed = TRUE], !.suppressed = 0]

CancelForcedFullscreenInput(w) == [w EXCEPT !.forced = NotForced]

\* FullscreenInputEnableHook, for input slot 2.
\* Mutant: the game's own handover does not disarm the forced one.
EnabledAndStillArmed(w) == RecordEvent(w, "FullscreenInputEnabled")

FullscreenInputEnabled(w) ==
    RecordEvent(CancelForcedFullscreenInput(w), "FullscreenInputEnabled")

\* OperationControlsAddHook, once the native call is made.
OperationControlsAdded(w) ==
    IF w.run.running /\ "FullscreenInputEnabled" \in w.run.has
    THEN RecordEvent(w, "OperationControlsRequested")
    ELSE w

\* Update's condition, the frame being counted.
ForcesHandover(f) ==
    f.armed /\ f.confirmed /\ f.object # 0 /\ f.age = ForcedFullscreenInputFrame

HandOver(w) ==
    [OperationControlsAdded(FullscreenInputEnabled(w)) EXCEPT !.suppressed = w.forced.object]

\* The frame is counted before the age is compared.
Aged(w) ==
    IF w.forced.armed /\ w.forced.age < ForcedFullscreenInputFrame
    THEN [w EXCEPT !.forced.age = @ + 1]
    ELSE w

ProfilerUpdate(list, moved) ==
    LET w == Aged(World)
        handed == IF ForcesHandover(w.forced) THEN HandOver(w) ELSE w
        sampled == SampleTrackedAnimation(SamplePointListState(handed, list), moved)
    IN  /\ Becomes(FinishRunWhenReady(sampled))
        /\ screen' = IF ForcesHandover(w.forced)
                     THEN [screen EXCEPT !.input = TRUE, !.usable = screen.input,
                                         !.shown = @ + 1]
                     ELSE [screen EXCEPT !.usable = screen.input]
        /\ UNCHANGED captureEnabled

-------------------------------------------------------------------------------
(* Opening: the X button and the open command, hooked in MenuHelper. *)

OnOpenCommandStarted(w) ==
    RecordEvent(EnsureRun(ArmForcedFullscreenInput(w)), "OpenCommandStarted")

OnOpenCommandResult(w, created) ==
    IF created
    THEN RecordEvent([w EXCEPT !.forced.confirmed = w.forced.armed], "OpenCommandQueued")
    ELSE FinishRun(RecordEvent(CancelForcedFullscreenInput(w), "OpenCommandRejected"), FALSE)

OpenCommand(w, created) == OnOpenCommandResult(OnOpenCommandStarted(w), created)

\* OnOpenButtonFinished's two early outs.
OnOpenButtonFinished(w) ==
    LET disarmed == IF w.forced.confirmed THEN w ELSE CancelForcedFullscreenInput(w)
    IN  IF w.run.running /\ "OpenCommandQueued" \notin w.run.has
        THEN FinishRun(RecordEvent(disarmed, "OpenCommandRejected"), FALSE)
        ELSE disarmed

\* Bound: runs started.
MayStart == nextRunId <= MaxRunId

Opens(created) == screen' = IF created THEN [NoScreen EXCEPT !.open = TRUE] ELSE screen

\* The open command by itself.
MainMenuCreate(created) ==
    /\ MayStart /\ ~screen.open
    /\ Becomes(OpenCommand(World, created))
    /\ Opens(created)
    /\ UNCHANGED captureEnabled

\* The X button, whose handler makes the command or makes none.
TravelButtonOpen(commands, created) ==
    /\ MayStart /\ ~screen.open
    /\ created => commands
    /\ LET pressed == StartRun(ArmForcedFullscreenInput(World), TRUE)
       IN  Becomes(OnOpenButtonFinished(
               IF commands THEN OpenCommand(pressed, created) ELSE pressed))
    /\ Opens(created)
    /\ UNCHANGED captureEnabled

-------------------------------------------------------------------------------
(* The screen's stages. *)

\* Any hook that records one event of no consequence, with the world map or without.
NativeStage(onMap, list) ==
    /\ screen.open
    /\ Becomes(RecordEvent(IF onMap THEN ObserveWorldMap(World, list) ELSE World, "Stage"))
    /\ UNCHANGED <<captureEnabled, screen>>

\* WorldSeqNextHook and ZoneSeqNextHook.
SeqNext(onMap, list, finished) ==
    LET started == RecordEvent(IF onMap THEN ObserveWorldMap(World, list) ELSE World, "Stage")
    IN  /\ screen.open
        /\ Becomes(IF finished THEN RecordEvent(started, "SeqNextComplete") ELSE started)
        /\ UNCHANGED <<captureEnabled, screen>>

\* PointSelectEventHook with the open event: the recipient will hold the controls.
\* The game starts the point's animation and hooks it, or does not.
PointOpen(object, list, hooks, moved) ==
    LET seen == ObserveWorldMap(World, list)
        taken == [seen EXCEPT
            !.forced.object = IF seen.forced.armed /\ seen.forced.confirmed THEN object ELSE @,
            !.tracked.animation = FALSE]
        hooked == RecordStages([RecordEvent(taken, "Stage") EXCEPT
                      !.tracked.animation = taken.run.running])
        opened == RecordEvent(IF hooks THEN SampleTrackedAnimation(hooked, TRUE)
                              ELSE RecordEvent(taken, "Stage"), "Stage")
    IN  /\ screen.open /\ screen.object \in {0, object}
        /\ Becomes(SampleTrackedAnimation(SamplePointListState(opened, list), TRUE))
        /\ screen' = [screen EXCEPT !.object = object]
        /\ UNCHANGED captureEnabled

\* PointSelectEventHook with the animation's end.
PointAnimationComplete(list) ==
    /\ screen.open
    /\ Becomes(RecordStages(SampleTrackedAnimation(ObserveWorldMap(World, list), TRUE)))
    /\ UNCHANGED <<captureEnabled, screen>>

\* The game enables the fullscreen input.
EnableInput ==
    /\ screen.open
    /\ Becomes(FullscreenInputEnabled(World))
    /\ screen' = [screen EXCEPT !.input = TRUE, !.native = TRUE]
    /\ UNCHANGED captureEnabled

Swallows(object) == object = suppressed

\* The game asks for the operation controls.
AddOperationControls(object) ==
    /\ screen.open /\ screen.native /\ ~screen.asked
    /\ screen.object \in {0, object}
    /\ IF Swallows(object)
       THEN Becomes([World EXCEPT !.suppressed = 0])
       ELSE Becomes(OperationControlsAdded(World))
    /\ screen' = [screen EXCEPT !.asked = TRUE, !.object = object,
                                !.shown = IF Swallows(object) THEN @ ELSE @ + 1]
    /\ UNCHANGED captureEnabled

\* Controls of another kind, which count for the run as well.
AddOtherControls ==
    /\ screen.open
    /\ Becomes(OperationControlsAdded(World))
    /\ UNCHANGED <<captureEnabled, screen>>

\* The player leaves.
Leave ==
    /\ screen.usable
    /\ screen' = NoScreen
    /\ UNCHANGED <<captureEnabled, currentRun, history, historyWrite, historyCount,
                   nextRunId, forced, suppressed, tracked>>

ProfilerSceneTransition ==
    /\ Becomes([ResetNativeTracking(CancelForcedFullscreenInput(Interrupt(World)))
                    EXCEPT !.suppressed = 0])
    /\ screen' = NoScreen
    /\ UNCHANGED captureEnabled

-------------------------------------------------------------------------------
(* The window. *)

ToggleCapture ==
    /\ captureEnabled' = ~captureEnabled
    /\ Becomes(IF captureEnabled THEN Interrupt(World) ELSE World)
    /\ UNCHANGED screen

\* "Clear" forgets the current run and the history, and goes on counting.
ClearRuns ==
    /\ currentRun' = NoRun
    /\ history' = [slot \in Slot |-> NoRun]
    /\ historyWrite' = 0 /\ historyCount' = 0
    /\ UNCHANGED <<captureEnabled, nextRunId, forced, suppressed, tracked, screen>>

ProfilerInit ==
    /\ captureEnabled = TRUE
    /\ currentRun = NoRun
    /\ history = [slot \in Slot |-> NoRun]
    /\ historyWrite = 0 /\ historyCount = 0 /\ nextRunId = 1
    /\ forced = NotForced /\ suppressed = 0
    /\ tracked = Untracked
    /\ screen = NoScreen

Opening ==
    \E created \in BOOLEAN :
        \/ MainMenuCreate(created)
        \/ \E commands \in BOOLEAN : TravelButtonOpen(commands, created)

Stages ==
    \/ \E list \in PointList \cup {"none"}, onMap \in BOOLEAN :
           \/ NativeStage(onMap, list)
           \/ \E finished \in BOOLEAN : SeqNext(onMap, list, finished)
           \/ PointAnimationComplete(list)
           \/ \E object \in ControlsObject, hooks \in BOOLEAN, moved \in BOOLEAN :
                  PointOpen(object, list, hooks, moved)
    \/ EnableInput
    \/ \E object \in ControlsObject : AddOperationControls(object)
    \/ AddOtherControls
    \/ Leave

ProfilerNext ==
    \/ \E list \in PointList \cup {"none"}, moved \in BOOLEAN : ProfilerUpdate(list, moved)
    \/ Opening \/ Stages
    \/ ProfilerSceneTransition
    \/ ToggleCapture
    \/ ClearRuns

ProfilerSpec == ProfilerInit /\ [][ProfilerNext]_profilerVars

-------------------------------------------------------------------------------
(* Properties. *)

\* The forced handover belongs to one opening: what is armed and confirmed is for
\* the screen that is open and that nobody has handed over yet, so that Update
\* never enables input or shows controls on a screen already left, or twice.
ForcedInputServesOpening ==
    forced.armed /\ forced.confirmed => screen.open /\ ~screen.input

===============================================================================
