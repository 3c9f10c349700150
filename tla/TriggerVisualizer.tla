--------------------------- MODULE TriggerVisualizer ---------------------------
(* The trigger visualizer and the tutorial tools of                            *)
(* src/xenomods/modules/DebugStuff.cpp.  Hooks on the updates of the game's    *)
(* tutorials, events, landmarks and collection points enter these objects in   *)
(* four registries; Update gives each entry a world model, one new model per   *)
(* registry and frame; a scene transition empties the registries.              *)
(*                                                                             *)
(* Tutorials can be made to repeat, and a tutorial that has begun lets         *)
(* Targeting walk on through the control lock it causes.                       *)
(*                                                                             *)
(* Models are game objects: a handle is used again once its object is gone.    *)
EXTENDS Integers, FiniteSets, SequencesExt, SceneTransition

CONSTANTS
    Tutorials, Events, Landmarks, Points,   \* the game's trigger objects
    MaxEntries,                             \* entries of each registry: 128, of points 256
    Handles,                                \* game objects the engine has room for
    NoHandle,
    NoTrigger,
    FlagIds, NoFlag,                        \* the flags an object may have, its alone
    ArmFrames                               \* tutorialControlLockArmFrames: 30

Kinds == {"tutorial", "cutscene", "landmark", "collection"}

ASSUME TriggersAssumption ==
    /\ MaxEntries \in [Kinds -> Nat]
    /\ NoHandle \notin Handles /\ NoTrigger \notin Tutorials
    /\ \A t \in Tutorials : FlagIds[t] # {} /\ NoFlag \notin FlagIds[t]
    /\ ArmFrames \in Nat \ {0}

Objects == [tutorial |-> Tutorials, cutscene |-> Events,
            landmark |-> Landmarks, collection |-> Points]
Trigger == Tutorials \cup Events \cup Landmarks \cup Points

FlagId == UNION {FlagIds[t] : t \in Tutorials}
Flags == {f \in [Tutorials -> FlagId] : \A t \in Tutorials : f[t] \in FlagIds[t]}

Entry == [object : Trigger,
          hasShape : BOOLEAN,                               \* the game has given it a volume
          flagId : FlagId \cup {NoFlag},                     \* tutorials only
          inside : BOOLEAN,                                 \* tutorials: as last captured
          repeatSuppressedUntilExit : BOOLEAN,              \* tutorials only
          model : Handles \cup {NoHandle},
          name : {"Unchecked", "Valid", "Rejected"},        \* modelNameChecked, -Valid
          rendering : BOOLEAN]                              \* renderStage is Rendering

VARIABLES
    registry,               \* the four registries, in order of discovery
    render,                 \* the four Render checkboxes
    repeatTutorialFlag, pauseTutorialRepeatUntilExit,
    control,                \* tutorialControlTrigger, -LockObserved, -LockArmFrames
    live,                   \* game: the models that exist
    within,                 \* game: the tutorials' triggers the player stands in
    flag,                   \* game: which of its flags a tutorial object has now
    done,                   \* game: the flags of tutorials that are set
    bypass,                 \* the last poll's answer: Targeting walks through the lock
    lock,                   \* history: the control lock since the last tutorial began
    begun                   \* history: tutorials begun since last seen outside

models == <<registry, live>>
options == <<render, repeatTutorialFlag, pauseTutorialRepeatUntilExit>>
game == <<within, flag, done>>
triggerVars == <<models, options, control, game, bypass, lock, begun, sceneTransition>>

NoControl == [trigger |-> NoTrigger, observed |-> FALSE, arm |-> 0]

TriggersTypeOK ==
    /\ SceneTransitionTypeOK
    /\ registry \in [Kinds -> Seq(Entry)]
    /\ \A k \in Kinds :
          /\ Len(registry[k]) <= MaxEntries[k]
          /\ \A i \in DOMAIN registry[k] : registry[k][i].object \in Objects[k]
    /\ render \in [Kinds -> BOOLEAN]
    /\ repeatTutorialFlag \in BOOLEAN /\ pauseTutorialRepeatUntilExit \in BOOLEAN
    /\ control \in [trigger : Tutorials \cup {NoTrigger}, observed : BOOLEAN,
                    arm : 0 .. ArmFrames]
    /\ live \subseteq Handles
    /\ within \subseteq Tutorials /\ begun \subseteq Tutorials
    /\ flag \in Flags /\ done \subseteq Tutorials \X FlagId
    /\ bypass \in BOOLEAN
    /\ lock \in {"Awaited", "Held", "Released"}

-------------------------------------------------------------------------------
(* Registries. *)

\* Events and landmarks, which the code treats alike.
Named(k) == k \in {"cutscene", "landmark"}

Find(k, object) == {i \in DOMAIN registry[k] : registry[k][i].object = object}

NewEntry(object) ==
    [object |-> object, hasShape |-> FALSE, inside |-> FALSE,
     flagId |-> IF object \in Tutorials THEN flag[object] ELSE NoFlag,
     repeatSuppressedUntilExit |-> FALSE, model |-> NoHandle, name |-> "Unchecked",
     rendering |-> FALSE]

\* The registry with the object in it, unless it is full or a transition runs.
Entered(k, object) ==
    IF IsSceneTransitionActive \/ Find(k, object) # {} \/ Len(registry[k]) >= MaxEntries[k]
    THEN registry[k]
    ELSE Append(registry[k], NewEntry(object))

\* GetTutorialTriggerBox: the game has a volume of a known, finite form, or not yet.
Volume == BOOLEAN

\* CaptureCutsceneTrigger and its like: the object's entry, made if need be, reads
\* the game's volume; where the player stands is only displayed.
Captured(object, hasShape, entries) ==
    [i \in DOMAIN entries |->
        IF entries[i].object # object \/ IsSceneTransitionActive THEN entries[i]
        ELSE [entries[i] EXCEPT !.hasShape = hasShape]]

\* CaptureTutorialTrigger: an object that has got another flag is another tutorial.
Recaptured(entry, t, hasShape) ==
    [entry EXCEPT !.hasShape = hasShape,
                  !.inside = t \in within,
                  !.flagId = flag[t],
                  !.repeatSuppressedUntilExit = entry.flagId = flag[t] /\ @]

CapturedTutorial(t, hasShape, entries) ==
    [i \in DOMAIN entries |->
        IF entries[i].object # t \/ IsSceneTransitionActive THEN entries[i]
        ELSE Recaptured(entries[i], t, hasShape)]

\* The update hooks of events and landmarks.
TriggerUpdate(k, object) ==
    /\ Named(k) /\ object \in Objects[k]
    /\ \E hasShape \in Volume :
          registry' = [registry EXCEPT ![k] = Captured(object, hasShape, Entered(k, object))]
    /\ UNCHANGED <<options, control, live, game, bypass, lock, begun, sceneTransition>>

\* CaptureCollectionPoint: a point has a volume while the game gives it a position.
CapturedPoint(object, positioned, entries) ==
    [i \in DOMAIN entries |->
        IF entries[i].object # object \/ IsSceneTransitionActive THEN entries[i]
        ELSE [entries[i] EXCEPT !.hasShape = positioned]]

CollectionUpdate(object) ==
    /\ object \in Points
    /\ \E positioned \in BOOLEAN :
          registry' = [registry EXCEPT !["collection"] =
             CapturedPoint(object, positioned, Entered("collection", object))]
    /\ UNCHANGED <<options, control, live, game, bypass, lock, begun, sceneTransition>>

-------------------------------------------------------------------------------
(* Models. *)

Owned(entries) == {entries[i].model : i \in DOMAIN entries} \ {NoHandle}

Destroyed(entry) == [entry EXCEPT !.model = NoHandle, !.rendering = FALSE]

\* A checkbox of the Render tab: the models of that kind go, either way.
Reset(entries) ==
    [i \in DOMAIN entries |-> [Destroyed(entries[i]) EXCEPT !.name = "Unchecked"]]

ToggleRender(k) ==
    /\ render' = [render EXCEPT ![k] = ~@]
    /\ live' = live \ Owned(registry[k])
    /\ registry' = [registry EXCEPT ![k] = Reset(@)]
    /\ UNCHANGED <<repeatTutorialFlag, pauseTutorialRepeatUntilExit, control, game, bypass,
                   lock, begun, sceneTransition>>

\* CreateTriggerModel asks the engine for an object; it may have none to give, or
\* the resource table may not be there or not be the expected one.
Creatable(k, entries) ==
    {i \in DOMAIN entries :
        /\ entries[i].model = NoHandle /\ entries[i].hasShape
        /\ Named(k) => entries[i].name # "Rejected"}

\* UpdateTriggerModel: a model is seen once all of its parts have loaded, and stays,
\* wherever its volume has gone, until it is destroyed.
Shown(entry, loaded) ==
    IF entry.model = NoHandle \/ ~entry.hasShape THEN entry
    ELSE [entry EXCEPT !.rendering = entry.object \in loaded]

\* The model of an event or landmark is compared by name with what was asked for,
\* once it has a name, and destroyed if it is another.
Compared(k, entry) == Named(k) /\ entry.model # NoHandle /\ entry.name = "Unchecked"
Rejected(k, entry, others) == Compared(k, entry) /\ entry.object \in others

\* Mutant: a rejected model is forgotten, not destroyed.
ForgottenModels(k, entries, others) == {}

DestroyedModels(k, entries, others) ==
    {entries[i].model : i \in {j \in DOMAIN entries : Rejected(k, entries[j], others)}}

Checked(k, entry, expected, others) ==
    IF Rejected(k, entry, others) THEN [Destroyed(entry) EXCEPT !.name = "Rejected"]
    ELSE IF Compared(k, entry) /\ entry.object \in expected
         THEN [entry EXCEPT !.name = "Valid"]
    ELSE entry

\* Update...TriggerModels of one kind: one new model at most, at any place the
\* engine's refusals leave.
UpdatedModels(entries, new, handle, loaded) ==
    [i \in DOMAIN entries |->
        IF i = new THEN [entries[i] EXCEPT !.model = handle] ELSE Shown(entries[i], loaded)]

\* Collection points are captured again by the update itself.
Refreshed(k, positioned) ==
    IF k = "collection"
    THEN [i \in DOMAIN registry[k] |->
             [registry[k][i] EXCEPT !.hasShape = registry[k][i].object \in positioned]]
    ELSE registry[k]

Listed(k) == {registry[k][i].object : i \in DOMAIN registry[k]}

\* The models that may turn out to be, or not to be, what was asked for.
Answers(k) == IF Named(k) THEN SUBSET Listed(k) ELSE {{}}

\* Where a model is made this frame, and its object: at one entry, or nowhere.
NewModels(k, entries) ==
    {<<0, NoHandle>>} \cup (Creatable(k, entries) \X (Handles \ live))

\* One kind's part of Update.  The four parts share nothing but the engine's
\* objects; each is a step of its own.
UpdateModels(k) ==
    /\ render[k]
    /\ \E positioned \in (IF k = "collection" THEN SUBSET Listed(k) ELSE {{}}),
          loaded \in SUBSET Listed(k),
          expected \in Answers(k), others \in Answers(k) :
       \E new \in NewModels(k, Refreshed(k, positioned)) :
       LET updated == UpdatedModels(Refreshed(k, positioned), new[1], new[2], loaded)
       IN  /\ registry' = [registry EXCEPT ![k] =
                  [i \in DOMAIN updated |-> Checked(k, updated[i], expected, others)]]
           /\ live' = (live \cup ({new[2]} \ {NoHandle}))
                      \ DestroyedModels(k, updated, others)
    /\ UNCHANGED <<options, control, game, bypass, lock, begun, sceneTransition>>

-------------------------------------------------------------------------------
(* Tutorials. *)

\* LocalGameFlagHook: what the game reads for a tutorial's flag.  With Repeat on, a
\* tutorial registered under it looks unseen: always to its own update, to the others
\* until it has begun and, with the pause option, again once its trigger was left.
ReadsUnseen(t, ownUpdate) ==
    \/ <<t, flag[t]>> \notin done
    \/ /\ repeatTutorialFlag
       /\ \E i \in Find("tutorial", t) :
             /\ registry.tutorial[i].flagId = flag[t]
             /\ \/ ~pauseTutorialRepeatUntilExit
                \/ ownUpdate
                \/ ~registry.tutorial[i].repeatSuppressedUntilExit

\* TutorialBeginHook.  The game begins a tutorial the player stands in when its flag
\* reads unseen outside the tutorial's own update, and sets the flag when it likes;
\* no tutorial begins on a loading screen.
TutorialBegin(t) ==
    /\ t \in Tutorials /\ t \in within /\ ~IsSceneTransitionActive
    /\ ReadsUnseen(t, FALSE)
    /\ \E hasShape \in Volume :
       LET captured == CapturedTutorial(t, hasShape, Entered("tutorial", t))
           repeats == repeatTutorialFlag /\ pauseTutorialRepeatUntilExit
       IN  registry' = [registry EXCEPT !.tutorial =
              [i \in DOMAIN captured |->
                 IF captured[i].object = t /\ repeats
                 THEN [captured[i] EXCEPT !.repeatSuppressedUntilExit = TRUE]
                 ELSE captured[i]]]
    /\ control' = [trigger |-> t, observed |-> FALSE, arm |-> ArmFrames]
    /\ \E seen \in BOOLEAN : done' = IF seen THEN done \cup {<<t, flag[t]>>} ELSE done
    /\ lock' = "Awaited"
    /\ begun' = begun \cup {t}
    /\ UNCHANGED <<options, live, within, flag, bypass, sceneTransition>>

\* Mutant: the update itself re-arms the tutorial.
RearmedByUpdate(entry, t) ==
    IF entry.object = t
    THEN [entry EXCEPT !.repeatSuppressedUntilExit = FALSE] ELSE entry

\* TutorialUpdateHook: captured before and after, and free to repeat once outside.
Rearmed(entry, t) ==
    IF entry.object = t /\ ~entry.inside
    THEN [entry EXCEPT !.repeatSuppressedUntilExit = FALSE] ELSE entry

TutorialUpdate(t) ==
    /\ t \in Tutorials
    /\ \E hasShape \in Volume :
       LET captured == CapturedTutorial(t, hasShape, Entered("tutorial", t))
       IN  registry' = [registry EXCEPT !.tutorial =
              IF IsSceneTransitionActive THEN captured
              ELSE [i \in DOMAIN captured |-> Rearmed(captured[i], t)]]
    /\ begun' = IF t \in within THEN begun ELSE begun \ {t}
    /\ UNCHANGED <<options, control, live, game, bypass, lock, sceneTransition>>

\* The two Repeat checkboxes let every tutorial repeat at once.
ResetTutorialRepeatCycle ==
    /\ registry' = [registry EXCEPT !.tutorial =
          [i \in DOMAIN @ |-> [@[i] EXCEPT !.repeatSuppressedUntilExit = FALSE]]]
    /\ begun' = {}
    /\ UNCHANGED <<render, control, live, game, bypass, lock, sceneTransition>>

ToggleRepeat ==
    /\ repeatTutorialFlag' = ~repeatTutorialFlag
    /\ UNCHANGED pauseTutorialRepeatUntilExit
    /\ ResetTutorialRepeatCycle

TogglePause ==
    /\ pauseTutorialRepeatUntilExit' = ~pauseTutorialRepeatUntilExit
    /\ UNCHANGED repeatTutorialFlag
    /\ ResetTutorialRepeatCycle

\* ShouldBypassControlLockForTutorial, which Targeting asks once a frame.
StillBegun ==
    /\ control.trigger # NoTrigger
    /\ Find("tutorial", control.trigger) # {}
    /\ control.trigger \in within

\* Mutant: only the frame count ends the exception.
FreeFrameCounts ==
    IF control.arm <= 1 THEN NoControl ELSE [control EXCEPT !.arm = @ - 1]

\* A released lock, or ArmFrames free frames, end the exception.
AfterFreeFrame ==
    IF control.observed \/ control.arm <= 1 THEN NoControl
    ELSE [control EXCEPT !.arm = @ - 1]

ShouldBypassControlLockForTutorial(controlFree) ==
    /\ ~IsSceneTransitionActive
    /\ bypass' = (StillBegun /\ ~controlFree)
    /\ control' = IF ~StillBegun THEN NoControl
                  ELSE IF controlFree THEN AfterFreeFrame
                  ELSE [control EXCEPT !.observed = TRUE]
    /\ lock' = IF controlFree THEN (IF lock = "Held" THEN "Released" ELSE lock)
               ELSE (IF lock = "Awaited" THEN "Held" ELSE lock)
    /\ UNCHANGED <<models, options, game, begun, sceneTransition>>

-------------------------------------------------------------------------------
(* The scene, the player, and the whole. *)

\* Mutant: the registries are emptied and their models left in the world.
ClearKeepsModels ==
    /\ registry' = [k \in Kinds |-> <<>>]
    /\ live' = live
    /\ control' = NoControl
    /\ bypass' = FALSE /\ lock' = "Released" /\ begun' = {}

\* OnSceneTransition: the four Clear...Registry.
ClearRegistries ==
    /\ registry' = [k \in Kinds |-> <<>>]
    /\ live' = live \ UNION {Owned(registry[k]) : k \in Kinds}
    /\ control' = NoControl
    /\ bypass' = FALSE /\ lock' = "Released" /\ begun' = {}

\* A transition that runs already is not announced to the modules again.
SceneChange ==
    /\ MapjumpArms \/ ReloadBegins
    /\ IF IsSceneTransitionActive
       THEN UNCHANGED <<models, control, bypass, lock, begun>>
       ELSE ClearRegistries
    /\ UNCHANGED <<options, game>>

SceneReady ==
    /\ EndSceneTransition
    /\ UNCHANGED <<models, options, control, game, bypass, lock, begun>>

\* The player walks into a tutorial's trigger or out of it.
Walk(t) ==
    /\ within' = (within \ {t}) \cup ({t} \ within)
    /\ UNCHANGED <<models, options, control, flag, done, bypass, lock, begun,
                   sceneTransition>>

\* The game makes the object stand for another tutorial, which has not begun.
GiveFlag(t) ==
    /\ \E id \in FlagIds[t] : flag' = [flag EXCEPT ![t] = id]
    /\ begun' = begun \ {t}
    /\ UNCHANGED <<models, options, control, within, done, bypass, lock, sceneTransition>>

TriggersInit ==
    /\ SceneTransitionInit
    /\ registry = [k \in Kinds |-> <<>>]
    /\ render = [k \in Kinds |-> FALSE]
    /\ repeatTutorialFlag = FALSE /\ pauseTutorialRepeatUntilExit = TRUE
    /\ control = NoControl
    /\ live = {} /\ within = {} /\ done = {} /\ begun = {}
    /\ flag \in Flags
    /\ bypass = FALSE /\ lock = "Released"

VisualizerNext ==
    \/ \E k \in Kinds : ToggleRender(k) \/ UpdateModels(k)
    \/ \E k \in Kinds, object \in Trigger : TriggerUpdate(k, object)
    \/ \E object \in Points : CollectionUpdate(object)
    \/ \E t \in Tutorials : TutorialUpdate(t)
    \/ SceneChange \/ SceneReady

TutorialsNext ==
    \/ \E t \in Tutorials : TutorialBegin(t) \/ TutorialUpdate(t)
    \/ ToggleRepeat \/ TogglePause
    \/ \E controlFree \in BOOLEAN : ShouldBypassControlLockForTutorial(controlFree)
    \/ \E t \in Tutorials : Walk(t) \/ GiveFlag(t)
    \/ SceneChange \/ SceneReady

TriggersNext == VisualizerNext \/ TutorialsNext

TriggersSpec == TriggersInit /\ [][TriggersNext]_triggerVars

-------------------------------------------------------------------------------
(* Properties. *)

\* Every model in the world is held by one entry, so that it can be destroyed; no
\* entry holds a handle that was destroyed, which may be another object by now; and
\* none is left in a scene that is being torn down.
ModelsAreOwned ==
    /\ live = UNION {Owned(registry[k]) : k \in Kinds}
    /\ \A j, k \in Kinds : \A i \in DOMAIN registry[j], h \in DOMAIN registry[k] :
          registry[j][i].model = registry[k][h].model /\ registry[j][i].model # NoHandle
             => j = k /\ i = h
    /\ IsSceneTransitionActive => live = {}

\* A tutorial's exceptions last for one visit: Targeting walks through one control
\* lock for each that begins, not through a later one, such as a collection
\* animation, in the same volume; and once begun, a tutorial that was seen before
\* reads as seen, so that it does not begin again before its trigger was left, or its
\* object was given to another tutorial.
BypassCoversOneLock == bypass => lock # "Released"
RepeatsOncePerVisit ==
    \A t \in begun : <<t, flag[t]>> \in done /\ pauseTutorialRepeatUntilExit =>
        ~ReadsUnseen(t, FALSE)

TutorialServesOneVisit == BypassCoversOneLock /\ RepeatsOncePerVisit

================================================================================
