-------------------------------- MODULE MCTools --------------------------------
(* The tools that stand alone, in one run: the queue of Blades, the tracer of    *)
(* Art decisions, the triggers, the profiler of skip travel with its two input   *)
(* traces, the background music and the saved settings.  An initial choice says  *)
(* which of them is used; the others stay as they start.                         *)
EXTENDS BladePulls, CombatAiDebug, TriggerVisualizer, InputTraces, AudioControls,
        SkipTravelProfiler, ToolSettings

VARIABLE tool

mcControls == {1, 2}
mcShutList == {"shut"}
mcRareIds == {"Poppi", "Zenobia"}
mcStyles == {"fire"}
Poppi == [kind |-> "Rare", what |-> "Poppi"]
Fire == [kind |-> "Common", what |-> "fire"]

\* Presets of earlier sessions.
mcFirstPreset == {Absent, Unreadable} \cup
    {[enabled |-> FALSE, pulls |-> <<Poppi>>]}
mcSecondPreset == {Absent, Unreadable} \cup
    {[enabled |-> TRUE, pulls |-> queue] : queue \in {<<>>, <<Poppi, Fire>>}}

\* One tutorial object may come to stand for another tutorial.
mcReassigned == CHOOSE t \in Tutorials : TRUE
mcFlagIds == [t \in Tutorials |-> IF t = mcReassigned THEN {1, 2} ELSE {1}]
mcMaxEntries == [tutorial |-> 2, cutscene |-> 1, landmark |-> 1, collection |-> 1]

MCInit ==
    /\ tool \in {"Blades", "Tracer", "Visualizer", "Tutorials", "Openings",
                 "AuxTrace", "TutorialTrace", "Music", "Settings"}
    /\ Init /\ TracerInit /\ TriggersInit
    /\ IF tool = "Blades"
       THEN card[0] \in mcFirstPreset /\ card[1] \in mcSecondPreset
       ELSE card = [preset \in Preset |-> Absent]
    /\ flag = [t \in Tutorials |-> 1]
    /\ ProfilerInit
    /\ AuxTraceInit /\ TutorialTraceInit
    /\ AudioInit
    /\ tool # "Music" => toolWindows = "On" /\ volumeOptions = AllFull
    /\ ToolSettingsInit
    /\ tool # "Settings" => tasSettings = NoFile /\ layoutFile = NoFile

MCNext ==
    /\ UNCHANGED tool
    /\ IF tool = "Blades" THEN Next ELSE UNCHANGED vars
    /\ IF tool = "Tracer" THEN TracerNext ELSE UNCHANGED tracerVars
    \* Whether a tutorial has a volume is of the visualizer alone.
    /\ CASE tool = "Visualizer" -> VisualizerNext
         [] tool = "Tutorials" ->
               /\ TutorialsNext
               /\ \A i \in DOMAIN registry'.tutorial : registry'.tutorial[i].hasShape
         [] OTHER -> UNCHANGED triggerVars
    /\ IF tool = "Openings" THEN ProfilerNext ELSE UNCHANGED profilerVars
    /\ IF tool = "AuxTrace" THEN AuxTraceNext ELSE UNCHANGED auxVars
    /\ IF tool = "TutorialTrace" THEN TutorialTraceNext ELSE UNCHANGED tutorialVars
    /\ IF tool = "Music" THEN AudioNext ELSE UNCHANGED audioVars
    /\ IF tool = "Settings" THEN ToolSettingsNext ELSE UNCHANGED toolSettingsVars

MCSpec ==
    MCInit /\ [][MCNext]_<<tool, vars, tracerVars, triggerVars, profilerVars, auxVars,
                           tutorialVars, audioVars, toolSettingsVars>>

================================================================================
