------------------------------ MODULE ToolSettings ------------------------------
(* The tools' settings on the card.  Four modules keep one section each of        *)
(* tasSettings.toml, and each rewrites the whole file to change its own; the      *)
(* utility menu keeps the open windows and its tab in toolWindows.toml.           *)
EXTENDS Integers

CONSTANTS
    Section,        \* the sections of tasSettings.toml that modules keep
    InputBuffer,    \* the one that may still hold the older key true_enabled
    ToolWindow,     \* the windows whose state is kept
    Tab,            \* the tabs of the utility window
    FirstTab,
    NoFile,         \* a file that is missing or does not parse
    SettingsFaults  \* a part of {"WriteFails"}

Kept == {"On", "Off", "Absent"}
Table == [holds : [Section -> Kept], true_enabled : BOOLEAN]
Layout == [open : SUBSET ToolWindow, tab : Tab]

ASSUME ToolSettingsAssumption ==
    /\ InputBuffer \in Section
    /\ FirstTab \in Tab
    /\ NoFile \notin Table \cup Layout

VARIABLES
    isOn, lastSavedOn,      \* each module's Enabled, and what it saved of it
    settingsMigrationNeeded,
    tasSettings,                    \* the card's file
    layout, lastSavedLayout,
    layoutFile,                     \* the card's toolWindows.toml
    writeFailed                     \* history: a write went wrong since the start

settingsVars == <<isOn, lastSavedOn, settingsMigrationNeeded, tasSettings>>
layoutVars == <<layout, lastSavedLayout, layoutFile>>
toolSettingsVars == <<settingsVars, layoutVars, writeFailed>>

ToolSettingsTypeOK ==
    /\ isOn \in [Section -> BOOLEAN]
    /\ lastSavedOn \in [Section -> BOOLEAN]
    /\ settingsMigrationNeeded \in BOOLEAN
    /\ tasSettings \in Table \cup {NoFile}
    /\ layout \in Layout
    /\ lastSavedLayout \in Layout
    /\ layoutFile \in Layout \cup {NoFile}
    /\ writeFailed \in BOOLEAN

-------------------------------------------------------------------------------
(* Loading: value_or(false) for a missing key, all of them in a missing file. *)

IsOn(file, section) == file # NoFile /\ file.holds[section] = "On"

DefaultLayout == [open |-> {}, tab |-> FirstTab]
LayoutIn(file) == IF file = NoFile THEN DefaultLayout ELSE file

LoadedSections == [section \in Section |-> IsOn(tasSettings, section)]
HasOlderKey(file) == file # NoFile /\ file.true_enabled

ToolSettingsInit ==
    /\ tasSettings \in Table \cup {NoFile}
    /\ layoutFile \in Layout \cup {NoFile}
    /\ isOn = LoadedSections /\ lastSavedOn = LoadedSections
    /\ settingsMigrationNeeded = HasOlderKey(tasSettings)
    /\ layout = LayoutIn(layoutFile) /\ lastSavedLayout = LayoutIn(layoutFile)
    /\ writeFailed = FALSE

\* The game starts again on the files the last session left.
Restart ==
    /\ isOn' = LoadedSections /\ lastSavedOn' = LoadedSections
    /\ settingsMigrationNeeded' = HasOlderKey(tasSettings)
    /\ layout' = LayoutIn(layoutFile) /\ lastSavedLayout' = LayoutIn(layoutFile)
    /\ writeFailed' = FALSE
    /\ UNCHANGED <<tasSettings, layoutFile>>

-------------------------------------------------------------------------------
(* Saving a section: the file as it parses, or an empty one, with the section     *)
(* replaced.  A write that fails leaves the old file or none that parses, and     *)
(* only a failed Preallocate is noticed.                                          *)

EmptyTable == [holds |-> [section \in Section |-> "Absent"], true_enabled |-> FALSE]

\* Mutant: a save writes its own section only.
ForgetsOthers == EmptyTable

ExistingTable == IF tasSettings = NoFile THEN EmptyTable ELSE tasSettings

WithSection(section) ==
    [holds |-> [ExistingTable.holds EXCEPT ![section] = IF isOn'[section] THEN "On" ELSE "Off"],
     true_enabled |-> ExistingTable.true_enabled /\ section # InputBuffer]

HasChanged(section) ==
    \/ isOn'[section] # lastSavedOn[section]
    \/ section = InputBuffer /\ settingsMigrationNeeded

SectionSaved(section) ==
    /\ lastSavedOn' = [lastSavedOn EXCEPT ![section] = isOn'[section]]
    /\ settingsMigrationNeeded' = (settingsMigrationNeeded /\ section # InputBuffer)

SaveSettingsIfChanged(section) ==
    \/ /\ ~HasChanged(section)
       /\ UNCHANGED <<lastSavedOn, settingsMigrationNeeded, tasSettings, writeFailed>>
    \/ /\ HasChanged(section)
       /\ tasSettings' = WithSection(section)
       /\ SectionSaved(section)
       /\ UNCHANGED writeFailed
    \/ /\ HasChanged(section)
       /\ "WriteFails" \in SettingsFaults
       /\ tasSettings' \in {tasSettings, NoFile}
       /\ SectionSaved(section) \/ UNCHANGED <<lastSavedOn, settingsMigrationNeeded>>
       /\ writeFailed' = TRUE

\* A click on the check box of a module, or a Toggle step of a route on the
\* cutscene skips.
Switch(section) ==
    /\ isOn' = [isOn EXCEPT ![section] = ~@]
    /\ SaveSettingsIfChanged(section)
    /\ UNCHANGED layoutVars

\* The input buffer's menu saves whenever it is drawn, and so drops the older key.
DrawMenu ==
    /\ UNCHANGED isOn
    /\ SaveSettingsIfChanged(InputBuffer)
    /\ UNCHANGED layoutVars

-------------------------------------------------------------------------------
(* The utility menu's file, rewritten from memory. *)

SaveLayout ==
    \/ layout' = lastSavedLayout /\ UNCHANGED <<lastSavedLayout, layoutFile, writeFailed>>
    \/ /\ layout' # lastSavedLayout
       /\ layoutFile' = layout' /\ lastSavedLayout' = layout'
       /\ UNCHANGED writeFailed
    \/ /\ layout' # lastSavedLayout
       /\ "WriteFails" \in SettingsFaults
       /\ layoutFile' \in {layoutFile, NoFile}
       /\ lastSavedLayout' \in {lastSavedLayout, layout'}
       /\ writeFailed' = TRUE

\* A top bar entry opens or closes its window.
TopBar(window) ==
    /\ layout' = [layout EXCEPT !.open = IF window \in @ THEN @ \ {window} ELSE @ \cup {window}]
    /\ SaveLayout
    /\ UNCHANGED settingsVars

\* A window is closed by its own button, which nobody saves.
CloseWindow(window) ==
    /\ window \in layout.open
    /\ layout' = [layout EXCEPT !.open = @ \ {window}]
    /\ UNCHANGED <<settingsVars, lastSavedLayout, layoutFile, writeFailed>>

\* Each frame: the utility window, if it is open, shows one of its tabs.
DrawWindow ==
    /\ \/ UNCHANGED layout
       \/ layout.open # {} /\ \E tab \in Tab : layout' = [layout EXCEPT !.tab = tab]
    /\ SaveLayout
    /\ UNCHANGED settingsVars

ToolSettingsNext ==
    \/ \E section \in Section : Switch(section)
    \/ DrawMenu
    \/ \E window \in ToolWindow : TopBar(window) \/ CloseWindow(window)
    \/ DrawWindow
    \/ Restart

ToolSettingsSpec == ToolSettingsInit /\ [][ToolSettingsNext]_toolSettingsVars

-------------------------------------------------------------------------------
\* Until a write fails, the card holds what every module takes for saved, whoever
\* rewrote the shared file last: the next start finds each setting as it was left.
SettingsAreKept ==
    ~writeFailed =>
        /\ \A section \in Section :
               lastSavedOn[section] = IsOn(tasSettings, section)
        /\ settingsMigrationNeeded => HasOlderKey(tasSettings)
        /\ lastSavedLayout = LayoutIn(layoutFile)

=================================================================================
