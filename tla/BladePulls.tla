------------------------------ MODULE BladePulls ------------------------------
(* src/xenomods/modules/BladePulls.cpp: a queue of Blades the next core        *)
(* crystals shall give, kept in preset files (bladePulls0.toml, ...).  The     *)
(* hook on the game's Blade setup shapes a result after the pull at the        *)
(* cursor; the hooks on the two calls that add a Blade to the party move the   *)
(* cursor on, when what is added is what was shaped.                           *)
(*                                                                             *)
(* The game sets a Blade up, and then adds it or drops it, before it sets up   *)
(* another; it may refuse to add it.  A preset is written by deleting the      *)
(* file, creating it at its size and filling it.                               *)
EXTENDS Integers, Sequences, SequencesExt, FiniteSetsExt

CONSTANTS
    RareIds,        \* Blades of BLD_RareList
    Styles,         \* element and weapon of a common Blade
    MaxPulls,       \* bound: pulls in a queue
    MaxPresets,     \* bound: presets are named 0 .. MaxPresets - 1
    Absent,         \* no such file
    Unreadable,     \* a file that does not parse
    NoBlade,        \* no Blade waits to be added
    CardFaults      \* a part of {"Crash", "Refused"}

Preset == 0 .. MaxPresets - 1
Blade == [kind : {"Rare"}, what : RareIds] \cup [kind : {"Common"}, what : Styles]
Queue == UNION {[1 .. n -> Blade] : n \in 0 .. MaxPulls}
Stored == [enabled : BOOLEAN, pulls : Queue]

ASSUME PullsAssumption ==
    /\ MaxPulls \in Nat /\ MaxPresets \in Nat \ {0}
    /\ Absent \notin Stored /\ Unreadable \notin Stored
    /\ NoBlade \notin Blade

VARIABLES
    card,                   \* the preset files
    running,                \* the game runs with the module installed
    presetFiles,            \* the presets of the last scan
    currentPreset,
    enabled, pulls, selectedPull,
    queueCursor,            \* pulls already served
    overridePendingCommit,  \* the last Blade set up was shaped by the pull at the cursor
    rareChoices,            \* the rare Blades the window has read, all or none
    made,                   \* game: the Blade set up and not yet added
    saved                   \* history: the last write or load of the preset went through

files == <<card, presetFiles>>
memory == <<currentPreset, enabled, pulls, selectedPull>>
progress == <<queueCursor, overridePendingCommit>>
vars == <<files, running, memory, progress, rareChoices, made, saved>>

TypeOK ==
    /\ card \in [Preset -> Stored \cup {Absent, Unreadable}]
    /\ presetFiles \subseteq Preset
    /\ currentPreset \in Preset
    /\ running \in BOOLEAN /\ enabled \in BOOLEAN /\ saved \in BOOLEAN
    /\ pulls \in Queue
    /\ selectedPull \in 0 .. Len(pulls)
    /\ queueCursor \in 0 .. MaxPulls
    /\ overridePendingCommit \in BOOLEAN
    /\ rareChoices \in {{}, RareIds}
    /\ made \in Blade \cup {NoBlade}

-------------------------------------------------------------------------------
(* Preset files. *)

\* RescanPresets lists what exists.
Existing(c) == {p \in Preset : c[p] # Absent}

\* WriteTextFile: a refused write may have deleted the file already.
WriteTextFile(old, contents) ==
    {[left |-> contents, ok |-> TRUE]} \cup
    IF "Refused" \in CardFaults
    THEN {[left |-> x, ok |-> FALSE] : x \in {old, Absent, Unreadable}}
    ELSE {}

\* SavePreset writes the queue to the preset's file and scans the directory.
SavePreset(preset, on, queue) ==
    \E w \in WriteTextFile(card[preset], [enabled |-> on, pulls |-> queue]) :
        /\ card' = [card EXCEPT ![preset] = w.left]
        /\ presetFiles' = Existing(card')
        /\ saved' = w.ok

\* LoadPreset: what does not parse is an empty queue, switched off.
Parsed(contents) ==
    IF contents \in {Absent, Unreadable}
    THEN [enabled |-> FALSE, pulls |-> <<>>]
    ELSE contents

LoadPreset(preset) ==
    /\ currentPreset' = preset
    /\ enabled' = Parsed(card[preset]).enabled
    /\ pulls' = Parsed(card[preset]).pulls
    /\ selectedPull' = 0
    /\ saved' = (card[preset] \notin {Absent, Unreadable})
    /\ UNCHANGED card

\* Mutant: the pull that was shaped last still counts.
RewindOnly == queueCursor' = 0 /\ UNCHANGED overridePendingCommit

ResetQueueCursor == queueCursor' = 0 /\ overridePendingCommit' = FALSE

\* CreatePreset's suffix, the first that the fresh scan does not list.
FreePreset == Min(0 .. MaxPresets \ Existing(card))

CreatePreset ==
    /\ FreePreset \in Preset
    /\ currentPreset' = FreePreset
    /\ enabled' = FALSE /\ pulls' = <<>> /\ selectedPull' = 0
    /\ SavePreset(FreePreset, FALSE, <<>>)

-------------------------------------------------------------------------------
(* The hooks. *)

\* ActivePull: none once the queue is served or switched off.
HasActivePull == enabled /\ queueCursor < Len(pulls)
ActivePull == pulls[queueCursor + 1]

\* CommitPull's early return.
Commits(kind) == HasActivePull /\ overridePendingCommit /\ ActivePull.kind = kind

\* Mutant: a served queue is switched off in memory only.
SwitchOffUnsaved == enabled' = FALSE /\ UNCHANGED <<files, saved>>

SwitchOff == enabled' = FALSE /\ SavePreset(currentPreset, FALSE, pulls)

CommitPull(kind) ==
    IF Commits(kind)
    THEN /\ overridePendingCommit' = FALSE
         /\ queueCursor' = queueCursor + 1
         /\ IF queueCursor + 1 >= Len(pulls)
            THEN SwitchOff
            ELSE UNCHANGED <<files, enabled, saved>>
    ELSE UNCHANGED <<progress, files, enabled, saved>>

\* SetupSDataBladeHook.  A rare pull forces its id, which the game may resolve to
\* another Blade; a common pull replaces a rare id it recognises, and writes its
\* element and weapon over whatever came out.
SetupSDataBlade(native) ==
    /\ running /\ made = NoBlade
    /\ IF ~HasActivePull
       THEN made' = native /\ UNCHANGED overridePendingCommit
       ELSE IF ActivePull.kind = "Rare"
       THEN \E id \in RareIds :
                /\ made' = [kind |-> "Rare", what |-> id]
                /\ overridePendingCommit' = (id = ActivePull.what)
       ELSE /\ \/ made' = ActivePull
               \/ /\ native.kind = "Rare" /\ native.what \notin rareChoices
                  /\ made' = native
            /\ overridePendingCommit' = TRUE
    /\ UNCHANGED <<files, running, memory, queueCursor, rareChoices, saved>>

\* AddRareBladeHook and AddCommonBladeHook: the game accepts the Blade or not.
AddBlade(accepted) ==
    /\ running /\ made # NoBlade
    /\ made' = NoBlade
    /\ IF accepted
       THEN CommitPull(made.kind)
       ELSE UNCHANGED <<progress, files, enabled, saved>>
    /\ UNCHANGED <<running, currentPreset, pulls, selectedPull, rareChoices>>

\* The player leaves without the Blade.
DropBlade ==
    /\ made # NoBlade
    /\ made' = NoBlade
    /\ UNCHANGED <<files, running, memory, progress, rareChoices, saved>>

OnSceneTransition ==
    /\ running
    /\ overridePendingCommit' = FALSE
    /\ made' = NoBlade
    /\ UNCHANGED <<files, running, memory, queueCursor, rareChoices, saved>>

-------------------------------------------------------------------------------
(* The window. *)

Drawn == running /\ rareChoices' = RareIds /\ UNCHANGED <<running, made>>

\* DrawPresetRow: the combo offers the presets of the last scan.
SelectPreset(preset) ==
    /\ Drawn
    /\ preset \in presetFiles
    /\ LoadPreset(preset)
    /\ ResetQueueCursor
    /\ UNCHANGED presetFiles

Reload ==
    /\ Drawn
    /\ LoadPreset(currentPreset)
    /\ presetFiles' = Existing(card)
    /\ ResetQueueCursor

\* "+ New" leaves cursor and pending commit: the new queue is empty.
NewPreset == Drawn /\ CreatePreset /\ UNCHANGED progress

\* "Enable": switching on starts the queue over.
ToggleEnabled ==
    /\ Drawn
    /\ enabled' = ~enabled
    /\ SavePreset(currentPreset, ~enabled, pulls)
    /\ IF enabled THEN UNCHANGED progress ELSE ResetQueueCursor
    /\ UNCHANGED <<currentPreset, pulls, selectedPull>>

\* Add, Up, Down, Duplicate and Delete start the queue over and save it.
EditQueue(queue, selected) ==
    /\ Drawn
    /\ Len(queue) <= MaxPulls
    /\ pulls' = queue
    /\ selectedPull' = selected
    /\ ResetQueueCursor
    /\ SavePreset(currentPreset, enabled, queue)
    /\ UNCHANGED <<currentPreset, enabled>>

AddPull(pull) == EditQueue(Append(pulls, pull), selectedPull)

SelectPull(i) ==
    /\ Drawn
    /\ selectedPull' = i
    /\ UNCHANGED <<files, currentPreset, enabled, pulls, progress, saved>>

Swapped(i, j) == [pulls EXCEPT ![i] = pulls[j], ![j] = pulls[i]]

MoveUp == selectedPull > 1 /\ EditQueue(Swapped(selectedPull, selectedPull - 1), selectedPull - 1)

MoveDown ==
    /\ selectedPull \in 1 .. Len(pulls) - 1
    /\ EditQueue(Swapped(selectedPull, selectedPull + 1), selectedPull + 1)

Duplicate ==
    /\ selectedPull > 0
    /\ EditQueue(InsertAt(pulls, selectedPull + 1, pulls[selectedPull]), selectedPull + 1)

SelectionAfterDelete == Min({selectedPull, Len(pulls) - 1})

Delete ==
    /\ selectedPull > 0
    /\ EditQueue(RemoveAt(pulls, selectedPull), SelectionAfterDelete)

-------------------------------------------------------------------------------
(* Start and power cut. *)

\* Initialize: the first preset by name, whatever was used last.
Initialize ==
    /\ ~running
    /\ running' = TRUE
    /\ IF Existing(card) = {}
       THEN CreatePreset
       ELSE LoadPreset(Min(Existing(card))) /\ presetFiles' = Existing(card)
    /\ ResetQueueCursor
    /\ UNCHANGED <<rareChoices, made>>

\* What is left in memory means nothing until the next start.
PowerOff ==
    /\ running /\ running' = FALSE
    /\ presetFiles' = {} /\ currentPreset' = 0 /\ saved' = FALSE
    /\ enabled' = FALSE /\ pulls' = <<>> /\ selectedPull' = 0
    /\ queueCursor' = 0 /\ overridePendingCommit' = FALSE
    /\ rareChoices' = {} /\ made' = NoBlade

Quit == PowerOff /\ UNCHANGED card

\* The power fails while the current preset or a new one is being written.
Crash ==
    /\ "Crash" \in CardFaults
    /\ \E preset \in {currentPreset, FreePreset} \cap Preset, left \in {Absent, Unreadable} :
           card' = [card EXCEPT ![preset] = left]
    /\ PowerOff

Init ==
    /\ card \in [Preset -> Stored \cup {Absent, Unreadable}]
    /\ running = FALSE
    /\ presetFiles = {} /\ currentPreset = 0 /\ saved = FALSE
    /\ enabled = FALSE /\ pulls = <<>> /\ selectedPull = 0
    /\ queueCursor = 0 /\ overridePendingCommit = FALSE
    /\ rareChoices = {} /\ made = NoBlade

Game ==
    \/ \E native \in Blade : SetupSDataBlade(native)
    \/ \E accepted \in BOOLEAN : AddBlade(accepted)
    \/ DropBlade
    \/ OnSceneTransition

Window ==
    \/ \E preset \in Preset : SelectPreset(preset)
    \/ Reload
    \/ NewPreset
    \/ ToggleEnabled
    \/ \E pull \in Blade : AddPull(pull)
    \/ \E i \in DOMAIN pulls : SelectPull(i)
    \/ MoveUp \/ MoveDown \/ Duplicate \/ Delete

Next == Game \/ Window \/ Initialize \/ Quit \/ Crash

Spec == Init /\ [][Next]_vars

-------------------------------------------------------------------------------
(* Properties. *)

\* A pull is used up only by the very Blade it names: the cursor moves on only in
\* a step in which the game adds the Blade that the pull at the cursor shaped,
\* also when the queue was edited, reloaded or switched between setup and adding.
PullsAreServedInOrder ==
    [][queueCursor' > queueCursor =>
           /\ queueCursor' = queueCursor + 1
           /\ made = pulls[queueCursor + 1]]_vars

\* The preset on the card is the queue in memory, after every edit, switch, load,
\* power cut and served queue, unless its file could not be written or read last.
SavedPresetIsCurrent ==
    running /\ saved => card[currentPreset] = [enabled |-> enabled, pulls |-> pulls]

===============================================================================
