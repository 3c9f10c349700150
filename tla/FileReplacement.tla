---------------------------- MODULE FileReplacement ----------------------------
(* FileDetours, BdatOverride and BdatRandomizer: what the game hears when it reads  *)
(* a file or asks a sheet of its tables, once the settings and the override file    *)
(* have been loaded at boot.                                                        *)
EXTENDS Config, FiniteSets

CONSTANTS
    Sheets, Members,
    Kind,           \* the type of each member: "Integer", "Float", "String" or "Other"
    Fits,           \* for each type but the last, the values of a file it can hold
    IdTop, IdCount, \* first row and number of rows of each sheet of the game
    MessageSheets,  \* the sheets whose name ends with _ms
    NameMember,     \* the member called name
    Begins,         \* Begins[s]: the sheets whose name is a prefix of s, s itself included
    NoFallback,     \* a row of the override file without _fb
    OverrideFiles,  \* override files: [sheet -> [row -> [fb, values]]] on what they name
    ConfigFiles,
    Draws,          \* numbers mtRand may draw
    Reads,          \* files, or slices of one, the game reads
    NoDump, Blank   \* no dump on the card; a dump that was created and not written

Ids == 65536    \* rows are numbered in 16 bits

ASSUME ReplacementAssumption ==
    /\ {"dumpFileReads", "enableFileOverrides"} \subseteq Scalars
    /\ "bdatSkipOverrides" \in Lists
    /\ Scalars \cap Lists = {}
    /\ \A sheet \in Sheets : /\ IdTop[sheet] \in Nat /\ IdCount[sheet] \in Nat \ {0}
                            /\ IdTop[sheet] + IdCount[sheet] <= Ids
    /\ NoTable \notin OverrideFiles /\ NoTable \notin ConfigFiles
    /\ \A file \in OverrideFiles : \A sheet \in DOMAIN file : DOMAIN file[sheet] \subseteq 0 .. Ids - 1

\* An override file that is not there, or how long it is beside what the game reads.
Lengths == {"None", "Shorter", "Same", "Longer"}

VARIABLES
    booted,
    configFile, overrideFile,               \* on the card; NoTable if it does not load
    TOMLTable, SheetMaxIDs, Callbacks,
    msScrambleType,                         \* "Off", "ScrambleIndex" or "ShowSheetName"
    overrides, dumps,                       \* on the card, for each read
    served                                  \* what the game was given by its last read

tableVars == <<TOMLTable, SheetMaxIDs, Callbacks>>
cardVars == <<configFile, overrideFile, overrides>>
replacementVars == <<config, booted, tableVars, msScrambleType, cardVars, dumps, served>>

Nothing == [n \in {} |-> 0]

-------------------------------------------------------------------------------
(* Sheets. *)

Word(n) == <<"word", n>>

\* A value of the file is <<"number", halves>>, so that one may have a fraction, or
\* <<"text", it>>.  A member of any other type takes a value and answers nothing.
TextOf(value) == <<"text", value>>

\* Asking an empty optional for its value ends the program, built without exceptions.
Ended == <<"ended", 0>>

Fitting(kind, value) == kind = "Other" \/ value \in Fits[kind]

Converted(kind, value) ==
    IF ~Fitting(kind, value) THEN Ended
    ELSE CASE kind = "Other" -> Word(0)
           [] kind = "String" -> TextOf(value)
           [] OTHER -> Word(value[2] \div 2)

\* The game's own answers, and the labels of message sheets.
Orig(sheet, member, row) == <<"game", sheet, member, row>>
SheetName(sheet) == <<"label", sheet>>

Row(idx) == idx % Ids

\* A listed name that begins with the name of the sheet skips it.
Skips(sheet) ==
    \E i \in DOMAIN config["bdatSkipOverrides"] :
        sheet \in Begins[config["bdatSkipOverrides"][i]]

TomlApplies(access) == access.sheet \in DOMAIN SheetMaxIDs

\* Mutant: a row that is given a fallback and values takes only the values.
TomlValuesOnly(access) ==
    IF access.row \notin DOMAIN TOMLTable[access.sheet] THEN access
    ELSE LET row == TOMLTable[access.sheet][access.row]
         IN IF access.member \in DOMAIN row.values
            THEN [access EXCEPT !.data = Converted(Kind[access.member], row.values[access.member]),
                                !.ignoreEmptyData = TRUE]
            ELSE access

TomlOverride(access) ==
    IF access.row \notin DOMAIN TOMLTable[access.sheet] THEN access
    ELSE LET row == TOMLTable[access.sheet][access.row]
             moved == IF row.fb = NoFallback THEN access ELSE [access EXCEPT !.row = row.fb]
         IN IF access.member \in DOMAIN row.values
            THEN [moved EXCEPT !.data = Converted(Kind[access.member], row.values[access.member]),
                               !.ignoreEmptyData = TRUE]
            ELSE moved

\* The hooks of getIdCount and getIdEnd, unsigned shorts.
IDCount(sheet) ==
    IF sheet \notin DOMAIN SheetMaxIDs THEN IdCount[sheet]
    ELSE LET maxId == (SheetMaxIDs[sheet] - IdTop[sheet] + 1) % Ids
         IN IF maxId > IdCount[sheet] THEN maxId ELSE IdCount[sheet]

IDEnd(sheet) ==
    LET own == IdTop[sheet] + IdCount[sheet] - 1
    IN IF sheet \in DOMAIN SheetMaxIDs /\ SheetMaxIDs[sheet] > own THEN SheetMaxIDs[sheet] ELSE own

RandomizerApplies(access) ==
    msScrambleType # "Off" /\ access.sheet \in MessageSheets /\ access.member = NameMember

\* mtRand draws a number; the count it is reduced by is the hooked one.
RandomizerOverride(access, mtRand) ==
    CASE msScrambleType = "ScrambleIndex" ->
            [access EXCEPT !.row = Row((mtRand % IDCount(access.sheet)) + IdTop[access.sheet])]
      [] msScrambleType = "ShowSheetName" -> [access EXCEPT !.data = SheetName(access.sheet)]
      [] OTHER -> access

Run(callback, access, mtRand) ==
    IF access.data = Ended THEN access
    ELSE CASE callback = "Toml" /\ TomlApplies(access) -> TomlOverride(access)
           [] callback = "Randomizer" /\ RandomizerApplies(access) ->
                 RandomizerOverride(access, mtRand)
           [] OTHER -> access

\* Two callbacks exist.
RunAll(access, mtRand) ==
    LET first == IF Len(Callbacks) >= 1 THEN Run(Callbacks[1], access, mtRand) ELSE access
    IN IF Len(Callbacks) >= 2 THEN Run(Callbacks[2], first, mtRand) ELSE first

process(sheet, member, idx, mtRand) ==
    LET access == [sheet |-> sheet, member |-> member, row |-> Row(idx),
                   data |-> Word(0), ignoreEmptyData |-> FALSE]
    IN IF Skips(sheet) THEN access ELSE RunAll(access, mtRand)

getVal(sheet, member, idx, mtRand) ==
    IF Callbacks = <<>> THEN Orig(sheet, member, idx)
    ELSE LET access == process(sheet, member, idx, mtRand)
         IN IF access.ignoreEmptyData \/ access.data # Word(0) THEN access.data
            ELSE Orig(sheet, member, access.row)

-------------------------------------------------------------------------------
(* Loading. *)

\* A callback is in the list once at most.
Erased(callback) ==
    LET at == {i \in DOMAIN Callbacks : Callbacks[i] = callback}
        i == CHOOSE place \in at : TRUE
    IN IF at = {} THEN Callbacks
       ELSE SubSeq(Callbacks, 1, i - 1) \o SubSeq(Callbacks, i + 1, Len(Callbacks))

RegisterCallback(callbacks, callback) ==
    IF \E i \in DOMAIN callbacks : callbacks[i] = callback THEN callbacks
    ELSE Append(callbacks, callback)

\* The largest row a section names, or 0.
MaxRow(section) ==
    IF DOMAIN section = {} THEN 0
    ELSE CHOOSE row \in DOMAIN section : \A other \in DOMAIN section : other <= row

LoadFromFile(file) ==
    IF file = NoTable
    THEN /\ SheetMaxIDs' = Nothing /\ TOMLTable' = Nothing
         /\ Callbacks' = Erased("Toml")
    ELSE /\ SheetMaxIDs' = [sheet \in DOMAIN file |-> MaxRow(file[sheet])]
         /\ TOMLTable' = file
         /\ Callbacks' = IF DOMAIN file = {} THEN Erased("Toml")
                         ELSE RegisterCallback(Erased("Toml"), "Toml")

ReplacementInit ==
    /\ config = ResetConfig /\ booted = FALSE
    /\ configFile \in ConfigFiles \cup {NoTable}
    /\ overrideFile \in OverrideFiles \cup {NoTable}
    /\ TOMLTable = Nothing /\ SheetMaxIDs = Nothing /\ Callbacks = <<>>
    /\ msScrambleType = "Off"
    /\ overrides \in [Reads -> Lengths]
    /\ dumps = [r \in Reads |-> NoDump]
    /\ served = Nothing

\* The ROM is mounted: the first use of the state loads the settings, then main
\* initializes the modules.
RomMounted ==
    /\ ~booted /\ booted' = TRUE
    /\ LoadConfig(configFile)
    /\ LoadFromFile(overrideFile)
    /\ UNCHANGED <<msScrambleType, cardVars, dumps, served>>

\* The choice in the menu registers the randomizer while it does something.
ChooseScrambleType(type) ==
    /\ booted /\ type # msScrambleType
    /\ msScrambleType' = type
    /\ Callbacks' = IF type = "Off" THEN Erased("Randomizer")
                    ELSE RegisterCallback(Callbacks, "Randomizer")
    /\ UNCHANGED <<config, booted, TOMLTable, SheetMaxIDs, cardVars, dumps, served>>

-------------------------------------------------------------------------------
(* Files. *)

\* What a buffer holds: what was read, from its start and to its end, and what comes
\* after it.  A dump holds the first two.
GameData(read) == [of |-> read, start |-> "Game", end |-> "Game", after |-> "Kept"]
OverrideData(read) ==
    [of |-> read, start |-> "Override",
     end |-> IF overrides[read] = "Shorter" THEN "Game" ELSE "Override",
     after |-> IF overrides[read] = "Longer" THEN "Override" ELSE "Kept"]

\* Each step of a dump may fail: what is on the card stays, or was deleted for its size
\* and is not made anew, or stays blank, or is what the buffer holds.
DumpToFilesystem(read, buffer) ==
    \E dump \in {dumps[read], NoDump, Blank, buffer} : dumps' = [dumps EXCEPT ![read] = dump]

\* An override that is not there, or does not read, leaves the buffer alone; another
\* is read at its own length, whatever the length of what it replaces.
LoadFromFilesystem(read, buffer) ==
    \E data \in {buffer} \cup (IF overrides[read] # "None" THEN {OverrideData(read)} ELSE {}) :
        served' = data

\* Mutant: the override is loaded first.
OverrideThenDump(read) ==
    /\ IF config["enableFileOverrides"] THEN LoadFromFilesystem(read, GameData(read))
       ELSE served' = GameData(read)
    /\ IF config["dumpFileReads"] THEN DumpToFilesystem(read, served')
       ELSE UNCHANGED dumps

FileDetourImpl(read) ==
    /\ IF config["dumpFileReads"] THEN DumpToFilesystem(read, GameData(read))
       ELSE UNCHANGED dumps
    /\ IF config["enableFileOverrides"] THEN LoadFromFilesystem(read, GameData(read))
       ELSE served' = GameData(read)

\* A read that is not complete is passed on as it is.
ReadFile(read, fullyLoaded) ==
    /\ booted
    /\ IF fullyLoaded THEN FileDetourImpl(read)
       ELSE served' = Nothing /\ UNCHANGED dumps
    /\ UNCHANGED <<config, booted, tableVars, msScrambleType, cardVars>>

ReplacementNext ==
    \/ RomMounted
    \/ \E type \in {"Off", "ScrambleIndex", "ShowSheetName"} : ChooseScrambleType(type)
    \/ \E read \in Reads, fullyLoaded \in BOOLEAN : ReadFile(read, fullyLoaded)

ReplacementSpec == ReplacementInit /\ [][ReplacementNext]_replacementVars

-------------------------------------------------------------------------------
\* What a table answers is the value the file gives, as a word or a text of the
\* member's type, a float without its fraction; where it gives none, the game's own
\* value of the same row or of the fallback.  A value the type cannot hold is answered
\* by no one: the program ends.  A sheet that is skipped, for its own name or for a
\* listed one that begins with it, answers as the game does, and what the randomizer
\* has scrambled is answered by it: with a row it draws the file's value comes first.
TablesFollowFile ==
    booted =>
        \A sheet \in Sheets, member \in Members :
            \A idx \in IdTop[sheet] .. IDEnd(sheet), mtRand \in Draws :
                LET file == IF overrideFile = NoTable THEN Nothing ELSE overrideFile
                    skipped == Skips(sheet)
                    named == ~skipped /\ sheet \in DOMAIN file /\ idx \in DOMAIN file[sheet]
                    row == file[sheet][idx]
                    given == named /\ member \in DOMAIN row.values
                    scrambled == /\ ~skipped /\ msScrambleType # "Off"
                                 /\ sheet \in MessageSheets /\ member = NameMember
                    answer == getVal(sheet, member, idx, mtRand)
                IN /\ given /\ ~(scrambled /\ msScrambleType = "ShowSheetName")
                        => answer = Converted(Kind[member], row.values[member])
                   /\ given /\ ~Fitting(Kind[member], row.values[member]) => answer = Ended
                   /\ ~given /\ ~scrambled
                        => answer = Orig(sheet, member,
                               IF named /\ row.fb # NoFallback THEN row.fb ELSE idx)

\* The end of a sheet and its number of rows are extended alike, unless the file names
\* rows of the sheet below its first only: then the end stays and the number comes out
\* 16 bits around, a row for each there could be but those in between; or it names the
\* last of 16 bits of a sheet that begins at 0, and only the end is extended.
CountReachesEnd ==
    \A sheet \in DOMAIN SheetMaxIDs \cap Sheets :
        LET last == SheetMaxIDs[sheet]
            below == IdTop[sheet] - 1 - last
        IN IF below > 0
           THEN /\ IDEnd(sheet) = IdTop[sheet] + IdCount[sheet] - 1
                /\ IDCount(sheet) = Ids - below
           ELSE IF -below = Ids THEN IDEnd(sheet) = last /\ IDCount(sheet) = IdCount[sheet]
           ELSE IdTop[sheet] + IDCount(sheet) - 1 = IDEnd(sheet)

\* A dump never holds an override: what is replaced can be compared with the game's.
DumpIsOriginal == \A read \in Reads : dumps[read] \in {NoDump, Blank, GameData(read)}

\* The game is served its own data, or an override from its first byte on: as far as
\* it goes if it is shorter than what was read, and on past the end if it is longer.
ServedAsOnCard ==
    served # Nothing =>
        \/ served = GameData(served.of)
        \/ /\ config["enableFileOverrides"] /\ overrides[served.of] # "None"
           /\ served.start = "Override"
           /\ served.end = "Game" <=> overrides[served.of] = "Shorter"
           /\ served.after = "Override" <=> overrides[served.of] = "Longer"

\* Each setting is the one of the game's section, else the global one, else the
\* default.  A list stands for another as a whole, but for one in the section that has
\* an element of another type: it stands too, with the elements before that one.
SectionOverridesFile ==
    booted /\ configFile # NoTable =>
        LET Sections(x) == IF configFile.game = NoTable THEN {} ELSE {configFile.game[x]}
            Global(x, usable) == IF usable THEN configFile.global[x] ELSE Default[x]
        IN /\ \A x \in Scalars :
                config[x] = IF \E node \in Sections(x) : HasNode(node)
                            THEN value_or(configFile.game[x], Default[x])
                            ELSE value_or(configFile.global[x], Default[x])
           /\ \A x \in Lists :
                config[x] = IF \E node \in Sections(x) : is_array(node)
                            THEN FirstElements(configFile.game[x])
                            ELSE Global(x, is_array(configFile.global[x])
                                           /\ ~load_failed(configFile.global[x]))

\* What the game hears is what the files on the card say, and what they replaced is
\* still the game's own in the dumps.
FilesAreHeard ==
    TablesFollowFile /\ CountReachesEnd /\ DumpIsOriginal /\ ServedAsOnCard
    /\ SectionOverridesFile

===============================================================================
