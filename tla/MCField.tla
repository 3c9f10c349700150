-------------------------------- MODULE MCField --------------------------------
(* What the user keeps, where the player stands, and what the loader does before *)
(* either, in one run: the route files of MCRouteFiles, the cameras, the warps,  *)
(* forced reactions, the frame with its menu and log, the hooks, the pages they  *)
(* are written to, the plugins, and the replaced files and tables.  An initial   *)
(* choice says which of them is used; the others stay as they start.             *)
EXTENDS MCRouteFiles, CameraTools, Scenes, Shell,
        InlineHook, ControlledPages, PluginManager, FileReplacement

VARIABLE used

mcStrides == {-1, 1}
mcReactionKind == {"Knockback", "Break"}
mcCombo == {"combo"}

\* Distances are scaled down so that one address is near and one is far.
mcReach == [op \in Relative |-> CASE op \in Branches -> 60
                                 [] op = "TBZ" -> 20
                                 [] OTHER -> 30]
mcWrap == [op \in Conditional |-> IF op = "BC" THEN 64 ELSE 40]

mcHeap == [base |-> 3, end |-> 5]
mcAlias == [base |-> 7, end |-> 9]
mcAslr == [base |-> 1, end |-> 12]
\* The game's code and a little else, or all but one page in use.
mcLayouts == {{}, (Page \ {9})} \cup {{4, 10} \cup more : more \in SUBSET {1, 2, 5, 6, 9}}

\* One section or one row of one sheet, beside settings with a section for the game.
mcTop == [s \in Sheets |-> IF s = "FLD_ms" THEN 1 ELSE 4]
mcCount == [s \in Sheets |-> 2]
mcKind == [m \in Members |-> CASE m = "name" -> "String" [] m = "rate" -> "Float"
                               [] m = "level" -> "Integer" [] OTHER -> "Other"]
mcNumbers == {<<"number", 0>>, <<"number", 3>>, <<"number", 4>>}
mcFits == [kind \in {"Integer", "Float", "String"} |->
              CASE kind = "String" -> {<<"text", "hello">>}
                [] kind = "Integer" -> {<<"number", 0>>, <<"number", 4>>}
                [] OTHER -> mcNumbers]
mcBegins == [s \in {"FLD_ms", "CHR", "CHR_Dr"} |-> IF s = "CHR_Dr" THEN {"CHR", "CHR_Dr"} ELSE {s}]
mcDefault ==
    [x \in Scalars \cup Lists |->
        CASE x = "dumpFileReads" -> FALSE [] x = "enableFileOverrides" -> TRUE
          [] OTHER -> <<"CHR_Dr">>]
mcTable(dump, override, list) ==
    [dumpFileReads |-> dump, enableFileOverrides |-> override, bdatSkipOverrides |-> list]
mcConfigFiles ==
    {[global |-> mcTable(TRUE, NoNode, <<"FLD_ms">>), game |-> section] : section \in
        {NoTable, mcTable(WrongType, FALSE, NoNode),
         mcTable(NoNode, NoNode, <<"CHR_Dr", WrongType>>)}}
    \cup {[global |-> mcTable(NoNode, NoNode, <<WrongType>>), game |-> mcTable(TRUE, FALSE, <<>>)]}
mcRow ==
    {[fb |-> row, values |-> v] : row \in {NoFallback, 1}, v \in
        {[m \in {} |-> 0],
         [m \in {"level"} |-> <<"number", 0>>],
         [m \in {"level", "rate"} |-> <<"number", 3>>],
         [m \in {"name"} |-> <<"text", "hello">>],
         [m \in {"name", "other"} |-> <<"number", 4>>]}}
mcOverrideFiles ==
    {[s \in {} |-> 0]}
    \cup {[s \in {sheet} |-> [n \in {idx} |-> row]] :
            sheet \in {"FLD_ms", "CHR"}, idx \in {2, 7}, row \in mcRow}

\* The variables of each but the transition flag, which three of them share.
cameraOwn == <<axis, switches, normalVars, orbitVars, lastPlayerPos, inputVars, player, layer>>
warpOwn == <<listVars, normalCameraRestorePending, previousPlayerPosition, partyVars>>
reactionOwn == <<PendingReaction, SelectedPower, controlled, forced, press>>
loaderVars == <<hookVars, pageVars, pluginVars, replacementVars>>

FieldInit ==
    /\ used \in {"Files", "Camera", "Warps", "Reactions", "Shell", "Hooks", "Pages",
                "Plugins", "Replacement"}
    /\ CameraInit /\ (used # "Camera" => axis = "Level")
    /\ ReactionsInit
    /\ IF used = "Files" THEN MCInit /\ legacy = OldRoute
       ELSE /\ Init
            /\ files = [n \in Names |-> Absent]
            /\ backups = [n \in Names |-> Absent]
            /\ legacy = Absent /\ setting = Absent
    /\ WarpsInit
    /\ used # "Warps" => warpsFile = Missing /\ map = "m1"
    /\ ShellInit
    /\ used # "Shell" => ~showsInfo
    /\ InlineHookInit /\ PagesInit /\ PluginInit
    /\ ReplacementInit
    /\ used # "Replacement" =>
          configFile = NoTable /\ overrideFile = NoTable /\ overrides = [r \in Reads |-> "None"]
    /\ used # "Pages" => inUse = {}

FieldNext ==
    /\ UNCHANGED used
    /\ \/ used = "Files" /\ Next
          /\ UNCHANGED <<cameraVars, warpOwn, reactionOwn, shellVars, loaderVars>>
       \/ used = "Camera" /\ CameraNext
          /\ UNCHANGED <<vars, warpOwn, reactionOwn, shellVars, loaderVars>>
       \/ used = "Warps" /\ WarpsNext
          /\ UNCHANGED <<vars, cameraOwn, reactionOwn, shellVars, loaderVars>>
       \/ used = "Reactions" /\ ReactionsNext
          /\ UNCHANGED <<vars, cameraOwn, warpOwn, shellVars, loaderVars>>
       \/ used = "Shell" /\ ShellNext
          /\ UNCHANGED <<vars, cameraVars, warpOwn, reactionOwn, loaderVars>>
       \/ used = "Hooks" /\ InlineHookNext
          /\ UNCHANGED <<vars, cameraVars, warpOwn, reactionOwn, shellVars, pageVars, pluginVars,
                         replacementVars>>
       \/ used = "Pages" /\ PagesNext
          /\ UNCHANGED <<vars, cameraVars, warpOwn, reactionOwn, shellVars, hookVars, pluginVars,
                         replacementVars>>
       \/ used = "Plugins" /\ PluginNext
          /\ UNCHANGED <<vars, cameraVars, warpOwn, reactionOwn, shellVars, hookVars, pageVars,
                         replacementVars>>
       \/ used = "Replacement" /\ ReplacementNext
          /\ UNCHANGED <<vars, cameraVars, warpOwn, reactionOwn, shellVars, hookVars, pageVars,
                         pluginVars>>

FieldSpec ==
    FieldInit /\ [][FieldNext]_<<used, vars, cameraVars, warpOwn, reactionOwn, shellVars,
                                 loaderVars>>

================================================================================
